----------------------------- MODULE AssignLoop -----------------------------
(***************************************************************************)
(* assign_vips_minimal_movement_with_receivers (raft/store/vip_logic.rs)   *)
(* one loop iteration at a time, with the two pieces of bookkeeping the    *)
(* code keeps beside its result: `load` (VIPs per eligible node) and       *)
(* `held` (which ones).  The inputs are chosen once, in Init.              *)
(***************************************************************************)
EXTENDS Placement

VARIABLES eligible, receivers, current,   \* inputs
          out, load, held,                \* result and bookkeeping
          todo, orphans, pass             \* loop control

inputs == <<eligible, receivers, current>>
vars == <<eligible, receivers, current, out, load, held, todo, orphans, pass>>

Lowest(S) == CHOOSE x \in S : \A y \in S : x <= y
Highest(S) == CHOOSE x \in S : \A y \in S : y <= x

\* extreme_loaded_node over the `load` map, ties to the lowest id.
least_loaded_node(S) ==
    CHOOSE n \in S : \A m \in S :
        load[n] < load[m] \/ (load[n] = load[m] /\ n <= m)

most_loaded_node(S) ==
    CHOOSE n \in S : \A m \in S :
        load[n] > load[m] \/ (load[n] = load[m] /\ n <= m)

Init ==
    /\ eligible \in SUBSET Nodes
    /\ receivers \in SUBSET eligible
    /\ current \in [Vips -> Nodes \cup {NoNode}]
    /\ out = [v \in Vips |-> NoNode]
    /\ load = [n \in Nodes |-> 0]
    /\ held = [n \in Nodes |-> {}]
    /\ todo = Vips
    /\ orphans = {}
    /\ pass = IF eligible = {} THEN "done" ELSE "keep"

Put(v, n) ==
    /\ out' = [out EXCEPT ![v] = n]
    /\ load' = [load EXCEPT ![n] = @ + 1]
    /\ held' = [held EXCEPT ![n] = @ \cup {v}]

\* Pass 1, one VIP in address order: keep it or set it aside.
Keep ==
    /\ pass = "keep"
    /\ todo # {}
    /\ LET v == Lowest(todo) IN
        /\ todo' = todo \ {v}
        /\ \/ /\ current[v] \in eligible
              /\ Put(v, current[v])
              /\ UNCHANGED orphans
           \/ /\ current[v] \notin eligible
              /\ orphans' = orphans \cup {v}
              /\ UNCHANGED <<out, load, held>>
    /\ UNCHANGED <<inputs, pass>>

KeepDone ==
    /\ pass = "keep"
    /\ todo = {}
    /\ pass' = "place"
    /\ UNCHANGED <<inputs, out, load, held, todo, orphans>>

\* A plausible slip: orphans all go to the lowest eligible id.
PlaceFirst ==
    /\ pass = "place"
    /\ orphans # {}
    /\ LET v == Lowest(orphans) IN
        /\ Put(v, Lowest(eligible))
        /\ orphans' = orphans \ {v}
    /\ UNCHANGED <<inputs, todo, pass>>

\* Pass 2, one orphan in address order.
Place ==
    /\ pass = "place"
    /\ orphans # {}
    /\ LET v == Lowest(orphans) IN
        /\ Put(v, least_loaded_node(eligible))
        /\ orphans' = orphans \ {v}
    /\ UNCHANGED <<inputs, todo, pass>>

PlaceDone ==
    /\ pass = "place"
    /\ orphans = {}
    /\ pass' = "rebalance"
    /\ UNCHANGED <<inputs, out, load, held, todo, orphans>>

\* A plausible slip: a gap of two VIPs is left.
ImbalancedByTwo ==
    /\ receivers # {}
    /\ load[most_loaded_node(eligible)] > load[least_loaded_node(receivers)] + 2

\* The loop test of pass 3; only rebalance receivers may take a VIP.
Imbalanced ==
    /\ receivers # {}
    /\ load[most_loaded_node(eligible)] > load[least_loaded_node(receivers)] + 1

\* A plausible slip: the donor's load is not decremented.
MoveWithoutDonorUpdate ==
    /\ pass = "rebalance"
    /\ Imbalanced
    /\ LET donor == most_loaded_node(eligible)
           recv == least_loaded_node(receivers)
           vip == Highest(held[donor])
       IN /\ out' = [out EXCEPT ![vip] = recv]
          /\ load' = [load EXCEPT ![recv] = @ + 1]
          /\ held' = [held EXCEPT ![donor] = @ \ {vip}, ![recv] = @ \cup {vip}]
    /\ UNCHANGED <<inputs, todo, orphans, pass>>

\* A plausible slip: a gap of one VIP already triggers a move.
MoveBackAndForth ==
    /\ pass = "rebalance"
    /\ receivers # {}
    /\ load[most_loaded_node(eligible)] > load[least_loaded_node(receivers)]
    /\ LET donor == most_loaded_node(eligible)
           recv == least_loaded_node(receivers)
           vip == Highest(held[donor])
       IN /\ out' = [out EXCEPT ![vip] = recv]
          /\ load' = [load EXCEPT ![donor] = @ - 1, ![recv] = @ + 1]
          /\ held' = [held EXCEPT ![donor] = @ \ {vip}, ![recv] = @ \cup {vip}]
    /\ UNCHANGED <<inputs, todo, orphans, pass>>

\* Pass 3, one iteration: the donor's highest VIP goes to the receiver.
Move ==
    /\ pass = "rebalance"
    /\ Imbalanced
    /\ LET donor == most_loaded_node(eligible)
           recv == least_loaded_node(receivers)
           vip == Highest(held[donor])
       IN /\ out' = [out EXCEPT ![vip] = recv]
          /\ load' = [load EXCEPT ![donor] = @ - 1, ![recv] = @ + 1]
          /\ held' = [held EXCEPT ![donor] = @ \ {vip}, ![recv] = @ \cup {vip}]
    /\ UNCHANGED <<inputs, todo, orphans, pass>>

Stop ==
    /\ pass = "rebalance"
    /\ ~Imbalanced
    /\ pass' = "done"
    /\ UNCHANGED <<inputs, out, load, held, todo, orphans>>

Next == Keep \/ KeepDone \/ Place \/ PlaceDone \/ Move \/ Stop

\* One thread runs the function to its end.
Spec == Init /\ [][Next]_vars /\ WF_vars(Next)

-----------------------------------------------------------------------------

\* The redundant maps never drift from the result: `held` is the inverse of
\* `out`, `load` its cardinality.  The donor choice of pass 3 is only right
\* while this holds (vip_logic.rs:142-203).
BookkeepingExact ==
    \A n \in Nodes : held[n] = VipsOf(out, n) /\ load[n] = Cardinality(held[n])

\* The result is a placement: on eligible nodes only, complete, evenly spread
\* over the receivers, and no VIP of an eligible holder went anywhere but to a
\* receiver.  What already is a placement stays as it is, so recomputing moves
\* nothing (the function's comment, vip_logic.rs:89-102, and the loop's,
\* 173-175).  KafStore assumes exactly this of its policy.
ResultIsPlacement ==
    pass = "done" =>
        /\ IsPlacement(eligible, receivers, current, out)
        /\ IsPlacement(eligible, receivers, current, current) => out = current

\* The step-by-step code computes the function the store model uses.
ComputesAssignVips ==
    pass = "done" => out = AssignVips(eligible, receivers, current)

Even(h) == \A m, n \in eligible : Load(h, m) <= Load(h, n) + 1

Moved(h) == {v \in Vips : current[v] \in eligible /\ h[v] # current[v]}

\* When every eligible node may receive, no even placement moves fewer of the
\* VIPs whose holder is still eligible ("moves the minimum number of VIPs
\* while still converging to a maximally even spread", vip_logic.rs:94-95).
MovementIsMinimal ==
    (pass = "done" /\ eligible # {} /\ receivers = eligible) =>
        /\ Even(out)
        /\ \A h \in [Vips -> eligible] :
               Even(h) => Cardinality(Moved(out)) <= Cardinality(Moved(h))

\* The balancing loop moves for good: a VIP that leaves an eligible node leaves
\* the node that held it before the call, so a node that was given one never
\* becomes a donor, whichever nodes may receive and however the loads shift
\* (vip_logic.rs:176-202, which has no other bound on its iterations).
NoVipMovesTwice ==
    [][\A v \in Vips :
          (current[v] \in eligible /\ out[v] # NoNode /\ out'[v] # out[v]) => out[v] = current[v]]_vars

\* The loop ends (vip_logic.rs:173-175 argues it does).
Terminates == <>(pass = "done")

=============================================================================
