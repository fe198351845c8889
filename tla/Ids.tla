--------------------------------- MODULE Ids ---------------------------------
(***************************************************************************)
(* Identifiers shared by the modules: physical node ids (Config::node_id)  *)
(* and VIP addresses are naturals, because the code iterates over both in  *)
(* BTreeMap order.  A map with absent keys is a total function whose value *)
(* NoNode (NoTick, NoReplica) stands for an absent key.                    *)
(***************************************************************************)
EXTENDS Integers, FiniteSets

CONSTANTS Nodes, Vips

ASSUME NodesAssumption == Nodes \subseteq Nat \ {0} /\ IsFiniteSet(Nodes)
ASSUME VipsAssumption == Vips \subseteq Nat /\ IsFiniteSet(Vips)

NoNode == 0

Holders(eligible) == [Vips -> eligible \cup {NoNode}]

\* A placement hands a VIP only to an eligible node, places every VIP when
\* there is one, takes a VIP from an eligible holder only for a receiver and
\* spreads the VIPs over the receivers.
IsPlacement(eligible, receivers, current, next) ==
    LET load(n) == Cardinality({v \in Vips : next[v] = n})
    IN /\ next \in [Vips -> eligible \cup {NoNode}]
       /\ eligible # {} => \A v \in Vips : next[v] # NoNode
       /\ \A v \in Vips : (current[v] \in eligible /\ next[v] # current[v])
                              => next[v] \in receivers
       /\ \A d \in eligible, r \in receivers : load(d) <= load(r) + 1

=============================================================================
