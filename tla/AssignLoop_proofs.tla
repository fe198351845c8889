-------------------------- MODULE AssignLoop_proofs --------------------------
(***************************************************************************)
(* The assignment loop keeps its bookkeeping exact and computes a placement*)
(* as KafStore assumes it, for any finite sets of nodes and VIPs.          *)
(***************************************************************************)
EXTENDS AssignLoop, FiniteSetTheorems, TLAPS

Passes == {"keep", "place", "rebalance", "done"}

TypeOK ==
    /\ eligible \in SUBSET Nodes
    /\ receivers \in SUBSET eligible
    /\ current \in [Vips -> Nodes \cup {NoNode}]
    /\ out \in [Vips -> eligible \cup {NoNode}]
    /\ load \in [Nodes -> Nat]
    /\ held \in [Nodes -> SUBSET Vips]
    /\ todo \in SUBSET Vips
    /\ orphans \in SUBSET Vips
    /\ pass \in Passes

\* A VIP waits in exactly one of the two work lists until it is placed.
Waiting ==
    /\ todo \cap orphans = {}
    /\ eligible # {} => \A v \in Vips : out[v] = NoNode <=> v \in todo \cup orphans
    /\ \A v \in orphans : current[v] \notin eligible
    /\ pass # "done" => eligible # {}
    /\ pass \in {"place", "rebalance"} => todo = {}
    /\ pass = "rebalance" => orphans = {}
    /\ (pass = "done" /\ eligible # {}) => todo = {} /\ orphans = {}

\* A node within one VIP of every receiver is no donor.
Settled(n) == \A r \in receivers : load[n] <= load[r] + 1

\* A VIP of an eligible holder moves in pass 3 only, to a receiver, which is
\* no donor from then on.
MovesAt ==
    \A v \in Vips : (out[v] # NoNode /\ current[v] \in eligible /\ out[v] # current[v])
                        => pass \in {"rebalance", "done"} /\ out[v] \in receivers /\ Settled(out[v])

\* A placement is left alone.
KeptAt ==
    IsPlacement(eligible, receivers, current, current) =>
        \A v \in Vips : out[v] \in {current[v], NoNode}

SpreadAt ==
    pass = "done" => \A d \in eligible, r \in receivers : load[d] <= load[r] + 1

IInv ==
    /\ TypeOK
    /\ BookkeepingExact
    /\ Waiting
    /\ MovesAt
    /\ KeptAt
    /\ SpreadAt

-----------------------------------------------------------------------------
(* The extreme elements the loop looks up exist.                           *)

\* A function on a finite set has a least value.
LEMMA LeastValue ==
    ASSUME NEW S, IsFiniteSet(S), S # {}, NEW f \in [S -> Int]
    PROVE  \E x \in S : \A y \in S : f[x] <= f[y]
<1> DEFINE Below(x) == {y \in S : f[y] < f[x]}
           T == {Below(x) : x \in S}
<1>1. IsWellFoundedOn(StrictSubsetOrdering(S), SUBSET S)
    BY FS_StrictSubsetOrderingWellFounded, FS_FiniteSubsetsOfFinite, Zenon
<1>2. T \subseteq SUBSET S /\ T # {}
    <2>1. \A x \in S : Below(x) \in SUBSET S
        OBVIOUS
    <2> HIDE DEF Below
    <2> QED BY <2>1, Zenon
<1>3. \E X \in T : \A Y \in T : ~(<<Y, X>> \in StrictSubsetOrdering(S))
    <2> HIDE DEF T
    <2> QED BY <1>1, <1>2, WFMin
<1>4. PICK x \in S : \A y \in S : ~(<<Below(y), Below(x)>> \in StrictSubsetOrdering(S))
    BY <1>3, Zenon
<1>5. ASSUME NEW y \in S, f[y] < f[x] PROVE FALSE
    <2>1. y \in Below(x) /\ y \notin Below(y)
        BY <1>5
    <2>2. Below(y) \subseteq Below(x)
        BY <1>5
    <2>3. <<Below(y), Below(x)>> \in StrictSubsetOrdering(S)
        BY <2>1, <2>2 DEF StrictSubsetOrdering
    <2> QED BY <1>4, <2>3
<1> QED BY <1>5

LEMMA LowestIsIn ==
    ASSUME NEW S, S \subseteq Nat, IsFiniteSet(S), S # {}
    PROVE  Lowest(S) \in S /\ \A y \in S : Lowest(S) <= y
<1> DEFINE f == [x \in S |-> x]
<1>1. f \in [S -> Int] /\ \A x \in S : f[x] = x
    OBVIOUS
<1> HIDE DEF f
<1>2. \E x \in S : \A y \in S : f[x] <= f[y]
    BY <1>1, LeastValue, Zenon
<1>3. \E x \in S : \A y \in S : x <= y
    BY <1>1, <1>2
<1> QED BY <1>3, Zenon DEF Lowest

LEMMA HighestIsIn ==
    ASSUME NEW S, S \subseteq Nat, IsFiniteSet(S), S # {}
    PROVE  Highest(S) \in S
<1> DEFINE f == [x \in S |-> -x]
<1>1. f \in [S -> Int] /\ \A x \in S : f[x] = -x
    OBVIOUS
<1> HIDE DEF f
<1>2. \E x \in S : \A y \in S : f[x] <= f[y]
    BY <1>1, LeastValue, Zenon
<1>3. \E x \in S : \A y \in S : y <= x
    BY <1>1, <1>2
<1> QED BY <1>3, Zenon DEF Highest

\* The node of least value and, among those, of lowest id.
LEMMA LeastNode ==
    ASSUME NEW S \in SUBSET Nodes, S # {}, NEW f \in [S -> Int]
    PROVE  \E n \in S : \A m \in S : f[n] < f[m] \/ (f[n] = f[m] /\ n <= m)
<1>1. IsFiniteSet(S) /\ S \subseteq Nat
    BY NodesAssumption, FS_Subset, Zenon
<1>2. PICK x \in S : \A y \in S : f[x] <= f[y]
    BY <1>1, LeastValue, Zenon
<1> DEFINE M == {n \in S : f[n] = f[x]}
<1>3. M \subseteq Nat /\ IsFiniteSet(M) /\ M # {} /\ M \subseteq S
    BY <1>1, FS_Subset, Zenon
<1>4. Lowest(M) \in M /\ \A y \in M : Lowest(M) <= y
    <2> HIDE DEF M
    <2> QED BY <1>3, LowestIsIn, Zenon
<1>5. ASSUME NEW m \in S PROVE f[Lowest(M)] < f[m] \/ (f[Lowest(M)] = f[m] /\ Lowest(M) <= m)
    <2>1. f[Lowest(M)] = f[x] /\ f[x] <= f[m] /\ f[x] \in Int /\ f[m] \in Int
        BY <1>2, <1>4
    <2>2. f[m] = f[x] => m \in M
        OBVIOUS
    <2> HIDE DEF M
    <2> QED BY <1>4, <2>1, <2>2
<1> QED BY <1>3, <1>4, <1>5

LEMMA LeastLoadedIsIn ==
    ASSUME NEW S \in SUBSET Nodes, S # {}, load \in [Nodes -> Nat]
    PROVE  /\ least_loaded_node(S) \in S
           /\ \A m \in S : load[least_loaded_node(S)] <= load[m]
<1> DEFINE f == [n \in S |-> load[n]]
<1>1. f \in [S -> Int] /\ \A n \in S : f[n] = load[n]
    OBVIOUS
<1> HIDE DEF f
<1>2. \E n \in S : \A m \in S : f[n] < f[m] \/ (f[n] = f[m] /\ n <= m)
    BY <1>1, LeastNode
<1>3. \E n \in S : \A m \in S : load[n] < load[m] \/ (load[n] = load[m] /\ n <= m)
    BY <1>1, <1>2
<1> DEFINE P(n) == \A m \in S : load[n] < load[m] \/ (load[n] = load[m] /\ n <= m)
<1>4. least_loaded_node(S) \in S /\ P(least_loaded_node(S))
    BY <1>3 DEF least_loaded_node
<1> QED BY <1>4

LEMMA MostLoadedIsIn ==
    ASSUME NEW S \in SUBSET Nodes, S # {}, load \in [Nodes -> Nat]
    PROVE  /\ most_loaded_node(S) \in S
           /\ \A m \in S : load[most_loaded_node(S)] >= load[m]
<1> DEFINE f == [n \in S |-> -load[n]]
<1>1. f \in [S -> Int] /\ \A n \in S : f[n] = -load[n]
    OBVIOUS
<1> HIDE DEF f
<1>2. \E n \in S : \A m \in S : f[n] < f[m] \/ (f[n] = f[m] /\ n <= m)
    BY <1>1, LeastNode
<1>3. \E n \in S : \A m \in S : load[n] > load[m] \/ (load[n] = load[m] /\ n <= m)
    BY <1>1, <1>2
<1> DEFINE P(n) == \A m \in S : load[n] > load[m] \/ (load[n] = load[m] /\ n <= m)
<1>4. most_loaded_node(S) \in S /\ P(most_loaded_node(S))
    BY <1>3 DEF most_loaded_node
<1> QED BY <1>4

-----------------------------------------------------------------------------
(* The bookkeeping.                                                        *)

LEMMA HeldIsFinite ==
    ASSUME TypeOK, NEW n \in Nodes
    PROVE  held[n] \subseteq Vips /\ IsFiniteSet(held[n])
<1>1. held[n] \in SUBSET Vips
    BY DEF TypeOK
<1> QED BY <1>1, VipsAssumption, FS_Subset

\* Passes 1 and 2: a VIP without a holder is given one.
LEMMA PutIsExact ==
    ASSUME TypeOK, BookkeepingExact, NEW v \in Vips, NEW n \in eligible,
           out[v] = NoNode, Put(v, n)
    PROVE  /\ BookkeepingExact'
           /\ out' \in [Vips -> eligible \cup {NoNode}]
           /\ load' \in [Nodes -> Nat] /\ held' \in [Nodes -> SUBSET Vips]
           /\ out'[v] = n /\ \A w \in Vips \ {v} : out'[w] = out[w]
<1>0. n \in Nodes /\ NoNode \notin Nodes
    BY NodesAssumption DEF TypeOK, NoNode
<1>1. /\ out' \in [Vips -> eligible \cup {NoNode}]
      /\ out'[v] = n /\ \A w \in Vips \ {v} : out'[w] = out[w]
    BY DEF Put, TypeOK
<1>2. /\ load' \in [Nodes -> Nat] /\ load'[n] = load[n] + 1
      /\ \A m \in Nodes \ {n} : load'[m] = load[m]
    BY <1>0 DEF Put, TypeOK
<1>3. /\ held' \in [Nodes -> SUBSET Vips] /\ held'[n] = held[n] \cup {v}
      /\ \A m \in Nodes \ {n} : held'[m] = held[m]
    BY <1>0 DEF Put, TypeOK
<1>4. \A m \in Nodes : held[m] = VipsOf(out, m) /\ load[m] = Cardinality(held[m])
    BY DEF BookkeepingExact
<1>5. \A m \in Nodes : held'[m] = VipsOf(out', m)
    BY <1>0, <1>1, <1>3, <1>4 DEF VipsOf
<1>6. Cardinality(held'[n]) = Cardinality(held[n]) + 1
    <2>1. v \notin held[n]
        BY <1>0, <1>4 DEF VipsOf
    <2>2. IsFiniteSet(held[n])
        BY <1>0, HeldIsFinite
    <2>3. Cardinality(held[n] \cup {v}) = Cardinality(held[n]) + 1
        BY <2>1, <2>2, FS_AddElement, Zenon
    <2> QED BY <1>3, <2>3, Zenon
<1>7. BookkeepingExact'
    BY <1>0, <1>2, <1>3, <1>4, <1>5, <1>6, Zenon DEF BookkeepingExact
<1> QED BY <1>1, <1>2, <1>3, <1>7

\* Pass 3: the choices of an iteration are what the code takes them for.
LEMMA Donor ==
    ASSUME TypeOK, BookkeepingExact, eligible # {}, Imbalanced
    PROVE  LET donor == most_loaded_node(eligible)
               recv == least_loaded_node(receivers)
               vip == Highest(held[donor])
           IN /\ donor \in eligible /\ recv \in receivers /\ donor # recv
              /\ load[donor] > load[recv] + 1
              /\ vip \in held[donor] /\ vip \in Vips /\ out[vip] = donor
<1> DEFINE donor == most_loaded_node(eligible)
           recv == least_loaded_node(receivers)
           vip == Highest(held[donor])
<1>1. receivers # {} /\ receivers \in SUBSET Nodes /\ eligible \in SUBSET Nodes
    BY DEF Imbalanced, TypeOK
<1>2. donor \in eligible /\ recv \in receivers
    BY <1>1, MostLoadedIsIn, LeastLoadedIsIn DEF TypeOK
<1>3. load[donor] > load[recv] + 1
    BY DEF Imbalanced
<1> HIDE DEF donor, recv
<1>4. donor \in Nodes /\ recv \in Nodes /\ load[donor] \in Nat /\ load[recv] \in Nat
    BY <1>1, <1>2 DEF TypeOK
<1>5. donor # recv /\ load[donor] # 0
    BY <1>3, <1>4
<1>6. held[donor] = VipsOf(out, donor) /\ load[donor] = Cardinality(held[donor])
    BY <1>4 DEF BookkeepingExact
<1>7. held[donor] \subseteq Vips /\ IsFiniteSet(held[donor])
    BY <1>4, HeldIsFinite
<1>8. held[donor] # {} /\ held[donor] \subseteq Nat
    BY <1>5, <1>6, <1>7, FS_EmptySet, VipsAssumption, Zenon
<1>9. vip \in held[donor]
    BY <1>7, <1>8, HighestIsIn
<1>10. vip \in Vips /\ out[vip] = donor
    BY <1>6, <1>7, <1>9 DEF VipsOf
<1> QED BY <1>2, <1>3, <1>5, <1>9, <1>10 DEF donor, recv

LEMMA MoveIsExact ==
    ASSUME TypeOK, BookkeepingExact, NEW donor \in Nodes, NEW recv \in eligible, donor # recv,
           NEW vip \in Vips, out[vip] = donor, vip \in held[donor], load[donor] > 1,
           out' = [out EXCEPT ![vip] = recv],
           load' = [load EXCEPT ![donor] = @ - 1, ![recv] = @ + 1],
           held' = [held EXCEPT ![donor] = @ \ {vip}, ![recv] = @ \cup {vip}]
    PROVE  /\ BookkeepingExact'
           /\ out' \in [Vips -> eligible \cup {NoNode}]
           /\ load' \in [Nodes -> Nat] /\ held' \in [Nodes -> SUBSET Vips]
           /\ out'[vip] = recv /\ \A w \in Vips \ {vip} : out'[w] = out[w]
<1>0. recv \in Nodes /\ NoNode \notin Nodes
    BY NodesAssumption DEF TypeOK, NoNode
<1>1. /\ out' \in [Vips -> eligible \cup {NoNode}]
      /\ out'[vip] = recv /\ \A w \in Vips \ {vip} : out'[w] = out[w]
    BY DEF TypeOK
<1>2. /\ load' \in [Nodes -> Nat] /\ load'[recv] = load[recv] + 1 /\ load'[donor] = load[donor] - 1
      /\ \A m \in Nodes \ {donor, recv} : load'[m] = load[m]
    BY <1>0 DEF TypeOK
<1>3. /\ held' \in [Nodes -> SUBSET Vips]
      /\ held'[recv] = held[recv] \cup {vip} /\ held'[donor] = held[donor] \ {vip}
      /\ \A m \in Nodes \ {donor, recv} : held'[m] = held[m]
    BY <1>0 DEF TypeOK
<1>4. \A m \in Nodes : held[m] = VipsOf(out, m) /\ load[m] = Cardinality(held[m])
    BY DEF BookkeepingExact
<1>5. \A m \in Nodes : held'[m] = VipsOf(out', m)
    BY <1>0, <1>1, <1>3, <1>4 DEF VipsOf
<1>6. Cardinality(held'[recv]) = Cardinality(held[recv]) + 1
    <2>1. vip \notin held[recv]
        BY <1>0, <1>4 DEF VipsOf
    <2>2. IsFiniteSet(held[recv])
        BY <1>0, HeldIsFinite
    <2>3. Cardinality(held[recv] \cup {vip}) = Cardinality(held[recv]) + 1
        BY <2>1, <2>2, FS_AddElement, Zenon
    <2> QED BY <1>3, <2>3, Zenon
<1>7. Cardinality(held'[donor]) = Cardinality(held[donor]) - 1
    <2>1. IsFiniteSet(held[donor])
        BY HeldIsFinite
    <2> QED BY <1>3, <2>1, FS_RemoveElement
<1>8. BookkeepingExact'
    BY <1>0, <1>2, <1>3, <1>4, <1>5, <1>6, <1>7, Zenon DEF BookkeepingExact
<1> QED BY <1>1, <1>2, <1>3, <1>8

-----------------------------------------------------------------------------
(* The induction.                                                          *)

LEMMA Initially == Init => IInv
<1> SUFFICES ASSUME Init PROVE IInv
    OBVIOUS
<1>1. TypeOK
    BY DEF Init, TypeOK, Passes
<1>2. \A n \in Nodes : VipsOf(out, n) = {}
    BY NodesAssumption DEF Init, VipsOf, NoNode
<1>3. BookkeepingExact
    BY <1>2, FS_EmptySet DEF Init, BookkeepingExact
<1>4. Waiting /\ MovesAt /\ KeptAt /\ SpreadAt
    BY DEF Init, Waiting, MovesAt, KeptAt, SpreadAt
<1> QED BY <1>1, <1>3, <1>4 DEF IInv

\* A work list yields its lowest address.
LEMMA LowestVip ==
    ASSUME NEW S \in SUBSET Vips, S # {}
    PROVE  Lowest(S) \in S
BY VipsAssumption, FS_Subset, LowestIsIn, Zenon

LEMMA KeepStep ==
    ASSUME IInv, Keep
    PROVE  IInv'
<1>0. TypeOK /\ BookkeepingExact /\ Waiting /\ MovesAt /\ KeptAt /\ SpreadAt
    BY DEF IInv
<1> DEFINE v == Lowest(todo)
<1>1. v \in todo /\ v \in Vips
    BY <1>0, LowestVip DEF Keep, TypeOK
<1>2. /\ pass = "keep" /\ pass' = pass /\ UNCHANGED inputs /\ todo' = todo \ {v}
      /\ eligible # {} /\ out[v] = NoNode
    BY <1>0, <1>1 DEF Keep, Waiting
<1>3. \/ current[v] \in eligible /\ Put(v, current[v]) /\ orphans' = orphans
      \/ current[v] \notin eligible /\ orphans' = orphans \cup {v} /\ UNCHANGED <<out, load, held>>
    BY DEF Keep
<1> HIDE DEF v
<1>4. CASE current[v] \in eligible /\ Put(v, current[v]) /\ orphans' = orphans
    <2>1. /\ BookkeepingExact'
          /\ out' \in [Vips -> eligible \cup {NoNode}]
          /\ load' \in [Nodes -> Nat] /\ held' \in [Nodes -> SUBSET Vips]
          /\ out'[v] = current[v] /\ \A w \in Vips \ {v} : out'[w] = out[w]
        BY <1>0, <1>1, <1>2, <1>4, PutIsExact
    <2>2. TypeOK'
        BY <1>0, <1>2, <1>4, <2>1 DEF TypeOK, inputs
    <2>3. Waiting'
        <3>1. current[v] # NoNode
            BY <1>0, <1>4, NodesAssumption DEF TypeOK, NoNode
        <3>2. \A w \in Vips : out'[w] = NoNode <=> w \in todo' \cup orphans'
            BY <1>0, <1>1, <1>2, <1>4, <2>1, <3>1 DEF Waiting
        <3> QED BY <1>0, <1>2, <1>4, <3>2 DEF Waiting, inputs
    <2>4. MovesAt' /\ KeptAt' /\ SpreadAt'
        BY <1>0, <1>2, <2>1 DEF MovesAt, KeptAt, SpreadAt, inputs
    <2> QED BY <2>1, <2>2, <2>3, <2>4 DEF IInv
<1>5. CASE current[v] \notin eligible /\ orphans' = orphans \cup {v} /\ UNCHANGED <<out, load, held>>
    <2>1. TypeOK'
        BY <1>0, <1>1, <1>2, <1>5 DEF TypeOK, inputs
    <2>2. Waiting'
        BY <1>0, <1>1, <1>2, <1>5 DEF Waiting, inputs
    <2>3. BookkeepingExact'
        BY <1>0, <1>5 DEF BookkeepingExact
    <2>4. MovesAt' /\ KeptAt' /\ SpreadAt'
        BY <1>0, <1>2, <1>5 DEF MovesAt, KeptAt, SpreadAt, inputs
    <2> QED BY <2>1, <2>2, <2>3, <2>4 DEF IInv
<1> QED BY <1>3, <1>4, <1>5

\* Where a placement is given there is no orphan.
LEMMA PlacedHasNoOrphan ==
    ASSUME IInv, eligible # {}, IsPlacement(eligible, receivers, current, current)
    PROVE  orphans = {}
<1>1. \A v \in Vips : current[v] \in eligible
    BY DEF IsPlacement
<1> QED BY <1>1 DEF IInv, Waiting, TypeOK

LEMMA PlaceStep ==
    ASSUME IInv, Place
    PROVE  IInv'
<1>0. TypeOK /\ BookkeepingExact /\ Waiting /\ MovesAt /\ KeptAt /\ SpreadAt
    BY DEF IInv
<1> DEFINE v == Lowest(orphans)
           n == least_loaded_node(eligible)
<1>1. v \in orphans /\ v \in Vips
    BY <1>0, LowestVip DEF Place, TypeOK
<1>2. /\ pass = "place" /\ pass' = pass /\ UNCHANGED inputs /\ orphans' = orphans \ {v}
      /\ todo' = todo /\ Put(v, n)
      /\ eligible # {} /\ out[v] = NoNode /\ current[v] \notin eligible
    BY <1>0, <1>1 DEF Place, Waiting
<1>3. n \in eligible /\ n # NoNode
    BY <1>0, <1>2, LeastLoadedIsIn, NodesAssumption DEF TypeOK, NoNode
<1> HIDE DEF v, n
<1>4. /\ BookkeepingExact'
      /\ out' \in [Vips -> eligible \cup {NoNode}]
      /\ load' \in [Nodes -> Nat] /\ held' \in [Nodes -> SUBSET Vips]
      /\ out'[v] = n /\ \A w \in Vips \ {v} : out'[w] = out[w]
    BY <1>0, <1>1, <1>2, <1>3, PutIsExact
<1>5. TypeOK'
    BY <1>0, <1>2, <1>4 DEF TypeOK, inputs
<1>6. Waiting'
    <2>1. \A w \in Vips : out'[w] = NoNode <=> w \in todo' \cup orphans'
        BY <1>0, <1>1, <1>2, <1>3, <1>4 DEF Waiting
    <2> QED BY <1>0, <1>2, <2>1 DEF Waiting, inputs
<1>7. MovesAt' /\ SpreadAt'
    BY <1>0, <1>2, <1>4 DEF MovesAt, SpreadAt, inputs
<1>8. KeptAt'
    <2>1. ~IsPlacement(eligible, receivers, current, current)
        BY <1>1, <1>2, PlacedHasNoOrphan
    <2> QED BY <1>2, <2>1 DEF KeptAt, inputs
<1> QED BY <1>4, <1>5, <1>6, <1>7, <1>8 DEF IInv

\* Once every VIP is placed, an input that is a placement is the result.
LEMMA PlacementIsKept ==
    ASSUME IInv, todo = {}, orphans = {}, eligible # {},
           IsPlacement(eligible, receivers, current, current)
    PROVE  out = current /\ \A d \in eligible, r \in receivers : load[d] <= load[r] + 1
<1>0. TypeOK /\ BookkeepingExact /\ Waiting /\ KeptAt
    BY DEF IInv
<1>1. \A v \in Vips : out[v] = current[v]
    BY <1>0 DEF Waiting, KeptAt
<1>2. out = current
    BY <1>0, <1>1 DEF TypeOK
<1>3. \A n \in Nodes : load[n] = Cardinality({v \in Vips : current[v] = n})
    BY <1>0, <1>2, Zenon DEF BookkeepingExact, VipsOf
<1>4. \A d \in eligible, r \in receivers :
          Cardinality({v \in Vips : current[v] = d}) <= Cardinality({v \in Vips : current[v] = r}) + 1
    BY DEF IsPlacement
<1>5. eligible \subseteq Nodes /\ receivers \subseteq Nodes
    BY <1>0 DEF TypeOK
<1> QED BY <1>2, <1>3, <1>4, <1>5, Zenon

\* A move settles its receiver and unsettles no other: the donor still has
\* more than the receiver had, and no node had more than the donor.
LEMMA SettledStays ==
    ASSUME TypeOK, BookkeepingExact, eligible # {}, Imbalanced, UNCHANGED inputs,
           load' = [load EXCEPT ![most_loaded_node(eligible)] = @ - 1,
                                ![least_loaded_node(receivers)] = @ + 1]
    PROVE  \A n \in receivers : n = least_loaded_node(receivers) \/ Settled(n) => Settled(n)'
<1> DEFINE donor == most_loaded_node(eligible)
           recv == least_loaded_node(receivers)
<1>1. /\ receivers # {} /\ receivers \in SUBSET Nodes /\ eligible \in SUBSET Nodes
      /\ receivers \subseteq eligible /\ load \in [Nodes -> Nat]
    BY DEF Imbalanced, TypeOK
<1>2. /\ donor \in Nodes /\ recv \in Nodes /\ recv \in receivers
      /\ \A n \in receivers : load[recv] <= load[n] /\ load[n] <= load[donor]
    BY <1>1, MostLoadedIsIn, LeastLoadedIsIn
<1>3. donor # recv /\ load[donor] > load[recv] + 1
    BY Donor
<1> HIDE DEF donor, recv
<1>4. /\ load'[recv] = load[recv] + 1 /\ load'[donor] = load[donor] - 1
      /\ \A n \in Nodes \ {donor, recv} : load'[n] = load[n]
    BY <1>1, <1>2, <1>3 DEF donor, recv
<1>5. ASSUME NEW n \in receivers, n = recv \/ Settled(n), NEW r \in receivers
      PROVE  load'[n] <= load'[r] + 1
    <2>1. n \in Nodes /\ r \in Nodes /\ load[n] \in Nat /\ load[r] \in Nat
          /\ load[donor] \in Nat /\ load[recv] \in Nat
        BY <1>1, <1>2
    <2>2. n = recv \/ (load[n] <= load[r] + 1 /\ load[n] <= load[recv] + 1)
        BY <1>2, <1>5 DEF Settled
    <2>3. n # donor
        BY <1>3, <2>1, <2>2
    <2>4. load[recv] <= load[r] /\ load[n] <= load[donor]
        BY <1>2
    <2>5. \/ n = recv /\ load'[n] = load[recv] + 1
          \/ load'[n] = load[n] /\ load[n] <= load[r] + 1
        BY <1>4, <2>1, <2>2, <2>3, Zenon
    <2>6. \/ r = recv /\ load'[r] = load[recv] + 1
          \/ r = donor /\ load'[r] = load[donor] - 1
          \/ load'[r] = load[r]
        BY <1>4, <2>1, Zenon
    <2> QED BY <1>3, <2>1, <2>4, <2>5, <2>6
<1> QED BY <1>5, Zenon DEF Settled, inputs, recv

LEMMA MoveStep ==
    ASSUME IInv, Move
    PROVE  IInv'
<1>0. TypeOK /\ BookkeepingExact /\ Waiting /\ MovesAt /\ KeptAt /\ SpreadAt
    BY DEF IInv
<1> DEFINE donor == most_loaded_node(eligible)
           recv == least_loaded_node(receivers)
           vip == Highest(held[donor])
<1>1. /\ pass = "rebalance" /\ pass' = pass /\ UNCHANGED inputs /\ UNCHANGED <<todo, orphans>>
      /\ Imbalanced /\ eligible # {} /\ todo = {} /\ orphans = {}
      /\ out' = [out EXCEPT ![vip] = recv]
      /\ load' = [load EXCEPT ![donor] = @ - 1, ![recv] = @ + 1]
      /\ held' = [held EXCEPT ![donor] = @ \ {vip}, ![recv] = @ \cup {vip}]
    BY <1>0 DEF Move, Waiting
<1>2. /\ donor \in eligible /\ recv \in receivers /\ donor # recv
      /\ load[donor] > load[recv] + 1
      /\ vip \in held[donor] /\ vip \in Vips /\ out[vip] = donor
    BY <1>0, <1>1, Donor
<1> HIDE DEF donor, recv, vip
<1>3. /\ donor \in Nodes /\ recv \in eligible /\ recv # NoNode
      /\ load[donor] > 1
    BY <1>0, <1>2, NodesAssumption DEF TypeOK, NoNode
<1>4. /\ BookkeepingExact'
      /\ out' \in [Vips -> eligible \cup {NoNode}]
      /\ load' \in [Nodes -> Nat] /\ held' \in [Nodes -> SUBSET Vips]
      /\ out'[vip] = recv /\ \A w \in Vips \ {vip} : out'[w] = out[w]
    BY <1>0, <1>1, <1>2, <1>3, MoveIsExact, Zenon
<1>5. TypeOK'
    BY <1>0, <1>1, <1>4 DEF TypeOK, inputs
<1>6. Waiting'
    <2>1. \A w \in Vips : out'[w] # NoNode
        BY <1>0, <1>1, <1>3, <1>4 DEF Waiting
    <2> QED BY <1>0, <1>1, <2>1 DEF Waiting, inputs
<1>7. MovesAt' /\ SpreadAt'
    <2>1. \A n \in receivers : n = recv \/ Settled(n) => Settled(n)'
        BY <1>0, <1>1, SettledStays DEF donor, recv
    <2> QED BY <1>0, <1>1, <1>2, <1>4, <2>1 DEF MovesAt, SpreadAt, inputs
<1>8. KeptAt'
    <2>1. ~IsPlacement(eligible, receivers, current, current)
        <3>1. load[donor] \in Nat /\ load[recv] \in Nat
            BY <1>0, <1>3 DEF TypeOK
        <3> QED BY <1>1, <1>2, <3>1, PlacementIsKept
    <2> QED BY <1>1, <2>1 DEF KeptAt, inputs
<1> QED BY <1>4, <1>5, <1>6, <1>7, <1>8 DEF IInv

LEMMA StopStep ==
    ASSUME IInv, Stop
    PROVE  IInv'
<1>0. TypeOK /\ BookkeepingExact /\ Waiting /\ MovesAt /\ KeptAt
    BY DEF IInv
<1>1. /\ pass = "rebalance" /\ pass' = "done" /\ ~Imbalanced
      /\ UNCHANGED <<eligible, receivers, current, out, load, held, todo, orphans>>
    BY DEF Stop, inputs
<1>2. ASSUME NEW d \in eligible, NEW r \in receivers PROVE load[d] <= load[r] + 1
    <2>1. eligible \in SUBSET Nodes /\ receivers \in SUBSET Nodes /\ load \in [Nodes -> Nat]
        BY <1>0 DEF TypeOK
    <2>2. /\ most_loaded_node(eligible) \in eligible /\ load[most_loaded_node(eligible)] >= load[d]
          /\ least_loaded_node(receivers) \in receivers /\ load[least_loaded_node(receivers)] <= load[r]
        BY <2>1, MostLoadedIsIn, LeastLoadedIsIn
    <2>3. ~(load[most_loaded_node(eligible)] > load[least_loaded_node(receivers)] + 1)
        BY <1>1, <1>2 DEF Imbalanced
    <2> QED BY <2>1, <2>2, <2>3
<1>3. SpreadAt'
    BY <1>1, <1>2 DEF SpreadAt
<1>4. TypeOK' /\ Waiting'
    BY <1>0, <1>1 DEF TypeOK, Waiting, Passes
<1>5. BookkeepingExact' /\ MovesAt' /\ KeptAt'
    BY <1>0, <1>1 DEF BookkeepingExact, MovesAt, Settled, KeptAt
<1> QED BY <1>3, <1>4, <1>5 DEF IInv

LEMMA Inductive == IInv /\ [Next]_vars => IInv'
<1> SUFFICES ASSUME IInv, [Next]_vars PROVE IInv'
    OBVIOUS
<1>0. TypeOK /\ BookkeepingExact /\ Waiting /\ MovesAt /\ KeptAt /\ SpreadAt
    BY DEF IInv
<1>1. CASE KeepDone \/ PlaceDone
    <2>1. /\ UNCHANGED <<eligible, receivers, current, out, load, held, todo, orphans>>
          /\ \/ pass = "keep" /\ todo = {} /\ pass' = "place"
             \/ pass = "place" /\ orphans = {} /\ pass' = "rebalance"
        BY <1>1 DEF KeepDone, PlaceDone, inputs
    <2>2. TypeOK' /\ Waiting'
        BY <1>0, <2>1 DEF TypeOK, Waiting, Passes
    <2>3. BookkeepingExact' /\ MovesAt' /\ KeptAt' /\ SpreadAt'
        BY <1>0, <2>1 DEF BookkeepingExact, MovesAt, Settled, KeptAt, SpreadAt
    <2> QED BY <2>2, <2>3 DEF IInv
<1>2. CASE UNCHANGED vars
    BY <1>0, <1>2
    DEF IInv, TypeOK, BookkeepingExact, Waiting, MovesAt, Settled, KeptAt, SpreadAt, vars
<1> QED BY <1>1, <1>2, KeepStep, PlaceStep, MoveStep, StopStep DEF Next

-----------------------------------------------------------------------------
(* The theorems.                                                           *)

\* The invariant holds throughout a run of the function.
THEOREM Invariance == Spec => []IInv
BY Initially, Inductive, PTL DEF Spec

\* `load` and `held` never drift from the result (vip_logic.rs:142-203).
THEOREM BookkeepingStaysExact == Spec => []BookkeepingExact
<1>1. IInv => BookkeepingExact
    BY DEF IInv
<1> QED BY <1>1, Invariance, PTL

\* Whatever the sets of nodes and VIPs, the result is a placement and what
\* already is one stays as it is: what KafStore assumes of its policy
\* (vip_logic.rs:89-102).
THEOREM LoopComputesAPlacement == Spec => []ResultIsPlacement
<1>1. IInv => ResultIsPlacement
    <2> SUFFICES ASSUME IInv, pass = "done"
                 PROVE  /\ IsPlacement(eligible, receivers, current, out)
                        /\ IsPlacement(eligible, receivers, current, current) => out = current
        BY DEF ResultIsPlacement
    <2>0. TypeOK /\ BookkeepingExact /\ Waiting /\ MovesAt /\ KeptAt /\ SpreadAt
        BY DEF IInv
    <2>1. \A v \in Vips : eligible # {} => out[v] # NoNode
        BY <2>0 DEF Waiting
    <2>2. ASSUME NEW d \in eligible, NEW r \in receivers
          PROVE  Cardinality({v \in Vips : out[v] = d}) <= Cardinality({v \in Vips : out[v] = r}) + 1
        <3>1. d \in Nodes /\ r \in Nodes /\ load[d] <= load[r] + 1
            BY <2>0 DEF TypeOK, SpreadAt
        <3>2. \A n \in Nodes : load[n] = Cardinality({v \in Vips : out[v] = n})
            BY <2>0, Zenon DEF BookkeepingExact, VipsOf
        <3> QED BY <3>1, <3>2, Zenon
    <2>3. IsPlacement(eligible, receivers, current, out)
        BY <2>0, <2>1, <2>2 DEF IsPlacement, TypeOK, MovesAt
    <2>4. ASSUME IsPlacement(eligible, receivers, current, current) PROVE out = current
        <3>1. CASE eligible # {}
            BY <2>0, <2>4, <3>1, PlacementIsKept DEF Waiting
        <3>2. CASE eligible = {}
            <4>1. \A v \in Vips : out[v] = NoNode /\ current[v] = NoNode
                BY <2>0, <2>4, <3>2 DEF IsPlacement, TypeOK
            <4> QED BY <2>0, <4>1 DEF TypeOK
        <3> QED BY <3>1, <3>2
    <2> QED BY <2>3, <2>4
<1> QED BY <1>1, Invariance, PTL

\* Whatever the sets of nodes and VIPs and whichever nodes may receive, a VIP
\* is taken from an eligible holder at most once (vip_logic.rs:176-202).
THEOREM NoVipIsMovedTwice == Spec => NoVipMovesTwice
<1>1. IInv /\ [Next]_vars =>
          [\A v \in Vips : (current[v] \in eligible /\ out[v] # NoNode /\ out'[v] # out[v])
                              => out[v] = current[v]]_vars
    <2> SUFFICES ASSUME IInv, Next, NEW v \in Vips, current[v] \in eligible,
                        out[v] # NoNode, out'[v] # out[v]
                 PROVE  out[v] = current[v]
        BY Zenon
    <2>0. TypeOK /\ BookkeepingExact /\ Waiting /\ MovesAt
        BY DEF IInv
    <2>1. CASE Keep
        <3>1. Lowest(todo) \in todo /\ Lowest(todo) \in Vips
            BY <2>0, <2>1, LowestVip DEF Keep, TypeOK
        <3>2. out[Lowest(todo)] = NoNode
            BY <2>0, <2>1, <3>1 DEF Keep, Waiting
        <3> QED BY <2>0, <2>1, <3>1, <3>2 DEF Keep, Put, TypeOK
    <2>2. CASE Place
        <3>1. Lowest(orphans) \in orphans /\ Lowest(orphans) \in Vips
            BY <2>0, <2>2, LowestVip DEF Place, TypeOK
        <3>2. out[Lowest(orphans)] = NoNode
            BY <2>0, <2>2, <3>1 DEF Place, Waiting
        <3> QED BY <2>0, <2>2, <3>1, <3>2 DEF Place, Put, TypeOK
    <2>3. CASE Move
        <3>1. eligible # {} /\ Imbalanced
            BY <2>0, <2>3 DEF Move, Waiting
        <3>2. /\ least_loaded_node(receivers) \in receivers
              /\ load[most_loaded_node(eligible)] > load[least_loaded_node(receivers)] + 1
              /\ out[Highest(held[most_loaded_node(eligible)])] = most_loaded_node(eligible)
            BY <2>0, <3>1, Donor
        <3>3. v = Highest(held[most_loaded_node(eligible)])
            BY <2>0, <2>3 DEF Move, TypeOK
        <3>4. ~Settled(out[v])
            <4>1. /\ load[most_loaded_node(eligible)] \in Nat
                  /\ load[least_loaded_node(receivers)] \in Nat
                BY <2>0, <3>1, Donor DEF TypeOK
            <4> QED BY <3>2, <3>3, <4>1 DEF Settled
        <3> QED BY <2>0, <3>4 DEF MovesAt
    <2>4. CASE KeepDone \/ PlaceDone \/ Stop
        BY <2>4 DEF KeepDone, PlaceDone, Stop
    <2> QED BY <2>1, <2>2, <2>3, <2>4 DEF Next
<1> QED BY <1>1, Invariance, PTL DEF Spec, NoVipMovesTwice

=============================================================================
