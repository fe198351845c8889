--------------------------- MODULE KafStore_proofs ---------------------------
(***************************************************************************)
(* Proofs about the replicated state machine, for every set of nodes, VIPs *)
(* and boots, every configuration and every placement PlaceAssumption      *)
(* admits.                                                                 *)
(*                                                                         *)
(* Every entry of the log does one of three things to the state: it leaves *)
(* fencing and the inputs of eligibility alone (Quiet), it acknowledges a  *)
(* release, or it prepares a state (Prepared) and recomputes it.  So the   *)
(* invariant is proved once for Quiet and once for Recompute, which        *)
(* establishes it, fences every holder change and forgets nobody who       *)
(* failed, and each entry is shown to have one of these shapes.            *)
(***************************************************************************)
EXTENDS StoreAudit, TLAPS


-----------------------------------------------------------------------------
(* The inductive invariant, as predicates of a stored state.               *)

FrontierAt(t) ==
    \A n \in Nodes : /\ t.node_probe_ticks[n] <= t.latest_probe_tick
                     /\ t.node_recovery_tick[n] <= t.latest_probe_tick

FenceAt(t, v) ==
    LET a == t.vip_assignments[v] IN
    /\ t.vip_generation[v] = 0 <=> t.vip_last_holder[v] = NoNode
    /\ a.holder = NoNode => a = NoAssignment
    /\ a.holder # NoNode =>
           /\ a.generation = t.vip_generation[v]
           /\ a.holder = t.vip_last_holder[v]
           /\ a.generation = 1 <=> a.previous_holder = NoNode
           /\ ~a.previous_holder_released => a.previous_holder # NoNode
           /\ a.activation_tick <= t.latest_probe_tick + 1

FencesAt(t) == \A v \in Vips : FenceAt(t, v)

\* What V2 and failback have made of the legacy failback record.
BlockedAt(t) ==
    (t.failover_semantics = "V2" \/ Failback) => t.node_failback_blocked = {}

NeverTick == [n \in Nodes |-> NoTick]

\* The failback fields hold what update_v2_failback_tracking leaves.
TrackedAt(t) ==
    t.failover_semantics = "V2" =>
        /\ Failback => t.node_nopreempt = {}
        /\ ~Failback => t.node_recovery_pending = {} /\ t.node_recovery_tick = NeverTick
        /\ \A n \in t.node_recovery_pending :
               IF Serviceable(t, n)
               THEN /\ t.node_recovery_tick[n] # NoTick
                    /\ SaturatingSub(t.latest_probe_tick, t.node_recovery_tick[n])
                           < FailbackDelay
               ELSE t.node_recovery_tick[n] = NoTick

\* The holders are what the placement makes of them.
PlacedAt(t) ==
    Place(EligibleNodes(t), RebalanceReceivers(t), CurrentHolders(t)) = CurrentHolders(t)

StoreInv(t) ==
    /\ t \in Stores
    /\ FrontierAt(t)
    /\ FencesAt(t)
    /\ BlockedAt(t)
    /\ TrackedAt(t)
    /\ PlacedAt(t)

FenceStepAt(t, u, v) ==
    LET a == t.vip_assignments[v]
        b == u.vip_assignments[v]
        fresh == b.holder # NoNode /\ b.generation # a.generation
    IN /\ u.vip_generation[v] >= t.vip_generation[v]
       /\ (b.holder # NoNode /\ b.holder # t.vip_last_holder[v]) => fresh
       /\ fresh =>
            /\ b.generation = t.vip_generation[v] + 1
            /\ b.previous_holder = t.vip_last_holder[v]
            /\ b.previous_holder_released <=> t.vip_last_holder[v] = NoNode
            /\ t.vip_last_holder[v] # NoNode => b.activation_tick > u.latest_probe_tick

-----------------------------------------------------------------------------
(* What a step leaves alone.                                               *)

SameFences(t, u) ==
    /\ u.vip_assignments = t.vip_assignments
    /\ u.vip_generation = t.vip_generation
    /\ u.vip_last_holder = t.vip_last_holder

SameHealth(t, u) ==
    /\ u.membership = t.membership
    /\ u.node_health = t.node_health
    /\ u.node_probe_ticks = t.node_probe_ticks
    /\ u.latest_probe_tick = t.latest_probe_tick
    /\ u.node_failback_blocked = t.node_failback_blocked
    /\ u.failover_semantics = t.failover_semantics

SameTracking(t, u) ==
    /\ u.node_recovery_tick = t.node_recovery_tick
    /\ u.node_recovery_pending = t.node_recovery_pending
    /\ u.node_nopreempt = t.node_nopreempt

\* The fields no recomputation reads or writes.
SameAdmission(t, u) ==
    /\ u.genesis = t.genesis
    /\ u.cluster_epoch = t.cluster_epoch
    /\ u.config_identity_enforced = t.config_identity_enforced
    /\ u.applied_progress = t.applied_progress
    /\ u.prepared_join = t.prepared_join
    /\ u.completed_joins = t.completed_joins
    /\ u.joins = t.joins

Quiet(t, u) == u \in Stores /\ SameFences(t, u) /\ SameHealth(t, u) /\ SameTracking(t, u)

Prepared(t, u) ==
    /\ u \in Stores
    /\ SameFences(t, u)
    /\ FrontierAt(u)
    /\ BlockedAt(u)
    /\ t.latest_probe_tick <= u.latest_probe_tick

-----------------------------------------------------------------------------
(* Failback history: whom the state remembers as failed.                   *)

Owner(t, n) == \E v \in Vips : t.vip_assignments[v].holder = n

\* Whom a state without failback keeps from preempting.
Marked(t) ==
    IF t.failover_semantics = "V2" THEN t.node_nopreempt ELSE t.node_failback_blocked

\* A node is reported down under the legacy semantics.
Fell(t, u, n) ==
    /\ t.failover_semantics = "Legacy"
    /\ t.node_health[n] = "up" /\ u.node_health[n] = "down"

\* A state prepared for recomputation has forgotten nobody.
Recalls(t, p) ==
    /\ t.failover_semantics = "V2" => p.failover_semantics = "V2"
    /\ ~Failback => /\ Marked(t) \subseteq Marked(p)
                    /\ \A n \in Nodes : Fell(t, p, n) => n \in Marked(p)
    /\ (Failback /\ t.failover_semantics = "V2") =>
           /\ t.node_recovery_pending \subseteq p.node_recovery_pending
           /\ \A n \in Nodes : Serviceable(p, n) =>
                  p.node_recovery_tick[n] = t.node_recovery_tick[n]

\* The probe round from which the recovery delay of a pending node counts.
Since(t, w, n) ==
    IF t.node_recovery_tick[n] = NoTick THEN w.latest_probe_tick ELSE t.node_recovery_tick[n]

\* Without failback who failed stays marked.
Marks(t, w) ==
    /\ Marked(t) \subseteq Marked(w)
    /\ \A n \in Nodes : Fell(t, w, n) => n \in Marked(w)
    /\ w.failover_semantics = "V2" =>
           \A n \in Nodes : Owner(t, n) /\ ~Serviceable(w, n) => n \in Marked(w)

\* With failback who failed as an owner waits out the delay.
Delays(t, w) ==
    w.failover_semantics = "V2" =>
        \A n \in Nodes :
            /\ Owner(t, n) /\ ~Serviceable(w, n) => n \in w.node_recovery_pending
            /\ (t.failover_semantics = "V2" /\ n \in t.node_recovery_pending) =>
                   \/ ~Serviceable(w, n) /\ n \in w.node_recovery_pending
                   \/ /\ Serviceable(w, n) /\ n \in w.node_recovery_pending
                      /\ w.node_recovery_tick[n] = Since(t, w, n)
                   \/ /\ Serviceable(w, n)
                      /\ SaturatingSub(w.latest_probe_tick, Since(t, w, n)) >= FailbackDelay

\* Only a receiver is given a VIP of an eligible holder.
Preempts(t, w) ==
    \A v \in Vips :
        LET old == t.vip_assignments[v].holder
            new == w.vip_assignments[v].holder
        IN (new # old /\ old \in EligibleNodes(w)) => new \in RebalanceReceivers(w)

Remembers(t, w) ==
    /\ t.latest_probe_tick <= w.latest_probe_tick
    /\ t.failover_semantics = "V2" => w.failover_semantics = "V2"
    /\ ~Failback => Marks(t, w)
    /\ Failback => Delays(t, w)
    /\ Preempts(t, w)

LEMMA SameEligible ==
    ASSUME NEW t \in Stores, NEW u \in Stores, SameHealth(t, u),
           u.node_recovery_tick = t.node_recovery_tick
    PROVE  EligibleNodes(u) = EligibleNodes(t)
  BY Zenon DEF SameHealth, EligibleNodes, IsMember, IsNodeEligible, IsNodeBaseEligible,
         IsNodeProbeFresh

LEMMA SameServiceable ==
    ASSUME NEW t \in Stores, NEW u \in Stores, SameHealth(t, u), NEW n \in Nodes
    PROVE  Serviceable(u, n) <=> Serviceable(t, n)
  BY Zenon DEF SameHealth, Serviceable, IsMember, IsNodeBaseEligible, IsNodeProbeFresh

LEMMA EligibleIsServiceable ==
    ASSUME NEW t \in Stores, NEW n \in EligibleNodes(t)
    PROVE  Serviceable(t, n) /\ n \in Nodes
  BY Zenon DEF EligibleNodes, Serviceable, IsNodeEligible

LEMMA ReceiversAreEligible ==
    ASSUME NEW t \in Stores
    PROVE  /\ EligibleNodes(t) \in SUBSET Nodes
           /\ RebalanceReceivers(t) \in SUBSET EligibleNodes(t)
           /\ CurrentHolders(t) \in [Vips -> Nodes \cup {NoNode}]
  BY Zenon DEF EligibleNodes, RebalanceReceivers, CurrentHolders, Stores, Assignments

-----------------------------------------------------------------------------
(* Recomputation: update_v2_failback_tracking, then the placement and      *)
(* reconcile_vip_assignments.                                              *)

SetTracking(t, a, b, c) ==
    [t EXCEPT !.node_nopreempt = a, !.node_recovery_pending = b, !.node_recovery_tick = c]

LEMMA WithTracking ==
    ASSUME NEW t \in Stores, NEW a \in SUBSET Nodes, NEW b \in SUBSET Nodes,
           NEW c \in [Nodes -> Ticks],
           NEW u, u = SetTracking(t, a, b, c)
    PROVE  /\ u \in Stores
           /\ u.node_nopreempt = a
           /\ u.node_recovery_pending = b
           /\ u.node_recovery_tick = c
           /\ SameFences(t, u) /\ SameHealth(t, u) /\ SameAdmission(t, u)
  BY Zenon DEF Stores, SetTracking, SameFences, SameHealth, SameAdmission

SetFences(t, a, b, c) ==
    [t EXCEPT !.vip_assignments = a, !.vip_generation = b, !.vip_last_holder = c]

LEMMA WithFences ==
    ASSUME NEW t \in Stores, NEW a \in [Vips -> Assignments], NEW b \in [Vips -> Nat],
           NEW c \in [Vips -> Nodes \cup {NoNode}],
           NEW u, u = SetFences(t, a, b, c)
    PROVE  /\ u \in Stores
           /\ u.vip_assignments = a
           /\ u.vip_generation = b
           /\ u.vip_last_holder = c
           /\ SameHealth(t, u) /\ SameTracking(t, u) /\ SameAdmission(t, u)
  BY ZenonT(40) DEF Stores, SetFences, SameTracking, SameHealth, SameAdmission

LEMMA RecoveryTickType ==
    ASSUME NEW t \in Stores, NEW p \in SUBSET Nodes, NEW n \in Nodes
    PROVE  /\ RecoveryTick(t, p, n) \in Ticks
           /\ FrontierAt(t) => RecoveryTick(t, p, n) <= t.latest_probe_tick
           /\ n \in p => (RecoveryTick(t, p, n) = NoTick <=> ~Serviceable(t, n))
  <1>1. t.latest_probe_tick \in Nat /\ t.node_recovery_tick[n] \in Ticks
    BY Zenon DEF Stores
  <1>. QED BY <1>1 DEF RecoveryTick, Ticks, NoTick, FrontierAt

\* Whom update_v2_failback_tracking remembers, and who has waited enough.
Tracks(t, u) ==
    LET pending == t.node_recovery_pending \cup FailedOwners(t)
    IN /\ ~Failback => u.node_nopreempt = t.node_nopreempt \cup FailedOwners(t)
       /\ Failback => \A n \in pending :
              \/ /\ n \in u.node_recovery_pending
                 /\ u.node_recovery_tick[n] = RecoveryTick(t, pending, n)
              \/ /\ Serviceable(t, n)
                 /\ SaturatingSub(t.latest_probe_tick, RecoveryTick(t, pending, n))
                        >= FailbackDelay

LEMMA TrackingKeeps ==
    ASSUME NEW t \in Stores,
           NEW u, u = UpdateV2FailbackTracking(t)
    PROVE  /\ u \in Stores
           /\ Tracks(t, u)
           /\ SameFences(t, u) /\ SameHealth(t, u) /\ SameAdmission(t, u)
           /\ FrontierAt(t) => FrontierAt(u)
           /\ TrackedAt(u)
  <1> DEFINE failed == FailedOwners(t)
             pending == t.node_recovery_pending \cup failed
             tick == [n \in Nodes |-> RecoveryTick(t, pending, n)]
             completed == {n \in pending :
                        /\ Serviceable(t, n)
                        /\ SaturatingSub(t.latest_probe_tick, tick[n]) >= FailbackDelay}
             left == [n \in Nodes |-> IF n \in completed THEN NoTick ELSE tick[n]]
  <1>0. /\ failed \in SUBSET Nodes
        /\ t.node_recovery_pending \in SUBSET Nodes
        /\ t.node_nopreempt \in SUBSET Nodes
        /\ t.latest_probe_tick \in Nat
    BY Zenon DEF Stores, FailedOwners
  <1>1. pending \in SUBSET Nodes
    BY <1>0, Zenon
  <1>2. \A n \in Nodes :
            /\ RecoveryTick(t, pending, n) \in Ticks
            /\ FrontierAt(t) => RecoveryTick(t, pending, n) <= t.latest_probe_tick
            /\ n \in pending => (RecoveryTick(t, pending, n) = NoTick <=> ~Serviceable(t, n))
    BY <1>1, RecoveryTickType, Zenon
  <1>3. /\ left \in [Nodes -> Ticks] /\ NeverTick \in [Nodes -> Ticks]
        /\ \A n \in Nodes : /\ FrontierAt(t) => left[n] <= t.latest_probe_tick
                            /\ NeverTick[n] <= t.latest_probe_tick
    BY <1>0, <1>2 DEF Ticks, NoTick, NeverTick
  <1>4. \A n \in pending \ completed :
            IF Serviceable(t, n)
            THEN left[n] # NoTick /\ SaturatingSub(t.latest_probe_tick, left[n]) < FailbackDelay
            ELSE left[n] = NoTick
    <2> SUFFICES ASSUME NEW n \in pending \ completed
                 PROVE  IF Serviceable(t, n)
                        THEN /\ left[n] # NoTick
                             /\ SaturatingSub(t.latest_probe_tick, left[n]) < FailbackDelay
                        ELSE left[n] = NoTick
      BY Zenon
    <2>0. n \in Nodes /\ n \in pending
      BY <1>1, Zenon
    <2>1. left[n] = tick[n] /\ tick[n] = RecoveryTick(t, pending, n)
      <3> HIDE DEF completed
      <3>. QED BY <2>0, Zenon
    <2>3. Serviceable(t, n) => ~(SaturatingSub(t.latest_probe_tick, tick[n]) >= FailbackDelay)
      <3> HIDE DEF tick, pending
      <3>. QED BY <2>0, Zenon
    <2> HIDE DEF left, tick, completed, pending
    <2>2. SaturatingSub(t.latest_probe_tick, left[n]) \in Int /\ FailbackDelay \in Nat
      BY <1>0, <1>3, <2>0, ConfigAssumption DEF SaturatingSub, Ticks, NoTick
    <2>. QED BY <1>2, <2>0, <2>1, <2>2, <2>3
  <1>5. \/ Failback /\ u = SetTracking(t, {}, pending \ completed, left)
        \/ ~Failback /\ u = SetTracking(t, t.node_nopreempt \cup failed, {}, NeverTick)
    BY Zenon DEF UpdateV2FailbackTracking, SetTracking, NeverTick
  <1>8. \A n \in pending :
            \/ n \in pending \ completed /\ left[n] = RecoveryTick(t, pending, n)
            \/ /\ Serviceable(t, n)
               /\ SaturatingSub(t.latest_probe_tick, RecoveryTick(t, pending, n)) >= FailbackDelay
    <2> SUFFICES ASSUME NEW n \in pending
                 PROVE  \/ n \in pending \ completed /\ left[n] = tick[n]
                        \/ /\ Serviceable(t, n)
                           /\ SaturatingSub(t.latest_probe_tick, tick[n]) >= FailbackDelay
      BY <1>1, Zenon
    <2>1. n \in Nodes
      BY <1>1, Zenon
    <2> HIDE DEF tick, pending
    <2>2. n \in completed <=> /\ Serviceable(t, n)
                             /\ SaturatingSub(t.latest_probe_tick, tick[n]) >= FailbackDelay
      BY Zenon
    <2> HIDE DEF completed
    <2>. QED BY <2>1, <2>2, Zenon
  <1> HIDE DEF left
  <1>6. CASE Failback /\ u = SetTracking(t, {}, pending \ completed, left)
    <2>1. {} \in SUBSET Nodes /\ pending \ completed \in SUBSET Nodes
      BY <1>1, Zenon
    <2> HIDE DEF pending, completed
    <2>2. /\ u \in Stores
          /\ u.node_nopreempt = {}
          /\ u.node_recovery_pending = pending \ completed
          /\ u.node_recovery_tick = left
          /\ SameFences(t, u) /\ SameHealth(t, u) /\ SameAdmission(t, u)
      BY <1>3, <1>6, <2>1, WithTracking
    <2>3. \A n \in Nodes : Serviceable(u, n) <=> Serviceable(t, n)
      BY <2>2, SameServiceable, Zenon
    <2>4. TrackedAt(u)
      BY <1>4, <1>6, <2>1, <2>2, <2>3, Zenon DEF TrackedAt, SameHealth
    <2>5. Tracks(t, u)
      BY <1>6, <1>8, <2>2, Zenon DEF Tracks, pending
    <2>. QED BY <1>3, <2>2, <2>4, <2>5, Zenon DEF FrontierAt, SameHealth
  <1>7. CASE ~Failback /\ u = SetTracking(t, t.node_nopreempt \cup failed, {}, NeverTick)
    <2>1. {} \in SUBSET Nodes /\ t.node_nopreempt \cup failed \in SUBSET Nodes
      BY <1>0, Zenon
    <2> HIDE DEF failed
    <2>2. /\ u \in Stores
          /\ u.node_nopreempt = t.node_nopreempt \cup failed
          /\ u.node_recovery_pending = {}
          /\ u.node_recovery_tick = NeverTick
          /\ SameFences(t, u) /\ SameHealth(t, u) /\ SameAdmission(t, u)
      BY <1>3, <1>7, <2>1, WithTracking
    <2>3. FrontierAt(t) => FrontierAt(u)
      BY <1>3, <2>2, Zenon DEF FrontierAt, SameHealth
    <2>4. TrackedAt(u)
      BY <1>7, <2>2, Zenon DEF TrackedAt
    <2>5. Tracks(t, u)
      BY <1>7, <2>2, Zenon DEF Tracks, failed
    <2>. QED BY <2>2, <2>3, <2>4, <2>5, Zenon
  <1>. QED BY <1>5, <1>6, <1>7, Zenon

LEMMA FencedType ==
    ASSUME NEW t \in Stores, NEW v \in Vips, NEW h \in Nodes
    PROVE  /\ FencedAssignment(t, v, h) \in Assignments
           /\ NextGeneration(t, v) \in Nat
           /\ Predecessor(t, v) \in Nodes \cup {NoNode}
           /\ ActivationTick(t, v) \in Nat
  <1>1. /\ t.latest_probe_tick \in Nat /\ t.vip_generation[v] \in Nat
        /\ t.vip_last_holder[v] \in Nodes \cup {NoNode}
        /\ t.vip_assignments[v] \in Assignments
    BY Zenon DEF Stores
  <1>2. /\ NextGeneration(t, v) \in Nat
        /\ Predecessor(t, v) \in Nodes \cup {NoNode}
        /\ ActivationTick(t, v) \in Nat
    BY <1>1 DEF NextGeneration, Predecessor, ActivationTick, Assignments
  <1>3. (Predecessor(t, v) = NoNode) \in BOOLEAN
    BY Zenon
  <1>. QED BY <1>2, <1>3, Zenon DEF FencedAssignment, Assignments

LEMMA ReconcileKeeps ==
    ASSUME NEW t \in Stores, FencesAt(t),
           NEW next \in [Vips -> Nodes \cup {NoNode}],
           NEW u, u = ReconcileVipAssignments(t, next)
    PROVE  /\ u \in Stores
           /\ SameHealth(t, u) /\ SameTracking(t, u) /\ SameAdmission(t, u)
           /\ \A v \in Vips : /\ FenceAt(u, v)
                              /\ FenceStepAt(t, u, v)
                              /\ u.vip_assignments[v].holder = next[v]
  <1> DEFINE kept(v) == next[v] = t.vip_assignments[v].holder
             assignment(v) == IF kept(v) THEN t.vip_assignments[v]
                              ELSE IF next[v] = NoNode THEN NoAssignment
                              ELSE FencedAssignment(t, v, next[v])
             a == [v \in Vips |-> assignment(v)]
             b == [v \in Vips |-> IF kept(v) \/ next[v] = NoNode
                                  THEN t.vip_generation[v]
                                  ELSE NextGeneration(t, v)]
             c == [v \in Vips |-> IF next[v] # NoNode THEN next[v] ELSE Predecessor(t, v)]
  <1>1. \A v \in Vips : /\ t.vip_assignments[v] \in Assignments
                        /\ t.vip_generation[v] \in Nat
                        /\ t.vip_last_holder[v] \in Nodes \cup {NoNode}
                        /\ t.latest_probe_tick \in Nat
    BY Zenon DEF Stores
  <1>2. NoAssignment \in Assignments
    BY Zenon DEF NoAssignment, Assignments
  <1>3. \A v \in Vips : /\ NextGeneration(t, v) \in Nat
                        /\ Predecessor(t, v) \in Nodes \cup {NoNode}
    BY <1>1 DEF NextGeneration, Predecessor, Assignments
  <1>4. \A v \in Vips : next[v] # NoNode => FencedAssignment(t, v, next[v]) \in Assignments
    BY FencedType, Zenon
  <1>5. /\ a \in [Vips -> Assignments]
        /\ b \in [Vips -> Nat]
        /\ c \in [Vips -> Nodes \cup {NoNode}]
    BY <1>1, <1>2, <1>3, <1>4, Zenon
  <1>6. u = SetFences(t, a, b, c)
    BY Zenon DEF ReconcileVipAssignments, SetFences
  <1> HIDE DEF a, b, c
  <1>7. /\ u \in Stores
        /\ SameHealth(t, u) /\ SameTracking(t, u) /\ SameAdmission(t, u)
        /\ u.vip_assignments = a
        /\ u.vip_generation = b
        /\ u.vip_last_holder = c
    BY <1>5, <1>6, WithFences
  <1>8. ASSUME NEW v \in Vips
        PROVE  /\ FenceAt(u, v)
               /\ FenceStepAt(t, u, v)
               /\ u.vip_assignments[v].holder = next[v]
    <2>1. /\ u.vip_assignments[v] = assignment(v)
          /\ u.vip_generation[v] = IF kept(v) \/ next[v] = NoNode
                                   THEN t.vip_generation[v] ELSE t.vip_generation[v] + 1
          /\ u.vip_last_holder[v] = IF next[v] # NoNode THEN next[v] ELSE Predecessor(t, v)
          /\ u.latest_probe_tick = t.latest_probe_tick
      BY <1>7 DEF a, b, c, SameHealth, NextGeneration
    <2>2. FenceAt(t, v)
      BY Zenon DEF FencesAt
    <2>3. CASE kept(v)
      <3>1. /\ u.vip_assignments[v] = t.vip_assignments[v]
            /\ u.vip_generation[v] = t.vip_generation[v]
            /\ u.vip_last_holder[v] = t.vip_last_holder[v]
            /\ t.vip_assignments[v].holder # NoNode =>
                   t.vip_assignments[v].holder = t.vip_last_holder[v]
        BY <2>1, <2>2, <2>3, Zenon DEF FenceAt, Predecessor
      <3>2. FenceAt(u, v)
        BY <2>1, <2>2, <3>1, Zenon DEF FenceAt
      <3>3. FenceStepAt(t, u, v)
        BY <1>1, <3>1 DEF FenceStepAt
      <3>. QED BY <2>1, <2>3, <3>2, <3>3, Zenon
    <2>4. CASE ~kept(v) /\ next[v] = NoNode
      <3>1. /\ u.vip_assignments[v] = NoAssignment
            /\ u.vip_generation[v] = t.vip_generation[v]
            /\ u.vip_last_holder[v] = t.vip_last_holder[v]
            /\ NoAssignment.holder = NoNode
        BY <2>1, <2>2, <2>4, Zenon DEF FenceAt, Predecessor, NoAssignment
      <3>2. FenceAt(u, v)
        BY <2>2, <3>1, Zenon DEF FenceAt
      <3>3. FenceStepAt(t, u, v)
        BY <1>1, <3>1 DEF FenceStepAt
      <3>. QED BY <2>4, <3>1, <3>2, <3>3, Zenon
    <2>5. CASE ~kept(v) /\ next[v] # NoNode
      <3> DEFINE x == FencedAssignment(t, v, next[v])
      <3>1. /\ x.holder = next[v]
            /\ x.generation = t.vip_generation[v] + 1
            /\ x.previous_holder = Predecessor(t, v)
            /\ x.previous_holder_released = (Predecessor(t, v) = NoNode)
            /\ x.activation_tick = ActivationTick(t, v)
        BY Zenon DEF FencedAssignment, NextGeneration
      <3>2. u.vip_assignments[v] = x
        BY <2>1, <2>5, Zenon
      <3>3. Predecessor(t, v) = t.vip_last_holder[v]
        BY <2>2, Zenon DEF Predecessor, FenceAt
      <3>4. t.vip_assignments[v].generation # t.vip_generation[v] + 1
        BY <1>1, <2>2 DEF FenceAt, NoAssignment
      <3>5. /\ ActivationTick(t, v) <= t.latest_probe_tick + 1
            /\ t.vip_generation[v] # 0 => ActivationTick(t, v) = t.latest_probe_tick + 1
        BY <1>1 DEF ActivationTick
      <3> HIDE DEF x
      <3>6. /\ u.vip_generation[v] = t.vip_generation[v] + 1
            /\ u.vip_last_holder[v] = next[v]
            /\ t.vip_generation[v] = 0 <=> t.vip_last_holder[v] = NoNode
        BY <2>1, <2>2, <2>5, Zenon DEF FenceAt
      <3>7. /\ x.previous_holder_released <=> t.vip_last_holder[v] = NoNode
            /\ ~x.previous_holder_released => x.previous_holder # NoNode
        BY <3>1, <3>3, Zenon
      <3>8. /\ x.holder # NoNode
            /\ u.vip_generation[v] # 0 /\ u.vip_last_holder[v] # NoNode
            /\ x.generation = u.vip_generation[v]
            /\ x.holder = u.vip_last_holder[v]
            /\ x.generation = 1 <=> x.previous_holder = NoNode
            /\ x.activation_tick <= u.latest_probe_tick + 1
        BY <1>1, <2>1, <2>5, <3>1, <3>3, <3>5, <3>6
      <3>9. FenceAt(u, v)
        BY <3>2, <3>7, <3>8, Zenon DEF FenceAt
      <3>10. /\ u.vip_generation[v] >= t.vip_generation[v]
             /\ x.generation # t.vip_assignments[v].generation
             /\ x.generation = t.vip_generation[v] + 1
             /\ x.previous_holder = t.vip_last_holder[v]
             /\ t.vip_last_holder[v] # NoNode => x.activation_tick > u.latest_probe_tick
        BY <1>1, <2>1, <3>1, <3>3, <3>4, <3>5, <3>6
      <3>11. FenceStepAt(t, u, v)
        BY <3>2, <3>7, <3>8, <3>10, Zenon DEF FenceStepAt
      <3>. QED BY <3>1, <3>2, <3>9, <3>11, Zenon
    <2>. QED BY <2>3, <2>4, <2>5, Zenon
  <1>. QED BY <1>7, <1>8, Zenon

\* The store only loses what the placement takes away.
LEMMA TrackedIsKept ==
    ASSUME NEW t \in Stores, NEW u \in Stores, SameHealth(t, u), SameTracking(t, u)
    PROVE  /\ FrontierAt(t) => FrontierAt(u)
           /\ BlockedAt(t) => BlockedAt(u)
           /\ TrackedAt(t) => TrackedAt(u)
           /\ EligibleNodes(u) = EligibleNodes(t)
           /\ RebalanceReceivers(u) = RebalanceReceivers(t)
  <1>1. EligibleNodes(u) = EligibleNodes(t)
    BY SameEligible, Zenon DEF SameTracking
  <1>2. \A n \in Nodes : Serviceable(u, n) <=> Serviceable(t, n)
    BY SameServiceable, Zenon
  <1>3. t.node_recovery_pending \in SUBSET Nodes
    BY Zenon DEF Stores
  <1>4. TrackedAt(t) => TrackedAt(u)
    BY <1>2, <1>3, Zenon DEF TrackedAt, SameHealth, SameTracking
  <1>. QED BY <1>1, <1>4, Zenon DEF FrontierAt, BlockedAt, RebalanceReceivers, SameHealth, SameTracking

LEMMA PlaceIsPlacement ==
    ASSUME NEW t \in Stores,
           NEW next, next = Place(EligibleNodes(t), RebalanceReceivers(t), CurrentHolders(t))
    PROVE  /\ IsPlacement(EligibleNodes(t), RebalanceReceivers(t), CurrentHolders(t), next)
           /\ Place(EligibleNodes(t), RebalanceReceivers(t), next) = next
  BY PlaceAssumption, ReceiversAreEligible, Zenon

LEMMA PlaceIsHolders ==
    ASSUME NEW t \in Stores,
           NEW next, next = Place(EligibleNodes(t), RebalanceReceivers(t), CurrentHolders(t))
    PROVE  /\ next \in [Vips -> EligibleNodes(t) \cup {NoNode}]
           /\ next \in [Vips -> Nodes \cup {NoNode}]
           /\ Place(EligibleNodes(t), RebalanceReceivers(t), next) = next
  <1>1. next \in [Vips -> EligibleNodes(t) \cup {NoNode}]
    BY PlaceIsPlacement, Zenon DEF IsPlacement
  <1>. QED BY <1>1, PlaceIsPlacement, ReceiversAreEligible, Zenon

LEMMA FencesAreKept ==
    ASSUME NEW t \in Stores, StoreInv(t), NEW p, Prepared(t, p),
           NEW u \in Stores, SameFences(p, u), SameHealth(p, u)
    PROVE  FencesAt(u)
  <1> SUFFICES ASSUME NEW v \in Vips PROVE FenceAt(u, v)
    BY Zenon DEF FencesAt
  <1>1. /\ u.vip_assignments[v] = t.vip_assignments[v]
        /\ u.vip_generation[v] = t.vip_generation[v]
        /\ u.vip_last_holder[v] = t.vip_last_holder[v]
        /\ t.latest_probe_tick <= u.latest_probe_tick
    BY Zenon DEF Prepared, SameFences, SameHealth
  <1>2. /\ t.latest_probe_tick \in Nat /\ u.latest_probe_tick \in Nat
        /\ t.vip_assignments[v].activation_tick \in Nat
    BY Zenon DEF Stores, Assignments
  <1>3. t.vip_assignments[v].activation_tick <= t.latest_probe_tick + 1 =>
            t.vip_assignments[v].activation_tick <= u.latest_probe_tick + 1
    BY <1>1, <1>2
  <1>4. FenceAt(t, v)
    BY DEF StoreInv, FencesAt
  <1>. QED BY <1>1, <1>3, <1>4, Zenon DEF FenceAt

\* A state prepared from one that satisfies the invariant satisfies it once
\* recomputed, and the step from the one to the other is fenced.
LEMMA RecomputeGives ==
    ASSUME NEW t \in Stores, StoreInv(t), NEW p, Prepared(t, p),
           NEW w, w = Recompute(p)
    PROVE  /\ StoreInv(w)
           /\ \A v \in Vips : FenceStepAt(t, w, v)
           /\ SameHealth(p, w)
           /\ SameAdmission(p, w)
  <1> DEFINE u == IF p.failover_semantics = "V2" THEN UpdateV2FailbackTracking(p) ELSE p
             next == Place(EligibleNodes(u), RebalanceReceivers(u), CurrentHolders(u))
  <1>1. /\ u \in Stores
        /\ SameFences(p, u) /\ SameHealth(p, u) /\ SameAdmission(p, u)
        /\ FrontierAt(u)
        /\ TrackedAt(u)
    <2>1. CASE p.failover_semantics = "V2"
      BY <2>1, TrackingKeeps, Zenon DEF Prepared
    <2>2. CASE p.failover_semantics # "V2"
      BY <2>2, Zenon DEF Prepared, SameFences, SameHealth, SameAdmission, TrackedAt
    <2>. QED BY <2>1, <2>2, Zenon
  <1>2. w = ReconcileVipAssignments(u, next)
    BY Zenon DEF Recompute
  <1> HIDE DEF u, next
  <1>3. BlockedAt(u)
    BY <1>1, Zenon DEF Prepared, BlockedAt, SameHealth
  <1>4. FencesAt(u)
    BY <1>1, FencesAreKept, Zenon
  <1>5. /\ next \in [Vips -> Nodes \cup {NoNode}]
        /\ Place(EligibleNodes(u), RebalanceReceivers(u), next) = next
    BY <1>1, PlaceIsHolders, Zenon DEF next
  <1>6. /\ w \in Stores
        /\ SameHealth(u, w) /\ SameTracking(u, w) /\ SameAdmission(u, w)
        /\ \A v \in Vips : /\ FenceAt(w, v)
                           /\ FenceStepAt(u, w, v)
                           /\ w.vip_assignments[v].holder = next[v]
    BY <1>1, <1>2, <1>4, <1>5, ReconcileKeeps
  <1>7. CurrentHolders(w) = next
    BY <1>5, <1>6, Zenon DEF CurrentHolders
  <1>8. /\ FrontierAt(w) /\ BlockedAt(w) /\ TrackedAt(w)
        /\ EligibleNodes(w) = EligibleNodes(u)
        /\ RebalanceReceivers(w) = RebalanceReceivers(u)
    BY <1>1, <1>3, <1>6, TrackedIsKept, Zenon
  <1>9. PlacedAt(w)
    BY <1>5, <1>7, <1>8, Zenon DEF PlacedAt
  <1>10. \A v \in Vips : FenceStepAt(t, w, v)
    <2> SUFFICES ASSUME NEW v \in Vips PROVE FenceStepAt(t, w, v)
      BY Zenon
    <2>1. /\ u.vip_assignments[v] = t.vip_assignments[v]
          /\ u.vip_generation[v] = t.vip_generation[v]
          /\ u.vip_last_holder[v] = t.vip_last_holder[v]
      BY <1>1, Zenon DEF Prepared, SameFences
    <2>2. FenceStepAt(u, w, v)
      BY <1>6
    <2>. QED BY <2>1, <2>2, Zenon DEF FenceStepAt
  <1>11. SameHealth(p, w) /\ SameAdmission(p, w)
    BY <1>1, <1>6, Zenon DEF SameHealth, SameAdmission
  <1>. QED BY <1>6, <1>8, <1>9, <1>10, <1>11, Zenon DEF StoreInv, FencesAt

\* A quiet step keeps the invariant.
LEMMA QuietGives ==
    ASSUME NEW t \in Stores, StoreInv(t), NEW u, Quiet(t, u)
    PROVE  StoreInv(u) /\ \A v \in Vips : FenceStepAt(t, u, v)
  <1>1. u \in Stores /\ SameFences(t, u) /\ SameHealth(t, u) /\ SameTracking(t, u)
    BY Zenon DEF Quiet
  <1>2. /\ FrontierAt(u) /\ BlockedAt(u) /\ TrackedAt(u)
        /\ EligibleNodes(u) = EligibleNodes(t)
        /\ RebalanceReceivers(u) = RebalanceReceivers(t)
    BY <1>1, TrackedIsKept, Zenon DEF StoreInv
  <1>3. PlacedAt(u)
    BY <1>1, <1>2, Zenon DEF StoreInv, PlacedAt, CurrentHolders, SameFences
  <1>4. ASSUME NEW v \in Vips PROVE FenceAt(u, v) /\ FenceStepAt(t, u, v)
    <2>1. FenceAt(t, v)
      BY Zenon DEF StoreInv, FencesAt
    <2>2. FenceAt(u, v)
      BY <1>1, <2>1, Zenon DEF FenceAt, SameFences, SameHealth
    <2>3. /\ t.vip_generation[v] \in Nat
          /\ u.vip_generation[v] >= t.vip_generation[v]
      BY <1>1 DEF Stores, SameFences
    <2>4. t.vip_assignments[v].holder # NoNode =>
              t.vip_assignments[v].holder = t.vip_last_holder[v]
      BY <2>1, Zenon DEF FenceAt
    <2>5. u.vip_assignments[v] = t.vip_assignments[v]
      BY <1>1, Zenon DEF SameFences
    <2>6. FenceStepAt(t, u, v)
      BY <2>3, <2>4, <2>5, Zenon DEF FenceStepAt
    <2>. QED BY <2>2, <2>6, Zenon
  <1>. QED BY <1>1, <1>2, <1>3, <1>4, Zenon DEF StoreInv, FencesAt

-----------------------------------------------------------------------------
(* What the invariant says of the placement, and recomputing again.        *)

LEMMA HoldersArePlaced ==
    ASSUME NEW t, StoreInv(t)
    PROVE  IsPlacement(EligibleNodes(t), RebalanceReceivers(t), CurrentHolders(t), CurrentHolders(t))
  BY PlaceIsPlacement, Zenon DEF StoreInv, PlacedAt

LEMMA HoldersAreEligibleAt ==
    ASSUME NEW t, StoreInv(t), NEW v \in Vips
    PROVE  /\ t.vip_assignments[v].holder \in EligibleNodes(t) \cup {NoNode}
           /\ EligibleNodes(t) # {} => t.vip_assignments[v].holder # NoNode
  BY HoldersArePlaced, Zenon DEF IsPlacement, CurrentHolders

LEMMA Alike ==
    ASSUME NEW t \in Stores, NEW u \in Stores,
           SameFences(t, u), SameHealth(t, u), SameTracking(t, u), SameAdmission(t, u)
    PROVE  u = t
  BY DEF Stores, SameFences, SameHealth, SameTracking, SameAdmission

LEMMA TrackingIsStable ==
    ASSUME NEW t \in Stores, TrackedAt(t), t.failover_semantics = "V2", FailedOwners(t) = {}
    PROVE  UpdateV2FailbackTracking(t) = t
  <1> DEFINE pending == t.node_recovery_pending \cup {}
             tick == [n \in Nodes |-> RecoveryTick(t, pending, n)]
             completed == {n \in pending :
                        /\ Serviceable(t, n)
                        /\ SaturatingSub(t.latest_probe_tick, tick[n]) >= FailbackDelay}
             left == [n \in Nodes |-> IF n \in completed THEN NoTick ELSE tick[n]]
             u == UpdateV2FailbackTracking(t)
  <1>1. /\ t.node_recovery_pending \in SUBSET Nodes /\ t.node_nopreempt \in SUBSET Nodes
        /\ t.node_recovery_tick \in [Nodes -> Ticks] /\ t.latest_probe_tick \in Nat
    BY Zenon DEF Stores
  <1>2. \A n \in Nodes : RecoveryTick(t, pending, n) = t.node_recovery_tick[n]
    <2> SUFFICES ASSUME NEW n \in Nodes
                 PROVE  RecoveryTick(t, pending, n) = t.node_recovery_tick[n]
      BY Zenon
    <2>1. CASE n \notin t.node_recovery_pending
      BY <2>1, Zenon DEF RecoveryTick
    <2>2. CASE n \in t.node_recovery_pending /\ Serviceable(t, n)
      <3>1. t.node_recovery_tick[n] # NoTick
        BY <2>2, Zenon DEF TrackedAt
      <3>. QED BY <2>2, <3>1, Zenon DEF RecoveryTick
    <2>3. CASE n \in t.node_recovery_pending /\ ~Serviceable(t, n)
      <3>1. t.node_recovery_tick[n] = NoTick
        BY <2>3, Zenon DEF TrackedAt
      <3>. QED BY <2>3, <3>1, Zenon DEF RecoveryTick
    <2>. QED BY <2>1, <2>2, <2>3, Zenon
  <1>3. completed = {}
    <2> SUFFICES ASSUME NEW n \in t.node_recovery_pending, Serviceable(t, n),
                        SaturatingSub(t.latest_probe_tick, tick[n]) >= FailbackDelay
                 PROVE  FALSE
      BY Zenon
    <2>1. n \in Nodes /\ tick[n] = t.node_recovery_tick[n]
      BY <1>1, <1>2, Zenon
    <2>2. SaturatingSub(t.latest_probe_tick, t.node_recovery_tick[n]) < FailbackDelay
      BY Zenon DEF TrackedAt
    <2>3. SaturatingSub(t.latest_probe_tick, t.node_recovery_tick[n]) \in Int /\ FailbackDelay \in Nat
      BY <1>1, <2>1, ConfigAssumption DEF SaturatingSub, Ticks, NoTick
    <2> HIDE DEF tick
    <2>. QED BY <2>1, <2>2, <2>3
  <1>4. left = t.node_recovery_tick
    <2>1. \A n \in Nodes : left[n] = t.node_recovery_tick[n]
      <3> HIDE DEF completed
      <3>. QED BY <1>2, <1>3, Zenon
    <2> HIDE DEF tick, completed
    <2>. QED BY <1>1, <2>1, Zenon
  <1>5. pending \ completed = t.node_recovery_pending
    BY <1>3, Zenon
  <1>6. \/ Failback /\ u = SetTracking(t, {}, pending \ completed, left)
        \/ ~Failback /\ u = SetTracking(t, t.node_nopreempt \cup {}, {}, NeverTick)
    BY DEF UpdateV2FailbackTracking, SetTracking, NeverTick
  <1>7. u = SetTracking(t, t.node_nopreempt, t.node_recovery_pending, t.node_recovery_tick)
    <2>1. t.node_nopreempt \cup {} = t.node_nopreempt
      BY Zenon
    <2> HIDE DEF u, pending, completed, left
    <2>. QED BY <1>4, <1>5, <1>6, <2>1, Zenon DEF TrackedAt
  <1> HIDE DEF u
  <1>8. u \in Stores /\ SameFences(t, u) /\ SameHealth(t, u) /\ SameAdmission(t, u)
        /\ SameTracking(t, u)
    BY <1>1, <1>7, WithTracking DEF SameTracking
  <1>9. u = t
    BY <1>8, Alike, Zenon
  <1>. QED BY <1>9, Zenon DEF u

LEMMA ReconcileIsStable ==
    ASSUME NEW t \in Stores, FencesAt(t)
    PROVE  ReconcileVipAssignments(t, CurrentHolders(t)) = t
  <1> DEFINE next == CurrentHolders(t)
             u == ReconcileVipAssignments(t, next)
             c == [v \in Vips |-> IF next[v] # NoNode THEN next[v] ELSE Predecessor(t, v)]
  <1>1. /\ t.vip_assignments \in [Vips -> Assignments] /\ t.vip_generation \in [Vips -> Nat]
        /\ t.vip_last_holder \in [Vips -> Nodes \cup {NoNode}]
    BY Zenon DEF Stores
  <1>2. \A v \in Vips : next[v] = t.vip_assignments[v].holder
    BY Zenon DEF CurrentHolders
  <1>3. \A v \in Vips : c[v] = t.vip_last_holder[v]
    BY <1>2, Zenon DEF FencesAt, FenceAt, Predecessor
  <1>4. c = t.vip_last_holder
    <2> HIDE DEF next
    <2>. QED BY <1>1, <1>3, Zenon
  <1>5. u = SetFences(t, t.vip_assignments, t.vip_generation, t.vip_last_holder)
    <2> HIDE DEF next
    <2> DEFINE a == [v \in Vips |-> IF next[v] = t.vip_assignments[v].holder
                                    THEN t.vip_assignments[v]
                                    ELSE IF next[v] = NoNode THEN NoAssignment
                                    ELSE FencedAssignment(t, v, next[v])]
               b == [v \in Vips |-> IF next[v] = t.vip_assignments[v].holder \/ next[v] = NoNode
                                    THEN t.vip_generation[v] ELSE NextGeneration(t, v)]
    <2>1. u = SetFences(t, a, b, c)
      BY Zenon DEF ReconcileVipAssignments, SetFences
    <2>2. a = t.vip_assignments /\ b = t.vip_generation
      BY <1>1, <1>2, Zenon
    <2> HIDE DEF a, b, c, u
    <2>. QED BY <1>4, <2>1, <2>2, Zenon
  <1> HIDE DEF u, c, next
  <1>6. /\ u \in Stores
        /\ SameHealth(t, u) /\ SameTracking(t, u) /\ SameAdmission(t, u)
        /\ u.vip_assignments = t.vip_assignments
        /\ u.vip_generation = t.vip_generation
        /\ u.vip_last_holder = t.vip_last_holder
    BY <1>1, <1>5, WithFences
  <1>7. SameFences(t, u)
    BY <1>6, Zenon DEF SameFences
  <1>8. u = t
    BY <1>6, <1>7, Alike, Zenon
  <1>. QED BY <1>8, Zenon DEF u, next

LEMMA RecomputeAgain ==
    ASSUME NEW t, StoreInv(t)
    PROVE  Recompute(t) = t
  <1>1. t \in Stores /\ FencesAt(t) /\ TrackedAt(t)
        /\ Place(EligibleNodes(t), RebalanceReceivers(t), CurrentHolders(t)) = CurrentHolders(t)
    BY Zenon DEF StoreInv, PlacedAt
  <1>2. FailedOwners(t) = {}
    <2>1. \A v \in Vips : t.vip_assignments[v].holder \in EligibleNodes(t) \cup {NoNode}
      BY HoldersAreEligibleAt, Zenon
    <2>2. \A n \in EligibleNodes(t) : Serviceable(t, n)
      BY <1>1, EligibleIsServiceable, Zenon
    <2>. QED BY <2>1, <2>2, NodesAssumption, Zenon DEF FailedOwners, NoNode
  <1> DEFINE u == IF t.failover_semantics = "V2" THEN UpdateV2FailbackTracking(t) ELSE t
  <1>3. u = t
    BY <1>1, <1>2, TrackingIsStable, Zenon
  <1>4. Recompute(t) = ReconcileVipAssignments(
             u, Place(EligibleNodes(u), RebalanceReceivers(u), CurrentHolders(u)))
    BY Zenon DEF Recompute
  <1> HIDE DEF u
  <1>. QED BY <1>1, <1>3, <1>4, ReconcileIsStable, Zenon

-----------------------------------------------------------------------------
(* Failback history survives every step.                                   *)

\* Recomputing a state that has forgotten nobody forgets nobody.
LEMMA RecomputeRemembers ==
    ASSUME NEW t \in Stores, StoreInv(t), NEW p, Prepared(t, p), Recalls(t, p),
           NEW w, w = Recompute(p)
    PROVE  Remembers(t, w)
  <1> DEFINE u == IF p.failover_semantics = "V2" THEN UpdateV2FailbackTracking(p) ELSE p
             next == Place(EligibleNodes(u), RebalanceReceivers(u), CurrentHolders(u))
             pending == p.node_recovery_pending \cup FailedOwners(p)
  <1>0. p \in Stores /\ SameFences(t, p) /\ FrontierAt(p)
    BY Zenon DEF Prepared
  <1>1. /\ u \in Stores
        /\ SameFences(p, u) /\ SameHealth(p, u)
        /\ p.failover_semantics = "V2" => Tracks(p, u)
        /\ p.failover_semantics # "V2" => u = p
    BY <1>0, TrackingKeeps DEF SameFences, SameHealth
  <1>2. w = ReconcileVipAssignments(u, next)
    BY Zenon DEF Recompute
  <1> HIDE DEF u, next
  <1>3. FencesAt(u)
    BY <1>1, FencesAreKept, Zenon
  <1>4. /\ IsPlacement(EligibleNodes(u), RebalanceReceivers(u), CurrentHolders(u), next)
        /\ next \in [Vips -> Nodes \cup {NoNode}]
    BY <1>1, PlaceIsPlacement, PlaceIsHolders, Zenon DEF next
  <1>5. /\ w \in Stores /\ SameHealth(u, w) /\ SameTracking(u, w)
        /\ \A v \in Vips : w.vip_assignments[v].holder = next[v]
    BY <1>1, <1>2, <1>3, <1>4, ReconcileKeeps
  <1>6. /\ EligibleNodes(w) = EligibleNodes(u)
        /\ RebalanceReceivers(w) = RebalanceReceivers(u)
    BY <1>1, <1>5, TrackedIsKept, Zenon
  <1>7. \A v \in Vips : CurrentHolders(u)[v] = t.vip_assignments[v].holder
    BY <1>0, <1>1, Zenon DEF CurrentHolders, SameFences
  <1>8. Preempts(t, w)
    BY <1>4, <1>5, <1>6, <1>7, Zenon DEF Preempts, IsPlacement
  <1>9. /\ w.failover_semantics = p.failover_semantics
        /\ w.latest_probe_tick = p.latest_probe_tick
        /\ w.node_health = p.node_health
        /\ w.node_failback_blocked = p.node_failback_blocked
        /\ w.node_nopreempt = u.node_nopreempt
        /\ w.node_recovery_pending = u.node_recovery_pending
        /\ w.node_recovery_tick = u.node_recovery_tick
    BY <1>1, <1>5, Zenon DEF SameHealth, SameTracking
  <1>10. \A n \in Nodes : Serviceable(w, n) <=> Serviceable(p, n)
    BY <1>0, <1>1, <1>5, SameServiceable, Zenon
  <1>11. \A n \in Nodes : Owner(t, n) /\ ~Serviceable(w, n) => n \in FailedOwners(p)
    BY <1>0, <1>10, Zenon DEF Owner, FailedOwners, SameFences
  <1>12. ASSUME ~Failback PROVE Marks(t, w)
    <2>1. /\ Marked(p) \subseteq Marked(w)
          /\ p.failover_semantics = "V2" => FailedOwners(p) \subseteq Marked(w)
      BY <1>1, <1>9, <1>12, Zenon DEF Marked, Tracks
    <2>2. /\ Marked(t) \subseteq Marked(p)
          /\ \A n \in Nodes : Fell(t, p, n) => n \in Marked(p)
      BY <1>12, Zenon DEF Recalls
    <2>. QED BY <1>9, <1>11, <2>1, <2>2, Zenon DEF Marks, Fell
  <1>13. ASSUME Failback PROVE Delays(t, w)
    <2> SUFFICES ASSUME w.failover_semantics = "V2", NEW n \in Nodes
                 PROVE  /\ Owner(t, n) /\ ~Serviceable(w, n) => n \in w.node_recovery_pending
                        /\ (t.failover_semantics = "V2" /\ n \in t.node_recovery_pending) =>
                            \/ ~Serviceable(w, n) /\ n \in w.node_recovery_pending
                            \/ /\ Serviceable(w, n) /\ n \in w.node_recovery_pending
                               /\ w.node_recovery_tick[n] = Since(t, w, n)
                            \/ /\ Serviceable(w, n)
                               /\ SaturatingSub(w.latest_probe_tick, Since(t, w, n)) >= FailbackDelay
      BY Zenon DEF Delays
    <2>1. n \in pending =>
              \/ n \in w.node_recovery_pending /\ w.node_recovery_tick[n] = RecoveryTick(p, pending, n)
              \/ /\ Serviceable(w, n)
                 /\ SaturatingSub(w.latest_probe_tick, RecoveryTick(p, pending, n)) >= FailbackDelay
      BY <1>1, <1>9, <1>10, <1>13, Zenon DEF Tracks
    <2>2. (Owner(t, n) /\ ~Serviceable(w, n)) => n \in pending
      BY <1>11, Zenon
    <2>3. ASSUME t.failover_semantics = "V2", n \in t.node_recovery_pending
          PROVE  /\ n \in pending
                 /\ Serviceable(w, n) => RecoveryTick(p, pending, n) = Since(t, w, n)
      <3>1. n \in pending
        BY <1>13, <2>3, Zenon DEF Recalls
      <3>2. Serviceable(p, n) => p.node_recovery_tick[n] = t.node_recovery_tick[n]
        BY <1>13, <2>3, Zenon DEF Recalls
      <3> HIDE DEF pending
      <3>. QED BY <1>9, <1>10, <3>1, <3>2, Zenon DEF RecoveryTick, Since
    <2> HIDE DEF pending
    <2>. QED BY <2>1, <2>2, <2>3, Zenon
  <1>. QED BY <1>8, <1>9, <1>12, <1>13, Zenon DEF Remembers, Recalls, Prepared

\* A step that changes neither health, tracking nor holders forgets nobody.
LEMMA SteadyRemembers ==
    ASSUME NEW t \in Stores, StoreInv(t), NEW w \in Stores, SameHealth(t, w), SameTracking(t, w),
           CurrentHolders(w) = CurrentHolders(t)
    PROVE  Remembers(t, w)
  <1>1. \A n \in Nodes : Serviceable(w, n) <=> Serviceable(t, n)
    BY SameServiceable, Zenon
  <1>2. \A n \in Nodes : Owner(t, n) => Serviceable(w, n)
    BY <1>1, HoldersAreEligibleAt, EligibleIsServiceable, NodesAssumption, Zenon DEF Owner, NoNode
  <1>3. \A v \in Vips : w.vip_assignments[v].holder = t.vip_assignments[v].holder
    BY ZenonT(40) DEF CurrentHolders
  <1>4. Marks(t, w) /\ Preempts(t, w)
    BY <1>2, <1>3, Zenon DEF Marks, Marked, Fell, Preempts, SameHealth, SameTracking
  <1>5. Delays(t, w)
    <2>1. TrackedAt(t)
      BY Zenon DEF StoreInv
    <2>. QED BY <1>1, <1>2, <2>1, Zenon DEF TrackedAt, Delays, Since, SameHealth, SameTracking
  <1>6. t.latest_probe_tick <= w.latest_probe_tick
    BY DEF Stores, SameHealth
  <1>. QED BY <1>4, <1>5, <1>6, Zenon DEF Remembers, SameHealth

-----------------------------------------------------------------------------
(* One lemma per kind of entry: what it makes of the state.                *)

Shaped(t, u) ==
    \/ Quiet(t, u)
    \/ \E p : Prepared(t, p) /\ Recalls(t, p) /\ u = Recompute(p)

\* Health that counts under a genesis is as it was, voter and all, or was
\* just reported by the voter.
Vouched(t, w) ==
    w.genesis # NoGenesis =>
        \A n \in Nodes : w.node_health[n] = "up" =>
            \/ /\ t.genesis # NoGenesis /\ t.node_health[n] = "up"
               /\ w.node_probe_ticks[n] = t.node_probe_ticks[n]
               /\ UniqueVoter(w.membership, n) = UniqueVoter(t.membership, n)
            \/ /\ w.node_probe_ticks[n] # NoTick
               /\ w.node_probe_ticks[n] # t.node_probe_ticks[n]
               /\ w.applied_progress[n] # NoReplica
               /\ UniqueVoter(w.membership, n) = w.applied_progress[n]

LEMMA VouchedAlike ==
    ASSUME NEW t, NEW w, w.genesis = t.genesis, w.membership = t.membership,
           w.node_health = t.node_health, w.node_probe_ticks = t.node_probe_ticks
    PROVE  Vouched(t, w)
  BY Zenon DEF Vouched

LEMMA RecallsAfterQuiet ==
    ASSUME NEW t, NEW u, Quiet(t, u), NEW p, Recalls(u, p)
    PROVE  Recalls(t, p)
  BY Zenon DEF Quiet, SameHealth, SameTracking, Recalls, Marked, Fell

LEMMA QuietSelf == ASSUME NEW t \in Stores PROVE Quiet(t, t)
  BY Zenon DEF Quiet, SameFences, SameHealth, SameTracking

SetHealth(t, h, p, l, r, b) ==
    [t EXCEPT !.node_health = h, !.node_probe_ticks = p, !.latest_probe_tick = l,
              !.node_recovery_tick = r, !.node_failback_blocked = b]

LEMMA WithHealth ==
    ASSUME NEW t \in Stores, NEW h \in [Nodes -> {"none", "up", "down"}],
           NEW p \in [Nodes -> Ticks], NEW l \in Nat, NEW r \in [Nodes -> Ticks],
           NEW b \in SUBSET Nodes,
           NEW u, u = SetHealth(t, h, p, l, r, b)
    PROVE  /\ u \in Stores
           /\ u.node_health = h
           /\ u.node_probe_ticks = p
           /\ u.latest_probe_tick = l
           /\ u.node_recovery_tick = r
           /\ u.node_failback_blocked = b
           /\ u.node_nopreempt = t.node_nopreempt
           /\ u.node_recovery_pending = t.node_recovery_pending
           /\ u.membership = t.membership
           /\ u.failover_semantics = t.failover_semantics
           /\ SameFences(t, u) /\ SameAdmission(t, u)
  BY Zenon DEF Stores, SetHealth, SameFences, SameAdmission

LEMMA NextProbeTickAdvances ==
    ASSUME NEW t \in Stores, NEW n \in Nodes
    PROVE  /\ NextProbeTick(t, n) \in Nat
           /\ NextProbeTick(t, n) >= t.latest_probe_tick
           /\ NextProbeTick(t, n) # t.node_probe_ticks[n]
  <1>1. t.latest_probe_tick \in Nat /\ t.node_probe_ticks[n] \in Ticks
    BY Zenon DEF Stores
  <1>. QED BY <1>1 DEF NextProbeTick, Ticks, NoTick

LEMMA HealthPrepares ==
    ASSUME NEW t \in Stores, FrontierAt(t), BlockedAt(t), NEW n \in Nodes, NEW healthy,
           NEW u, u = ApplyHealth(t, n, healthy)
    PROVE  /\ Prepared(t, u) /\ Recalls(t, u)
           /\ u.membership = t.membership
           /\ u.failover_semantics = t.failover_semantics
           /\ SameAdmission(t, u)
           /\ u.node_health = [t.node_health EXCEPT ![n] = IF healthy THEN "up" ELSE "down"]
           /\ u.node_probe_ticks = [t.node_probe_ticks EXCEPT ![n] = NextProbeTick(t, n)]
  <1> DEFINE tick == NextProbeTick(t, n)
             legacy == t.failover_semantics = "Legacy"
             was == t.node_health[n]
             x == IF legacy /\ ~healthy THEN NoTick
                  ELSE IF legacy /\ Failback /\ was = "down" THEN tick
                  ELSE t.node_recovery_tick[n]
             h == [t.node_health EXCEPT ![n] = IF healthy THEN "up" ELSE "down"]
             p == [t.node_probe_ticks EXCEPT ![n] = tick]
             r == [t.node_recovery_tick EXCEPT ![n] = x]
             b == IF legacy /\ ~healthy /\ ~Failback /\ was = "up"
                  THEN t.node_failback_blocked \cup {n} ELSE t.node_failback_blocked
  <1>1. u = SetHealth(t, h, p, tick, r, b)
    BY Zenon DEF ApplyHealth, SetHealth
  <1>2. /\ t.node_health \in [Nodes -> {"none", "up", "down"}]
        /\ t.node_probe_ticks \in [Nodes -> Ticks]
        /\ t.node_recovery_tick \in [Nodes -> Ticks]
        /\ t.latest_probe_tick \in Nat
        /\ t.node_failback_blocked \in SUBSET Nodes
        /\ t.failover_semantics \in {"Legacy", "V2"}
    BY Zenon DEF Stores, Semantics
  <1>3. tick \in Nat /\ tick >= t.latest_probe_tick
    BY NextProbeTickAdvances, Zenon
  <1> HIDE DEF tick
  <1>4. /\ x \in Ticks /\ (t.node_recovery_tick[n] <= t.latest_probe_tick => x <= tick)
    BY <1>2, <1>3 DEF Ticks, NoTick
  <1> HIDE DEF x
  <1>5. /\ h \in [Nodes -> {"none", "up", "down"}]
        /\ p \in [Nodes -> Ticks]
        /\ r \in [Nodes -> Ticks]
        /\ b \in SUBSET Nodes
    BY <1>2, <1>3, <1>4, Zenon DEF Ticks
  <1>6. ASSUME NEW m \in Nodes PROVE p[m] <= tick /\ r[m] <= tick
    <2>1. t.node_probe_ticks[m] <= t.latest_probe_tick /\ t.node_recovery_tick[m] <= t.latest_probe_tick
      BY Zenon DEF FrontierAt
    <2>2. t.node_probe_ticks[m] \in Int /\ t.node_recovery_tick[m] \in Int
      BY <1>2 DEF Ticks, NoTick
    <2>. QED BY <1>2, <1>3, <1>4, <2>1, <2>2
  <1>7. (t.failover_semantics = "V2" \/ Failback) => b = {}
    BY <1>2, Zenon DEF BlockedAt
  <1>10. /\ t.node_failback_blocked \subseteq b
         /\ \A m \in Nodes : (legacy /\ ~Failback /\ t.node_health[m] = "up" /\ h[m] = "down")
                               => m \in b
    BY <1>2, Zenon
  <1>11. ~legacy => \A m \in Nodes : r[m] = t.node_recovery_tick[m]
    BY <1>2, Zenon DEF x
  <1> HIDE DEF h, p, r, b
  <1>8. /\ u \in Stores
        /\ u.node_health = h
        /\ u.node_probe_ticks = p
        /\ u.latest_probe_tick = tick
        /\ u.node_recovery_tick = r
        /\ u.node_failback_blocked = b
        /\ u.node_nopreempt = t.node_nopreempt
        /\ u.node_recovery_pending = t.node_recovery_pending
        /\ u.membership = t.membership
        /\ u.failover_semantics = t.failover_semantics
        /\ SameFences(t, u) /\ SameAdmission(t, u)
    BY <1>1, <1>3, <1>5, WithHealth
  <1>9. FrontierAt(u) /\ BlockedAt(u)
    BY <1>6, <1>7, <1>8, Zenon DEF FrontierAt, BlockedAt
  <1>12. Recalls(t, u)
    <2>1. t.failover_semantics = "V2" => ~legacy
      OBVIOUS
    <2>. QED BY <1>8, <1>10, <1>11, <2>1, Zenon DEF Recalls, Marked, Fell
  <1>. QED BY <1>3, <1>8, <1>9, <1>12, Zenon DEF Prepared, h, p, tick

SetProgress(t, f) == [t EXCEPT !.applied_progress = f]

LEMMA WithProgress ==
    ASSUME NEW t \in Stores, NEW f \in [Nodes -> Replicas \cup {NoReplica}],
           NEW u, u = SetProgress(t, f)
    PROVE  /\ Quiet(t, u)
           /\ u.applied_progress = f
           /\ u.genesis = t.genesis
           /\ u.prepared_join = t.prepared_join
  BY ZenonT(40) DEF Stores, SetProgress, Quiet, SameFences, SameHealth, SameTracking

LEMMA HealthProgressShape ==
    ASSUME NEW t \in Stores, StoreInv(t), NEW g \in Geneses, NEW r \in Replicas,
           NEW healthy \in {"none", "up", "down"},
           NEW w, w = ApplyHealthProgress(t, g, r, healthy)
    PROVE  /\ Shaped(t, w) /\ Vouched(t, w)
           /\ w.membership = t.membership /\ w.prepared_join = t.prepared_join
  <1> DEFINE f == [t.applied_progress EXCEPT ![r[1]] = r]
             u == SetProgress(t, f)
             c == CountsAsHealthy(t, r, healthy)
  <1>1. /\ r[1] \in Nodes /\ f \in [Nodes -> Replicas \cup {NoReplica}]
        /\ f[r[1]] = r /\ r # NoReplica
        /\ c => UniqueVoter(t.membership, r[1]) = r
    BY NodesAssumption DEF Stores, Replicas, NoReplica, CountsAsHealthy
  <1>2. w = t \/ w = u \/ w = Recompute(ApplyHealth(u, r[1], c))
    BY Zenon DEF ApplyHealthProgress, AfterHealth, SetProgress
  <1> HIDE DEF f, u, c
  <1>3. /\ Quiet(t, u) /\ u.prepared_join = t.prepared_join
        /\ u.genesis = t.genesis /\ u.applied_progress = f
    BY <1>1, WithProgress DEF u
  <1>4. u \in Stores /\ StoreInv(u) /\ u.membership = t.membership
    BY <1>3, QuietGives, Zenon DEF Quiet, SameHealth
  <1>5. CASE w = t
    BY <1>5, QuietSelf, VouchedAlike, Zenon DEF Shaped
  <1>6. CASE w = u
    <2>1. Vouched(t, u)
      BY <1>3, VouchedAlike, Zenon DEF Quiet, SameHealth
    <2>. QED BY <1>3, <1>4, <1>6, <2>1, Zenon DEF Shaped
  <1>7. CASE w = Recompute(ApplyHealth(u, r[1], c))
    <2> DEFINE p == ApplyHealth(u, r[1], c)
    <2>0. FrontierAt(u) /\ BlockedAt(u)
      BY <1>4, Zenon DEF StoreInv
    <2>1. /\ Prepared(u, p) /\ Recalls(u, p)
          /\ p.membership = u.membership /\ SameAdmission(u, p)
          /\ p.node_health = [u.node_health EXCEPT ![r[1]] = IF c THEN "up" ELSE "down"]
          /\ p.node_probe_ticks = [u.node_probe_ticks EXCEPT ![r[1]] = NextProbeTick(u, r[1])]
      BY <1>1, <1>4, <2>0, HealthPrepares
    <2>2. w = Recompute(p)
      BY <1>7, Zenon
    <2> HIDE DEF p
    <2>3. Prepared(t, p) /\ Recalls(t, p)
      <3>1. Prepared(t, p)
        BY <1>3, <2>1, Zenon DEF Prepared, Quiet, SameFences, SameHealth
      <3>. QED BY <1>3, <2>1, <3>1, RecallsAfterQuiet, Zenon
    <2>4. SameHealth(p, w) /\ SameAdmission(p, w)
      BY <2>2, <2>3, RecomputeGives, Zenon
    <2>5. /\ w.node_health = [t.node_health EXCEPT ![r[1]] = IF c THEN "up" ELSE "down"]
          /\ w.node_probe_ticks = [t.node_probe_ticks EXCEPT ![r[1]] = NextProbeTick(u, r[1])]
          /\ w.membership = t.membership /\ w.genesis = t.genesis
          /\ w.applied_progress = f
      BY <1>3, <2>1, <2>4, ZenonT(40) DEF Quiet, SameHealth, SameAdmission
    <2>6. /\ NextProbeTick(u, r[1]) # NoTick
          /\ NextProbeTick(u, r[1]) # t.node_probe_ticks[r[1]]
      BY <1>1, <1>3, <1>4, NextProbeTickAdvances DEF Quiet, SameHealth, NoTick
    <2>7. t.node_health \in [Nodes -> {"none", "up", "down"}] /\ t.node_probe_ticks \in [Nodes -> Ticks]
      BY Zenon DEF Stores
    <2>8. Vouched(t, w)
      BY <1>1, <2>5, <2>6, <2>7 DEF Vouched
    <2>. QED BY <1>3, <1>4, <2>1, <2>2, <2>3, <2>4, <2>8, Zenon DEF Shaped, SameHealth, SameAdmission
  <1>. QED BY <1>2, <1>5, <1>6, <1>7, Zenon

LEMMA HealthUpdateShape ==
    ASSUME NEW t \in Stores, StoreInv(t), NEW n \in Nodes, NEW healthy \in BOOLEAN,
           NEW w, w = ApplyHealthUpdate(t, n, healthy)
    PROVE  /\ Shaped(t, w) /\ Vouched(t, w)
           /\ w.membership = t.membership /\ w.prepared_join = t.prepared_join
  <1> DEFINE p == ApplyHealth(t, n, healthy)
  <1>1. w = t \/ (w = Recompute(p) /\ t.genesis = NoGenesis)
    BY Zenon DEF ApplyHealthUpdate, AfterHealth
  <1>2. Prepared(t, p) /\ Recalls(t, p) /\ p.membership = t.membership /\ SameAdmission(t, p)
    <2>1. FrontierAt(t) /\ BlockedAt(t)
      BY Zenon DEF StoreInv
    <2>2. /\ Prepared(t, p) /\ Recalls(t, p)
          /\ p.membership = t.membership
          /\ p.failover_semantics = t.failover_semantics
          /\ SameAdmission(t, p)
          /\ p.node_health = [t.node_health EXCEPT ![n] = IF healthy THEN "up" ELSE "down"]
          /\ p.node_probe_ticks = [t.node_probe_ticks EXCEPT ![n] = NextProbeTick(t, n)]
      BY <2>1, HealthPrepares
    <2>. QED BY <2>2, Zenon
  <1> HIDE DEF p
  <1>3. CASE w = t
    BY <1>3, QuietSelf, VouchedAlike, Zenon DEF Shaped
  <1>4. CASE w = Recompute(p) /\ t.genesis = NoGenesis
    <2>1. SameHealth(p, w) /\ SameAdmission(p, w)
      BY <1>2, <1>4, RecomputeGives, Zenon
    <2>. QED BY <1>2, <1>4, <2>1, Zenon DEF Shaped, Vouched, SameHealth, SameAdmission
  <1>. QED BY <1>1, <1>3, <1>4, Zenon

SetV2(t, pending, nopreempt, tick) ==
    [t EXCEPT !.failover_semantics = "V2", !.node_recovery_pending = pending,
              !.node_nopreempt = nopreempt, !.node_recovery_tick = tick,
              !.node_failback_blocked = {}]

Activated(t, u, nopreempt, tick) ==
    /\ u.failover_semantics = "V2"
    /\ u.node_nopreempt = nopreempt
    /\ u.node_recovery_tick = tick
    /\ u.node_failback_blocked = {}
    /\ u.node_health = t.node_health
    /\ u.node_probe_ticks = t.node_probe_ticks
    /\ u.latest_probe_tick = t.latest_probe_tick
    /\ u.membership = t.membership
    /\ SameFences(t, u) /\ SameAdmission(t, u)

LEMMA WithV2 ==
    ASSUME NEW t \in Stores, NEW a \in SUBSET Nodes, NEW b \in SUBSET Nodes,
           NEW c \in [Nodes -> Ticks],
           NEW u, u = SetV2(t, a, b, c)
    PROVE  u \in Stores /\ Activated(t, u, b, c)
  BY ZenonT(40) DEF Stores, Semantics, SetV2, SameFences, SameAdmission, Activated

LEMMA ActivatePrepares ==
    ASSUME NEW t \in Stores, FrontierAt(t), BlockedAt(t),
           NEW u, u = ActivateV2(t)
    PROVE  /\ Prepared(t, u) /\ Recalls(t, u)
           /\ u.failover_semantics = "V2"
           /\ u.membership = t.membership
           /\ u.node_health = t.node_health
           /\ u.node_probe_ticks = t.node_probe_ticks
           /\ u.latest_probe_tick = t.latest_probe_tick
           /\ SameAdmission(t, u)
  <1>0. /\ t.latest_probe_tick \in Nat
        /\ t.node_recovery_pending \in SUBSET Nodes
        /\ t.node_nopreempt \in SUBSET Nodes
        /\ t.node_failback_blocked \in SUBSET Nodes
        /\ t.node_recovery_tick \in [Nodes -> Ticks]
    BY Zenon DEF Stores
  <1>1. CASE t.failover_semantics = "V2"
    BY <1>0, <1>1 DEF ActivateV2, Prepared, Recalls, Fell, SameFences, SameAdmission
  <1>2. CASE t.failover_semantics # "V2"
    <2> DEFINE a == IF Failback
                    THEN t.node_recovery_pending
                             \cup {n \in Nodes : t.node_recovery_tick[n] # NoTick}
                    ELSE t.node_recovery_pending
               b == IF Failback THEN t.node_nopreempt
                                ELSE t.node_nopreempt \cup t.node_failback_blocked
               c == IF Failback THEN t.node_recovery_tick ELSE [n \in Nodes |-> NoTick]
    <2>1. u = SetV2(t, a, b, c)
      BY <1>2, Zenon DEF ActivateV2, SetV2
    <2>2. a \in SUBSET Nodes /\ b \in SUBSET Nodes /\ c \in [Nodes -> Ticks]
      BY <1>0, Zenon DEF Ticks
    <2>3. \A n \in Nodes : c[n] <= t.latest_probe_tick
      BY <1>0 DEF FrontierAt, NoTick
    <2>6. ~Failback => t.node_failback_blocked \subseteq b
      BY Zenon
    <2> HIDE DEF a, b, c
    <2>4. u \in Stores /\ Activated(t, u, b, c)
      BY <2>1, <2>2, WithV2, Zenon
    <2>5. FrontierAt(u) /\ BlockedAt(u)
      BY <2>3, <2>4, Zenon DEF FrontierAt, BlockedAt, Activated
    <2>7. Recalls(t, u)
      BY <1>2, <2>4, <2>6, Zenon DEF Recalls, Marked, Fell, Activated
    <2>. QED BY <1>0, <2>4, <2>5, <2>7 DEF Prepared, Activated
  <1>. QED BY <1>1, <1>2, Zenon

LEMMA EnableV2Shape ==
    ASSUME NEW t \in Stores, StoreInv(t), NEW w, w = ApplyEnableV2(t)
    PROVE  /\ Shaped(t, w) /\ Vouched(t, w)
           /\ w.membership = t.membership /\ w.prepared_join = t.prepared_join
  <1> DEFINE p == ActivateV2(t)
  <1>1. w = Recompute(p)
    BY Zenon DEF ApplyEnableV2
  <1>2. /\ Prepared(t, p) /\ Recalls(t, p)
        /\ p.membership = t.membership /\ SameAdmission(t, p)
        /\ p.node_health = t.node_health /\ p.node_probe_ticks = t.node_probe_ticks
    BY ActivatePrepares, Zenon DEF StoreInv
  <1> HIDE DEF p
  <1>3. SameHealth(p, w) /\ SameAdmission(p, w)
    BY <1>1, <1>2, RecomputeGives, Zenon
  <1>4. Vouched(t, w)
    BY <1>2, <1>3, VouchedAlike DEF SameHealth, SameAdmission
  <1>. QED BY <1>1, <1>2, <1>3, <1>4, Zenon DEF Shaped, SameHealth, SameAdmission

SetEpoch(t, g, e, i) ==
    [t EXCEPT !.genesis = g, !.cluster_epoch = e, !.config_identity_enforced = i]

LEMMA WithEpoch ==
    ASSUME NEW t \in Stores, NEW g \in Geneses \cup {NoGenesis}, NEW e \in Nat,
           NEW i \in BOOLEAN,
           NEW u, u = SetEpoch(t, g, e, i)
    PROVE  /\ Quiet(t, u)
           /\ u.genesis = g
           /\ u.applied_progress = t.applied_progress
           /\ u.prepared_join = t.prepared_join
  BY Zenon DEF Stores, SetEpoch, Quiet, SameFences, SameHealth, SameTracking

LEMMA IdentityShape ==
    ASSUME NEW t \in Stores, NEW w, w = ApplyEnableIdentity(t)
    PROVE  /\ Quiet(t, w)
           /\ w.genesis = t.genesis /\ w.applied_progress = t.applied_progress
           /\ w.membership = t.membership /\ w.prepared_join = t.prepared_join
  BY ZenonT(40) DEF ApplyEnableIdentity, Stores, Quiet, SameFences, SameHealth, SameTracking

LEMMA ClusterFormedShape ==
    ASSUME NEW t \in Stores, StoreInv(t), NEW e \in Nat, NEW semantics \in Semantics,
           NEW i \in BOOLEAN, NEW w, w = ApplyClusterFormed(t, e, semantics, i)
    PROVE  /\ Shaped(t, w) /\ Vouched(t, w)
           /\ w.membership = t.membership /\ w.prepared_join = t.prepared_join
  <1> DEFINE u == [t EXCEPT !.cluster_epoch = e,
                            !.config_identity_enforced = t.config_identity_enforced \/ i]
             p == ActivateV2(u)
  <1>1. w = t \/ w = u \/ w = Recompute(p)
    BY Zenon DEF ApplyClusterFormed
  <1>2. Quiet(t, u) /\ u.prepared_join = t.prepared_join /\ u.genesis = t.genesis
    <2>1. (t.config_identity_enforced \/ i) \in BOOLEAN
      OBVIOUS
    <2>. QED BY <2>1, ZenonT(40) DEF Stores, Quiet, SameFences, SameHealth, SameTracking
  <1> HIDE DEF u
  <1>3. u \in Stores /\ StoreInv(u) /\ u.membership = t.membership
    BY <1>2, QuietGives, Zenon DEF Quiet, SameHealth
  <1>4. /\ Prepared(u, p) /\ Recalls(u, p)
        /\ p.membership = u.membership /\ SameAdmission(u, p)
        /\ p.node_health = u.node_health /\ p.node_probe_ticks = u.node_probe_ticks
    BY <1>3, ActivatePrepares, Zenon DEF StoreInv
  <1> HIDE DEF p
  <1>5. CASE w = t
    BY <1>5, QuietSelf, VouchedAlike, Zenon DEF Shaped
  <1>6. CASE w = u
    <2>1. Vouched(t, u)
      BY <1>2, VouchedAlike, Zenon DEF Quiet, SameHealth
    <2>. QED BY <1>2, <1>3, <1>6, <2>1, Zenon DEF Shaped
  <1>7. CASE w = Recompute(p)
    <2>1. Prepared(t, p) /\ Recalls(t, p)
      <3>1. Prepared(t, p)
        BY <1>2, <1>4, Zenon DEF Prepared, Quiet, SameFences, SameHealth
      <3>. QED BY <1>2, <1>4, <3>1, RecallsAfterQuiet, Zenon
    <2>2. SameHealth(p, w) /\ SameAdmission(p, w)
      BY <1>7, <2>1, RecomputeGives, Zenon
    <2>3. Vouched(t, w)
      BY <1>2, <1>4, <2>2, VouchedAlike DEF Quiet, SameHealth, SameAdmission
    <2>. QED BY <1>2, <1>3, <1>4, <1>7, <2>1, <2>2, <2>3, Zenon
                DEF Shaped, SameHealth, SameAdmission
  <1>. QED BY <1>1, <1>5, <1>6, <1>7, Zenon

SetFresh(t, h, p, r, f) ==
    [t EXCEPT !.node_health = h, !.node_probe_ticks = p, !.node_recovery_tick = r,
              !.applied_progress = f]

Refreshed(t, u, h, p, r, f) ==
    /\ u.node_health = h
    /\ u.node_probe_ticks = p
    /\ u.node_recovery_tick = r
    /\ u.applied_progress = f
    /\ u.latest_probe_tick = t.latest_probe_tick
    /\ u.failover_semantics = t.failover_semantics
    /\ u.node_failback_blocked = t.node_failback_blocked
    /\ u.node_nopreempt = t.node_nopreempt
    /\ u.node_recovery_pending = t.node_recovery_pending
    /\ u.membership = t.membership
    /\ u.prepared_join = t.prepared_join
    /\ u.genesis = t.genesis
    /\ SameFences(t, u)

LEMMA WithFresh ==
    ASSUME NEW t \in Stores, NEW h \in [Nodes -> {"none", "up", "down"}],
           NEW p \in [Nodes -> Ticks], NEW r \in [Nodes -> Ticks],
           NEW f \in [Nodes -> Replicas \cup {NoReplica}],
           NEW u, u = SetFresh(t, h, p, r, f)
    PROVE  u \in Stores /\ Refreshed(t, u, h, p, r, f)
  BY ZenonT(40) DEF Stores, SetFresh, Refreshed, SameFences

NoHealth == [n \in Nodes |-> "none"]
NoProgress == [n \in Nodes |-> NoReplica]

\* A first genesis starts from states in which nobody has reported.
LEMMA GenesisShape ==
    ASSUME NEW t \in Stores, StoreInv(t), NEW g \in Geneses,
           NEW w, w = ApplyGenesis(t, g)
    PROVE  \/ w = t
           \/ \E p : /\ Prepared(t, p) /\ Recalls(t, p) /\ w = Recompute(p)
                     /\ p.membership = t.membership /\ p.prepared_join = t.prepared_join
                     /\ p.node_health = NoHealth
  <1> DEFINE fresh == SetFresh(t, NoHealth, NeverTick, NeverTick, NoProgress)
             v2 == ActivateV2(fresh)
             yes == TRUE
             p == SetEpoch(v2, g, g.epoch, yes)
  <1>1. w = t \/ w = Recompute(p)
    BY Zenon DEF ApplyGenesis, SetFresh, SetEpoch, NoHealth, NeverTick, NoProgress
  <1>2. /\ NoHealth \in [Nodes -> {"none", "up", "down"}]
        /\ NeverTick \in [Nodes -> Ticks]
        /\ NoProgress \in [Nodes -> Replicas \cup {NoReplica}]
        /\ \A n \in Nodes : NeverTick[n] = NoTick
        /\ g.epoch \in Nat /\ yes \in BOOLEAN
        /\ t.latest_probe_tick \in Nat
    BY ConfigAssumption, Zenon DEF NoHealth, NeverTick, NoProgress, Ticks, Stores
  <1> HIDE DEF fresh, yes
  <1>3. fresh \in Stores /\ Refreshed(t, fresh, NoHealth, NeverTick, NeverTick, NoProgress)
    BY <1>2, WithFresh, Zenon DEF fresh
  <1>4. FrontierAt(fresh) /\ BlockedAt(fresh)
    BY <1>2, <1>3 DEF FrontierAt, BlockedAt, Refreshed, StoreInv, NoTick
  <1> HIDE DEF v2
  <1>5. /\ Prepared(fresh, v2) /\ Recalls(fresh, v2)
        /\ v2.membership = fresh.membership
        /\ v2.node_health = fresh.node_health
        /\ v2.latest_probe_tick = fresh.latest_probe_tick
        /\ SameAdmission(fresh, v2)
    BY <1>3, <1>4, ActivatePrepares, Zenon DEF v2
  <1> HIDE DEF p
  <1>6. Quiet(v2, p) /\ p.genesis = g /\ p.prepared_join = v2.prepared_join
    <2>1. v2 \in Stores
      BY <1>5, Zenon DEF Prepared
    <2>. QED BY <1>2, <2>1, WithEpoch DEF p
  <1>7. FrontierAt(p) /\ BlockedAt(p)
    BY <1>5, <1>6, Zenon DEF Prepared, Quiet, FrontierAt, BlockedAt, SameHealth, SameTracking
  <1>8. Prepared(t, p)
    BY <1>2, <1>3, <1>5, <1>6, <1>7, Zenon
       DEF Prepared, Quiet, Refreshed, SameFences, SameHealth
  <1>9. /\ p.membership = t.membership /\ p.prepared_join = t.prepared_join
        /\ p.node_health = NoHealth
    BY <1>3, <1>5, <1>6, Zenon DEF Quiet, Refreshed, SameHealth, SameAdmission
  <1>10. Recalls(t, p)
    <2>1. \A n \in Nodes : p.node_health[n] = "none" /\ ~Serviceable(p, n)
      BY <1>9, Zenon DEF NoHealth, Serviceable, IsNodeBaseEligible
    <2>2. /\ Marked(fresh) = Marked(t)
          /\ fresh.failover_semantics = t.failover_semantics
          /\ fresh.node_recovery_pending = t.node_recovery_pending
      BY <1>3, Zenon DEF Marked, Refreshed
    <2>3. /\ Marked(p) = Marked(v2)
          /\ p.failover_semantics = v2.failover_semantics
          /\ p.node_recovery_pending = v2.node_recovery_pending
      BY <1>6, Zenon DEF Marked, Quiet, SameHealth, SameTracking
    <2>. QED BY <1>5, <2>1, <2>2, <2>3, Zenon DEF Recalls, Fell
  <1>. QED BY <1>1, <1>8, <1>9, <1>10, Zenon

-----------------------------------------------------------------------------
(* Entries that do not recompute: joins and release acknowledgements.      *)

SetJoin(t, j, n) == [t EXCEPT !.prepared_join = j, !.joins = n]

LEMMA SameJoins ==
    ASSUME NEW t \in Stores, NEW j
    PROVE  [t EXCEPT !.prepared_join = j] = SetJoin(t, j, t.joins)
  BY Zenon DEF Stores, SetJoin

LEMMA WithJoin ==
    ASSUME NEW t \in Stores, NEW j \in Joins, NEW n \in Nat,
           NEW u, u = SetJoin(t, j, n)
    PROVE  /\ Quiet(t, u)
           /\ u.prepared_join = j
           /\ u.membership = t.membership
           /\ u.genesis = t.genesis /\ u.applied_progress = t.applied_progress
  BY Zenon DEF Stores, SetJoin, Quiet, SameFences, SameHealth, SameTracking

SetRelease(t, a) == [t EXCEPT !.vip_assignments = a]

LEMMA WithRelease ==
    ASSUME NEW t \in Stores, NEW a \in [Vips -> Assignments],
           NEW u, u = SetRelease(t, a)
    PROVE  /\ u \in Stores
           /\ u.vip_assignments = a
           /\ u.vip_generation = t.vip_generation
           /\ u.vip_last_holder = t.vip_last_holder
           /\ SameHealth(t, u) /\ SameTracking(t, u) /\ SameAdmission(t, u)
  BY Zenon DEF Stores, SetRelease, SameHealth, SameTracking, SameAdmission

\* An acknowledgement changes nothing but the flag of a matching assignment.
LEMMA ReleasedGives ==
    ASSUME NEW t \in Stores, StoreInv(t), NEW n \in Nodes, NEW v \in Vips, NEW generation,
           NEW w, w = ApplyVipReleased(t, n, v, generation)
    PROVE  /\ StoreInv(w)
           /\ \A x \in Vips : FenceStepAt(t, w, x)
           /\ w.vip_generation = t.vip_generation
           /\ CurrentHolders(w) = CurrentHolders(t)
           /\ SameHealth(t, w) /\ SameTracking(t, w) /\ SameAdmission(t, w)
  <1> DEFINE a == [t.vip_assignments EXCEPT ![v].previous_holder_released = TRUE]
  <1>1. w = t \/ (w = SetRelease(t, a) /\ t.vip_assignments[v].holder # NoNode)
    BY Zenon DEF ApplyVipReleased, SetRelease, ReleaseMatches
  <1>2. t.vip_assignments \in [Vips -> Assignments]
    BY Zenon DEF Stores
  <1>3. ASSUME NEW b \in Assignments
        PROVE  /\ [b EXCEPT !.previous_holder_released = TRUE] \in Assignments
               /\ [b EXCEPT !.previous_holder_released = TRUE].holder = b.holder
               /\ [b EXCEPT !.previous_holder_released = TRUE].generation = b.generation
               /\ [b EXCEPT !.previous_holder_released = TRUE].previous_holder = b.previous_holder
               /\ [b EXCEPT !.previous_holder_released = TRUE].previous_holder_released
               /\ [b EXCEPT !.previous_holder_released = TRUE].activation_tick = b.activation_tick
    BY Zenon DEF Assignments
  <1>4. /\ a \in [Vips -> Assignments]
        /\ \A x \in Vips : x # v => a[x] = t.vip_assignments[x]
        /\ a[v].holder = t.vip_assignments[v].holder
        /\ a[v].generation = t.vip_assignments[v].generation
        /\ a[v].previous_holder = t.vip_assignments[v].previous_holder
        /\ a[v].previous_holder_released
        /\ a[v].activation_tick = t.vip_assignments[v].activation_tick
    BY <1>2, <1>3, Zenon
  <1> HIDE DEF a
  <1>5. CASE w = t
    BY <1>5, QuietSelf, QuietGives, Zenon DEF SameHealth, SameTracking, SameAdmission
  <1>6. CASE w = SetRelease(t, a) /\ t.vip_assignments[v].holder # NoNode
    <2>1. /\ w \in Stores
          /\ w.vip_assignments = a
          /\ w.vip_generation = t.vip_generation
          /\ w.vip_last_holder = t.vip_last_holder
          /\ SameHealth(t, w) /\ SameTracking(t, w) /\ SameAdmission(t, w)
      BY <1>4, <1>6, WithRelease
    <2>2. /\ FrontierAt(w) /\ BlockedAt(w) /\ TrackedAt(w)
          /\ EligibleNodes(w) = EligibleNodes(t)
          /\ RebalanceReceivers(w) = RebalanceReceivers(t)
      BY <2>1, TrackedIsKept, Zenon DEF StoreInv
    <2>3. CurrentHolders(w) = CurrentHolders(t)
      BY <1>4, <2>1 DEF CurrentHolders
    <2>4. PlacedAt(w)
      BY <2>2, <2>3, Zenon DEF StoreInv, PlacedAt
    <2>5. ASSUME NEW x \in Vips PROVE FenceAt(w, x) /\ FenceStepAt(t, w, x)
      <3>1. FenceAt(t, x)
        BY Zenon DEF StoreInv, FencesAt
      <3>2. w.latest_probe_tick = t.latest_probe_tick
        BY <2>1, Zenon DEF SameHealth
      <3>3. /\ t.vip_generation[x] \in Nat
            /\ w.vip_generation[x] >= t.vip_generation[x]
        BY <2>1 DEF Stores
      <3>4. t.vip_assignments[x].holder # NoNode =>
                t.vip_assignments[x].holder = t.vip_last_holder[x]
        BY <3>1, Zenon DEF FenceAt
      <3>5. /\ w.vip_assignments[x].holder = t.vip_assignments[x].holder
            /\ w.vip_assignments[x].generation = t.vip_assignments[x].generation
        BY <1>4, <2>1, Zenon
      <3>6. FenceStepAt(t, w, x)
        BY <3>3, <3>4, <3>5, Zenon DEF FenceStepAt
      <3>7. CASE x # v
        <4>1. w.vip_assignments[x] = t.vip_assignments[x]
          BY <1>4, <2>1, <3>7
        <4>. QED BY <2>1, <3>1, <3>2, <3>6, <4>1, Zenon DEF FenceAt
      <3>8. CASE x = v
        <4>1. FenceAt(w, v)
          BY <1>4, <1>6, <2>1, <3>1, <3>2, <3>8, ZenonT(40) DEF FenceAt
        <4>. QED BY <3>6, <3>8, <4>1, Zenon
      <3>. QED BY <3>7, <3>8, Zenon
    <2>. QED BY <2>1, <2>2, <2>3, <2>4, <2>5, Zenon DEF StoreInv, FencesAt
  <1>. QED BY <1>1, <1>5, <1>6, Zenon

-----------------------------------------------------------------------------
(* Joins: the membership and the pending join of a state.                  *)

\* A pending join is that of the voters; a joint membership belongs to it.
JoinAt(t) ==
    LET m == t.membership
        j == t.prepared_join
        p == j.plan
    IN /\ m.old = {} => m.new = {} /\ m.learners = {} /\ j = NoJoin
       /\ j = NoJoin => m.new = m.old /\ m.learners = {}
       /\ j # NoJoin =>
             /\ p.previous_voters = m.old
             /\ p.consumer \notin p.previous_voters
             /\ p.consumer \in p.next_voters
             /\ m.learners \subseteq {p.consumer}
             /\ m.new # m.old => m.new = p.next_voters /\ m.learners = {} /\ j.learner_applied

LEMMA JoinIsKept ==
    ASSUME NEW t, NEW u, JoinAt(t), u.membership = t.membership,
           u.prepared_join = t.prepared_join
    PROVE  JoinAt(u)
  BY Zenon DEF JoinAt

LEMMA NoJoinType ==
    NoJoin \in Joins /\ NoJoin.plan.previous_voters = {} /\ NoJoin.learner_applied = FALSE
  BY Zenon DEF NoJoin, NoPlan, Joins

LEMMA PrepareJoinShape ==
    ASSUME NEW t \in Stores, JoinAt(t), NEW g \in Geneses, NEW r \in Replicas,
           NEW nonce \in Nat, NEW voters \in SUBSET Replicas,
           NEW w, w = ApplyPrepareJoin(t, PlanFor(g, r, nonce, voters))
    PROVE  /\ Quiet(t, w) /\ JoinAt(w)
           /\ w.genesis = t.genesis /\ w.applied_progress = t.applied_progress
  <1> DEFINE p == PlanFor(g, r, nonce, voters)
             no == FALSE
             n == t.joins + 1
             j == [plan |-> p, prepared |-> n, learner_applied |-> no]
  <1>1. \/ w = t
        \/ /\ w = SetJoin(t, j, n)
           /\ ValidPlan(p)
           /\ t.prepared_join = NoJoin
           /\ AtStage(t, p.previous_voters)
    BY Zenon DEF ApplyPrepareJoin, SetJoin
  <1>2. /\ p.genesis \in Geneses /\ p.consumer \in Replicas /\ p.nonce \in Nat
        /\ p.previous_voters \in SUBSET Replicas
        /\ p.next_voters \in SUBSET Replicas
        /\ p.consumer \in p.next_voters
        /\ n \in Nat /\ no \in BOOLEAN
    BY DEF PlanFor, Replacement, Stores
  <1>3. j \in Joins
    <2>1. p = [genesis |-> p.genesis, consumer |-> p.consumer, nonce |-> p.nonce,
               previous_voters |-> p.previous_voters, next_voters |-> p.next_voters]
      BY Zenon DEF PlanFor
    <2> HIDE DEF p, n, no
    <2>. QED BY <1>2, <2>1, Zenon DEF Joins
  <1>4. j.plan = p
    BY Zenon
  <1> HIDE DEF p, n, no, j
  <1>5. CASE w = t
    BY <1>5, QuietSelf, Zenon
  <1>6. CASE /\ w = SetJoin(t, j, n)
             /\ ValidPlan(p)
             /\ t.prepared_join = NoJoin
             /\ AtStage(t, p.previous_voters)
    <2>1. /\ Quiet(t, w)
          /\ w.prepared_join = j
          /\ w.membership = t.membership
          /\ w.genesis = t.genesis /\ w.applied_progress = t.applied_progress
      BY <1>2, <1>3, <1>6, WithJoin
    <2>2. j # NoJoin
      BY <1>4, <1>6, NoJoinType, Zenon DEF ValidPlan
    <2>3. JoinAt(w)
      BY <1>2, <1>4, <1>6, <2>1, <2>2, Zenon DEF JoinAt, ValidPlan, AtStage, Stable
    <2>. QED BY <2>1, <2>3, Zenon
  <1>. QED BY <1>1, <1>5, <1>6, Zenon

LEMMA LearnerAppliedShape ==
    ASSUME NEW t \in Stores, JoinAt(t), NEW r \in Replicas, NEW nonce, NEW prepared,
           NEW w, w = ApplyLearnerApplied(t, r, nonce, prepared)
    PROVE  /\ Quiet(t, w) /\ JoinAt(w)
           /\ w.genesis = t.genesis /\ w.applied_progress = t.applied_progress
  <1> DEFINE j == [t.prepared_join EXCEPT !.learner_applied = TRUE]
  <1>1. t.prepared_join \in Joins /\ t.joins \in Nat
    BY Zenon DEF Stores
  <1>2. w = t \/ (w = SetJoin(t, j, t.joins) /\ t.prepared_join # NoJoin)
    <2>1. \/ w = t
          \/ w = [t EXCEPT !.prepared_join = j] /\ t.prepared_join # NoJoin
      BY Zenon DEF ApplyLearnerApplied
    <2> HIDE DEF j
    <2>. QED BY <2>1, SameJoins, Zenon
  <1>3. /\ j \in Joins /\ j.plan = t.prepared_join.plan /\ j.learner_applied
    BY <1>1, Zenon DEF Joins
  <1> HIDE DEF j
  <1>4. CASE w = t
    BY <1>4, QuietSelf, Zenon
  <1>5. CASE w = SetJoin(t, j, t.joins) /\ t.prepared_join # NoJoin
    <2>1. /\ Quiet(t, w)
          /\ w.prepared_join = j
          /\ w.membership = t.membership
          /\ w.genesis = t.genesis /\ w.applied_progress = t.applied_progress
      BY <1>1, <1>3, <1>5, WithJoin
    <2>2. j # NoJoin
      BY <1>3, NoJoinType, Zenon
    <2>3. t.membership.old # {}
      BY <1>5, Zenon DEF JoinAt
    <2>4. JoinAt(w)
      BY <1>3, <1>5, <2>1, <2>2, <2>3, Zenon DEF JoinAt
    <2>. QED BY <2>1, <2>4, Zenon
  <1>. QED BY <1>2, <1>4, <1>5, Zenon

LEMMA CancelJoinShape ==
    ASSUME NEW t \in Stores, JoinAt(t), NEW p, NEW prepared,
           NEW w, w = ApplyCancelJoin(t, p, prepared)
    PROVE  /\ Quiet(t, w) /\ JoinAt(w)
           /\ w.genesis = t.genesis /\ w.applied_progress = t.applied_progress
  <1>1. t.joins \in Nat /\ t.membership \in Memberships
    BY Zenon DEF Stores
  <1>2. \/ w = t
        \/ /\ w = SetJoin(t, NoJoin, t.joins)
           /\ t.prepared_join # NoJoin /\ t.prepared_join.plan = p
           /\ AtStage(t, p.previous_voters)
           /\ p.consumer \notin Members(t.membership)
    BY Zenon DEF ApplyCancelJoin, SetJoin, LearnerGone, Stores
  <1>3. CASE w = t
    BY <1>3, QuietSelf, Zenon
  <1>4. CASE /\ w = SetJoin(t, NoJoin, t.joins)
             /\ t.prepared_join # NoJoin /\ t.prepared_join.plan = p
             /\ AtStage(t, p.previous_voters)
             /\ p.consumer \notin Members(t.membership)
    <2>1. /\ Quiet(t, w)
          /\ w.prepared_join = NoJoin
          /\ w.membership = t.membership
          /\ w.genesis = t.genesis /\ w.applied_progress = t.applied_progress
      BY <1>1, <1>4, NoJoinType, WithJoin
    <2>2. t.membership.learners = {}
      BY <1>1, <1>4, Zenon DEF JoinAt, Members, Voters, Memberships
    <2>3. t.membership.new = t.membership.old /\ t.membership.old # {}
      BY <1>4, Zenon DEF AtStage, Stable
    <2>4. JoinAt(w)
      BY <2>1, <2>2, <2>3, Zenon DEF JoinAt
    <2>. QED BY <2>1, <2>4, Zenon
  <1>. QED BY <1>2, <1>3, <1>4, Zenon

SetMembership(t, m, h, p, r, f, c, j) ==
    [t EXCEPT !.membership = m, !.node_health = h, !.node_probe_ticks = p,
              !.node_recovery_tick = r, !.applied_progress = f, !.completed_joins = c,
              !.prepared_join = j]

Remembered(t, u, m, h, p, r, j) ==
    /\ u.membership = m
    /\ u.node_health = h
    /\ u.node_probe_ticks = p
    /\ u.node_recovery_tick = r
    /\ u.prepared_join = j
    /\ u.latest_probe_tick = t.latest_probe_tick
    /\ u.failover_semantics = t.failover_semantics
    /\ u.node_failback_blocked = t.node_failback_blocked
    /\ u.node_nopreempt = t.node_nopreempt
    /\ u.node_recovery_pending = t.node_recovery_pending
    /\ u.genesis = t.genesis
    /\ SameFences(t, u)

LEMMA WithMembership ==
    ASSUME NEW t \in Stores, NEW m \in Memberships,
           NEW h \in [Nodes -> {"none", "up", "down"}],
           NEW p \in [Nodes -> Ticks], NEW r \in [Nodes -> Ticks],
           NEW f \in [Nodes -> Replicas \cup {NoReplica}], NEW c \in [Nodes -> Joins],
           NEW j \in Joins,
           NEW u, u = SetMembership(t, m, h, p, r, f, c, j)
    PROVE  u \in Stores /\ Remembered(t, u, m, h, p, r, j)
  BY ZenonT(40) DEF Stores, SetMembership, Remembered, SameFences

Reset(t, m, f, none) == [n \in Nodes |-> IF BootChanged(t, m, n) THEN none ELSE f[n]]

LEMMA MembershipPrepares ==
    ASSUME NEW t \in Stores, StoreInv(t), NEW m \in Memberships,
           NEW w, w = ApplyMembership(t, m)
    PROVE  \E u : /\ Prepared(t, u) /\ Recalls(t, u) /\ Vouched(t, u) /\ w = Recompute(u)
                  /\ u.membership = m
                  /\ u.prepared_join = (IF Promotes(t, m) THEN NoJoin ELSE t.prepared_join)
  <1> DEFINE h == Reset(t, m, t.node_health, "none")
             p == Reset(t, m, t.node_probe_ticks, NoTick)
             r == Reset(t, m, t.node_recovery_tick, NoTick)
             progress == Reset(t, m, t.applied_progress, NoReplica)
             f == [n \in Nodes |-> IF progress[n] \in Members(m) THEN progress[n] ELSE NoReplica]
             c == [n \in Nodes |-> IF Promotes(t, m) /\ n = t.prepared_join.plan.consumer[1]
                                   THEN t.prepared_join ELSE t.completed_joins[n]]
             j == IF Promotes(t, m) THEN NoJoin ELSE t.prepared_join
             u == SetMembership(t, m, h, p, r, f, c, j)
  <1>1. w = Recompute(u)
    BY Zenon DEF ApplyMembership, SetMembership, Reset
  <1>2. /\ t.node_health \in [Nodes -> {"none", "up", "down"}]
        /\ t.node_probe_ticks \in [Nodes -> Ticks]
        /\ t.node_recovery_tick \in [Nodes -> Ticks]
        /\ t.applied_progress \in [Nodes -> Replicas \cup {NoReplica}]
        /\ t.completed_joins \in [Nodes -> Joins]
        /\ t.prepared_join \in Joins
        /\ t.latest_probe_tick \in Nat
    BY Zenon DEF Stores
  <1>3. h \in [Nodes -> {"none", "up", "down"}]
    BY <1>2, Zenon DEF Reset
  <1>4. p \in [Nodes -> Ticks] /\ r \in [Nodes -> Ticks]
    BY <1>2, Zenon DEF Reset, Ticks
  <1>5. progress \in [Nodes -> Replicas \cup {NoReplica}]
    BY <1>2, Zenon DEF Reset
  <1>6. f \in [Nodes -> Replicas \cup {NoReplica}]
    <2> HIDE DEF progress
    <2>. QED BY <1>5, Zenon
  <1>7. c \in [Nodes -> Joins] /\ j \in Joins
    BY <1>2, NoJoinType, Zenon
  <1>8. \A n \in Nodes : p[n] <= t.latest_probe_tick /\ r[n] <= t.latest_probe_tick
    BY <1>2 DEF Reset, StoreInv, FrontierAt, NoTick
  <1>12. \A n \in Nodes :
            IF BootChanged(t, m, n)
            THEN h[n] = "none"
            ELSE /\ h[n] = t.node_health[n] /\ p[n] = t.node_probe_ticks[n]
                 /\ r[n] = t.node_recovery_tick[n]
    BY <1>2, Zenon DEF Reset
  <1> HIDE DEF h, p, r, f, c, j, u
  <1>9. u \in Stores /\ Remembered(t, u, m, h, p, r, j)
    BY <1>3, <1>4, <1>6, <1>7, WithMembership, Zenon DEF u
  <1>10. FrontierAt(u) /\ BlockedAt(u)
    BY <1>8, <1>9, Zenon DEF FrontierAt, BlockedAt, Remembered, StoreInv
  <1>11. Prepared(t, u)
    BY <1>2, <1>9, <1>10 DEF Prepared, Remembered
  <1>13. Vouched(t, u)
    BY <1>9, <1>12, Zenon DEF Vouched, Remembered, BootChanged
  <1>14. Recalls(t, u)
    <2>1. \A n \in Nodes : Serviceable(u, n) => u.node_recovery_tick[n] = t.node_recovery_tick[n]
      BY <1>9, <1>12, Zenon DEF Serviceable, IsNodeBaseEligible, Remembered
    <2>2. \A n \in Nodes : ~Fell(t, u, n)
      BY <1>9, <1>12, Zenon DEF Fell, Remembered
    <2>. QED BY <1>9, <2>1, <2>2, Zenon DEF Recalls, Marked, Remembered
  <1>. QED BY <1>1, <1>9, <1>11, <1>13, <1>14, Zenon DEF Remembered, j

\* What initialize, add_learner, change_membership and a removal ask for.
LEMMA NextMembershipCases ==
    ASSUME NEW t \in Stores, JoinAt(t), NEW m \in NextMemberships(t)
    PROVE  /\ m \in Memberships
           /\ \/ /\ t.membership.old = {}
                 /\ m.new = m.old /\ m.learners = {}
              \/ /\ t.membership.old # {} /\ t.membership.old # t.membership.new
                 /\ m.old = t.membership.new /\ m.new = t.membership.new
                 /\ m.learners = t.membership.learners
              \/ /\ t.membership.old # {} /\ t.membership.old = t.membership.new
                 /\ t.prepared_join # NoJoin
                 /\ m.old = t.membership.old
                 /\ \/ m.new = m.old /\ m.learners \subseteq {t.prepared_join.plan.consumer}
                    \/ /\ m.new = t.prepared_join.plan.next_voters
                       /\ m.learners = {}
                       /\ t.prepared_join.learner_applied
  <1>1. /\ t.membership.old \in SUBSET Replicas /\ t.membership.new \in SUBSET Replicas
        /\ t.membership.learners \in SUBSET Replicas
        /\ t.membership \in Memberships
        /\ t.prepared_join.plan.next_voters \in SUBSET Replicas
    BY Zenon DEF Stores, Memberships, Joins
  <1>2. CASE t.membership.old = {}
    <2>1. PICK g \in Geneses : m = [old |-> g.voters, new |-> g.voters, learners |-> {}]
      <3>1. NextMemberships(t) = RosterMemberships
        BY <1>2, Zenon DEF NextMemberships, JoinAt
      <3>. QED BY <3>1, Zenon DEF RosterMemberships
    <2>2. g.voters \in SUBSET Replicas
      BY ConfigAssumption
    <2>. QED BY <1>2, <2>1, <2>2, Zenon DEF Memberships
  <1>3. CASE t.membership.old # {} /\ t.membership.old # t.membership.new
    <2>1. m = [t.membership EXCEPT !.old = t.membership.new]
      BY <1>3, Zenon DEF NextMemberships
    <2>. QED BY <1>1, <1>3, <2>1, Zenon DEF Memberships
  <1>4. CASE t.membership.old # {} /\ t.membership.old = t.membership.new
    <2> DEFINE consumer == t.prepared_join.plan.consumer
               voters == t.prepared_join.plan.next_voters
    <2>1. /\ t.prepared_join # NoJoin
          /\ \/ m = [t.membership EXCEPT !.learners = t.membership.learners \cup {consumer}]
             \/ m = [t.membership EXCEPT !.learners = t.membership.learners \ {consumer}]
             \/ /\ t.prepared_join.learner_applied /\ consumer \in t.membership.learners
                /\ m = [t.membership EXCEPT !.new = voters,
                                            !.learners = t.membership.learners \ {consumer}]
      BY <1>4, Zenon DEF NextMemberships
    <2>2. /\ t.membership.learners \subseteq {consumer}
          /\ t.membership.old = t.prepared_join.plan.previous_voters
      BY <2>1, Zenon DEF JoinAt
    <2> HIDE DEF consumer, voters
    <2>3. consumer \in Replicas /\ voters \in SUBSET Replicas
      BY <1>1, <2>1, Zenon DEF JoinAt, consumer, voters
    <2>4. CASE m = [t.membership EXCEPT !.learners = t.membership.learners \cup {consumer}]
      <3>1. m.old = t.membership.old /\ m.new = t.membership.new
            /\ m.learners = t.membership.learners \cup {consumer}
        BY <1>1, <2>4 DEF Memberships
      <3>. QED BY <1>1, <1>4, <2>1, <2>2, <2>3, <3>1, Zenon DEF Memberships, consumer
    <2>5. CASE m = [t.membership EXCEPT !.learners = t.membership.learners \ {consumer}]
      BY <1>1, <1>4, <2>1, <2>2, <2>5, Zenon DEF Memberships, consumer
    <2>6. CASE /\ t.prepared_join.learner_applied /\ consumer \in t.membership.learners
               /\ m = [t.membership EXCEPT !.new = voters,
                                           !.learners = t.membership.learners \ {consumer}]
      BY <1>1, <1>4, <2>1, <2>2, <2>3, <2>6, Zenon DEF Memberships, voters
    <2>. QED BY <2>1, <2>4, <2>5, <2>6
  <1>. QED BY <1>2, <1>3, <1>4, Zenon

LEMMA MembershipGives ==
    ASSUME NEW t \in Stores, StoreInv(t), JoinAt(t), NEW m \in NextMemberships(t),
           NEW w, w = ApplyMembership(t, m)
    PROVE  /\ StoreInv(w)
           /\ \A v \in Vips : FenceStepAt(t, w, v)
           /\ Remembers(t, w) /\ Vouched(t, w)
           /\ JoinAt(w)
  <1> DEFINE j == t.prepared_join
             p == t.prepared_join.plan
  <1>0. m \in Memberships
    BY NextMembershipCases, Zenon
  <1>1. PICK u : /\ Prepared(t, u) /\ Recalls(t, u) /\ Vouched(t, u) /\ w = Recompute(u)
                 /\ u.membership = m
                 /\ u.prepared_join = (IF Promotes(t, m) THEN NoJoin ELSE t.prepared_join)
    BY <1>0, MembershipPrepares
  <1>2. /\ StoreInv(w)
        /\ \A v \in Vips : FenceStepAt(t, w, v)
        /\ w.membership = m
        /\ w.prepared_join = (IF Promotes(t, m) THEN NoJoin ELSE j)
    BY <1>1, RecomputeGives DEF SameHealth, SameAdmission
  <1>6. Remembers(t, w) /\ Vouched(t, w)
    <2>1. SameHealth(u, w) /\ SameAdmission(u, w)
      BY <1>1, RecomputeGives, Zenon
    <2>2. Vouched(t, w)
      BY <1>1, <2>1 DEF Vouched, SameHealth, SameAdmission
    <2>. QED BY <1>1, <2>2, RecomputeRemembers, Zenon
  <1>7. JoinAt(w)
    <2>3. CASE t.membership.old = {}
      <3>1. /\ m.new = m.old /\ m.learners = {}
            /\ j = NoJoin
        BY <2>3, NextMembershipCases, Zenon DEF JoinAt
      <3>. QED BY <1>2, <3>1, Zenon DEF JoinAt
    <2>4. CASE t.membership.old # {} /\ t.membership.old # t.membership.new
      <3>1. /\ m.old = p.next_voters /\ m.new = p.next_voters
            /\ m.learners = {}
            /\ p.consumer \in p.next_voters
            /\ t.prepared_join.learner_applied
        BY <2>4, NextMembershipCases, Zenon DEF JoinAt
      <3>2. Promotes(t, m)
        BY <3>1 DEF Promotes, Stable
      <3>. QED BY <1>2, <3>1, <3>2, Zenon DEF JoinAt
    <2>5. CASE t.membership.old # {} /\ t.membership.old = t.membership.new
      <3>1. /\ j # NoJoin
            /\ m.old = p.previous_voters /\ m.old # {}
            /\ p.consumer \notin p.previous_voters
            /\ p.consumer \in p.next_voters
            /\ \/ m.new = m.old /\ m.learners \subseteq {p.consumer}
               \/ m.new = p.next_voters /\ m.learners = {} /\ j.learner_applied
        BY <2>5, NextMembershipCases, ZenonT(40) DEF JoinAt
      <3>2. ~Promotes(t, m)
        BY <3>1, Zenon DEF Promotes
      <3>3. w.prepared_join = j
        BY <1>2, <3>2, Zenon
      <3> HIDE DEF j
      <3>4. m.learners \subseteq {p.consumer}
        BY <3>1
      <3>. QED BY <1>2, <3>1, <3>3, <3>4, Zenon DEF JoinAt, j
    <2>. QED BY <2>3, <2>4, <2>5, Zenon
  <1>. QED BY <1>2, <1>6, <1>7, Zenon

-----------------------------------------------------------------------------
(* The theorems.                                                           *)

IInv == StoreInv(s) /\ JoinAt(s)

LEMMA NoAssignmentType == NoAssignment \in Assignments /\ NoAssignment.holder = NoNode
  BY Zenon DEF NoAssignment, Assignments

LEMMA InitIInv == Init => IInv
  <1> SUFFICES ASSUME Init PROVE IInv
    BY Zenon
  <1>1. s = EmptyStore
    BY Zenon DEF Init
  <1>2. s \in Stores
    BY <1>1, NoAssignmentType, NoJoinType, ZenonT(40)
       DEF EmptyStore, Stores, Memberships, Ticks, NoTick, Semantics
  <1>3. FrontierAt(s) /\ BlockedAt(s) /\ TrackedAt(s)
    <2>1. FrontierAt(s)
      BY <1>1 DEF EmptyStore, FrontierAt, NoTick
    <2>2. BlockedAt(s) /\ TrackedAt(s)
      BY <1>1, Zenon DEF EmptyStore, BlockedAt, TrackedAt
    <2>. QED BY <2>1, <2>2, Zenon
  <1>4. FencesAt(s)
    BY <1>1, Zenon DEF EmptyStore, FencesAt, FenceAt, NoAssignment
  <1>5. EligibleNodes(s) = {}
    BY <1>1, Zenon DEF EmptyStore, EligibleNodes, IsNodeEligible, IsNodeBaseEligible
  <1>6. PlacedAt(s)
    <2> DEFINE next == Place(EligibleNodes(s), RebalanceReceivers(s), CurrentHolders(s))
    <2>1. next \in [Vips -> EligibleNodes(s) \cup {NoNode}]
      BY <1>2, PlaceIsHolders, Zenon
    <2>2. CurrentHolders(s) = [v \in Vips |-> NoNode]
      BY <1>1, Zenon DEF CurrentHolders, EmptyStore, NoAssignment
    <2> HIDE DEF next
    <2>3. next = [v \in Vips |-> NoNode]
      BY <1>5, <2>1, Zenon
    <2>. QED BY <2>2, <2>3, Zenon DEF PlacedAt, next
  <1>7. JoinAt(s)
    BY <1>1, Zenon DEF JoinAt, EmptyStore
  <1>. QED BY <1>2, <1>3, <1>4, <1>6, <1>7, Zenon DEF IInv, StoreInv

\* A step keeps the invariant, fences every holder change and forgets nobody
\* who failed.
Steps(t, w) ==
    /\ StoreInv(w)
    /\ \A v \in Vips : FenceStepAt(t, w, v)
    /\ Remembers(t, w)

LEMMA QuietSteps ==
    ASSUME NEW t \in Stores, StoreInv(t), NEW u, Quiet(t, u)
    PROVE  Steps(t, u)
  <1>1. Remembers(t, u)
    BY SteadyRemembers, Zenon DEF Quiet, SameFences, CurrentHolders
  <1>. QED BY <1>1, QuietGives, Zenon DEF Steps

LEMMA ShapedSteps ==
    ASSUME NEW t \in Stores, StoreInv(t), NEW u, Shaped(t, u)
    PROVE  Steps(t, u)
  <1>1. CASE Quiet(t, u)
    BY <1>1, QuietSteps, Zenon
  <1>2. CASE \E p : Prepared(t, p) /\ Recalls(t, p) /\ u = Recompute(p)
    BY <1>2, RecomputeGives, RecomputeRemembers, Zenon DEF Steps
  <1>. QED BY <1>1, <1>2, Zenon DEF Shaped

LEMMA NextGives ==
    ASSUME IInv, Next
    PROVE  IInv' /\ Steps(s, s') /\ Vouched(s, s')
  <1>0. /\ s \in Stores /\ StoreInv(s) /\ JoinAt(s)
        /\ s.membership \in Memberships /\ s.joins \in Nat
    BY Zenon DEF IInv, StoreInv, Stores
  <1>1. SUFFICES JoinAt(s') /\ Steps(s, s') /\ Vouched(s, s')
    BY Zenon DEF IInv, Steps
  <1>2. ASSUME NEW w, w = s', Shaped(s, w), Vouched(s, w),
               w.membership = s.membership, w.prepared_join = s.prepared_join
        PROVE  JoinAt(w) /\ Steps(s, w) /\ Vouched(s, w)
    BY <1>0, <1>2, ShapedSteps, JoinIsKept, Zenon
  <1>3. ASSUME NEW w, Quiet(s, w), JoinAt(w), w.genesis = s.genesis
        PROVE  JoinAt(w) /\ Steps(s, w) /\ Vouched(s, w)
    BY <1>0, <1>3, QuietSteps, VouchedAlike, Zenon DEF Quiet, SameHealth
  <1>4. CASE HealthProgress
    <2>1. PICK g \in Geneses, r \in Replicas, h \in {"none", "up", "down"} :
              s' = ApplyHealthProgress(s, g, r, h)
      BY <1>4, Zenon DEF HealthProgress
    <2>. QED BY <1>0, <1>2, <2>1, HealthProgressShape
  <1>5. CASE HealthUpdate
    <2>1. PICK n \in Nodes, h \in BOOLEAN : s' = ApplyHealthUpdate(s, n, h)
      BY <1>5, Zenon DEF HealthUpdate
    <2>. QED BY <1>0, <1>2, <2>1, HealthUpdateShape
  <1>6. CASE VipReleased
    <2>1. PICK n \in Nodes, v \in Vips : \E g \in 1 .. s.vip_generation[v] :
              s' = ApplyVipReleased(s, n, v, g)
      BY <1>6, Zenon DEF VipReleased
    <2>2. PICK g : s' = ApplyVipReleased(s, n, v, g)
      BY <2>1, Zenon
    <2>3. /\ StoreInv(s') /\ \A x \in Vips : FenceStepAt(s, s', x)
          /\ CurrentHolders(s') = CurrentHolders(s)
          /\ SameHealth(s, s') /\ SameTracking(s, s') /\ SameAdmission(s, s')
      BY <1>0, <2>2, ReleasedGives
    <2>4. JoinAt(s')
      BY <1>0, <2>3, JoinIsKept, Zenon DEF SameHealth, SameAdmission
    <2>5. Remembers(s, s')
      BY <1>0, <2>3, SteadyRemembers, Zenon DEF StoreInv
    <2>6. Vouched(s, s')
      BY <2>3, VouchedAlike, Zenon DEF SameHealth, SameAdmission
    <2>. QED BY <2>3, <2>4, <2>5, <2>6, Zenon DEF Steps
  <1>7. CASE ClusterFormed
    <2>1. PICK g \in Geneses, f \in Semantics, i \in BOOLEAN :
              s' = ApplyClusterFormed(s, g.epoch, f, i)
      BY <1>7, Zenon DEF ClusterFormed
    <2>2. g.epoch \in Nat
      BY ConfigAssumption, Zenon
    <2>3. /\ Shaped(s, s') /\ Vouched(s, s')
          /\ (s').membership = s.membership /\ (s').prepared_join = s.prepared_join
      BY <1>0, <2>1, <2>2, ClusterFormedShape
    <2>. QED BY <1>2, <2>3, Zenon
  <1>8. CASE EnableFailoverSemanticsV2
    <2>1. s' = ApplyEnableV2(s)
      BY <1>8, Zenon DEF EnableFailoverSemanticsV2
    <2>. QED BY <1>0, <1>2, <2>1, EnableV2Shape, Zenon
  <1>9. CASE EnableConfigIdentityV1
    <2>1. s' = ApplyEnableIdentity(s)
      BY <1>9, Zenon DEF EnableConfigIdentityV1
    <2>2. /\ Quiet(s, s') /\ (s').genesis = s.genesis
          /\ (s').membership = s.membership /\ (s').prepared_join = s.prepared_join
      BY <1>0, <2>1, IdentityShape, Zenon
    <2>3. JoinAt(s')
      BY <1>0, <2>2, JoinIsKept, Zenon
    <2>. QED BY <1>3, <2>2, <2>3, Zenon
  <1>10. CASE AdmissionGenesis
    <2>1. PICK g \in Geneses : s' = ApplyGenesis(s, g)
      BY <1>10, Zenon DEF AdmissionGenesis
    <2>2. \/ s' = s
          \/ \E p : /\ Prepared(s, p) /\ Recalls(s, p) /\ s' = Recompute(p)
                    /\ p.membership = s.membership /\ p.prepared_join = s.prepared_join
                    /\ p.node_health = NoHealth
      BY <1>0, <2>1, GenesisShape
    <2>3. CASE s' = s
      BY <1>0, <1>3, <2>3, QuietSelf, Zenon
    <2>4. CASE \E p : /\ Prepared(s, p) /\ Recalls(s, p) /\ s' = Recompute(p)
                      /\ p.membership = s.membership /\ p.prepared_join = s.prepared_join
                      /\ p.node_health = NoHealth
      <3>1. PICK p : /\ Prepared(s, p) /\ Recalls(s, p) /\ s' = Recompute(p)
                     /\ p.membership = s.membership /\ p.prepared_join = s.prepared_join
                     /\ p.node_health = NoHealth
        BY <2>4, Zenon
      <3>2. SameHealth(p, s') /\ SameAdmission(p, s')
        BY <1>0, <3>1, RecomputeGives, Zenon
      <3>3. Shaped(s, s')
        BY <3>1, Zenon DEF Shaped
      <3>4. Vouched(s, s')
        BY <3>1, <3>2, Zenon DEF Vouched, SameHealth, NoHealth
      <3>. QED BY <1>2, <3>1, <3>2, <3>3, <3>4, Zenon DEF SameHealth, SameAdmission
    <2>. QED BY <2>2, <2>3, <2>4, Zenon
  <1>11. CASE PrepareJoin
    <2>1. PICK g \in Geneses, r \in Replicas, voters \in {s.membership.old, s.membership.new} :
              s' = ApplyPrepareJoin(s, PlanFor(g, r, s.joins + 1, voters))
      BY <1>11, Zenon DEF PrepareJoin
    <2>2. voters \in SUBSET Replicas /\ s.joins + 1 \in Nat
      BY <1>0 DEF Memberships
    <2>3. Quiet(s, s') /\ JoinAt(s') /\ (s').genesis = s.genesis
      BY <1>0, <2>1, <2>2, PrepareJoinShape
    <2>. QED BY <1>3, <2>3, Zenon
  <1>12. CASE LearnerApplied
    <2>1. PICK r \in Replicas, p \in 1 .. s.joins : s' = ApplyLearnerApplied(s, r, p, p)
      BY <1>12, Zenon DEF LearnerApplied
    <2>2. Quiet(s, s') /\ JoinAt(s') /\ (s').genesis = s.genesis
      BY <1>0, <2>1, LearnerAppliedShape
    <2>. QED BY <1>3, <2>2, Zenon
  <1>13. CASE CancelJoin
    <2>1. PICK p \in 1 .. s.joins : s' = ApplyCancelJoin(s, s.prepared_join.plan, p)
      BY <1>13, Zenon DEF CancelJoin
    <2>2. Quiet(s, s') /\ JoinAt(s') /\ (s').genesis = s.genesis
      BY <1>0, <2>1, CancelJoinShape
    <2>. QED BY <1>3, <2>2, Zenon
  <1>14. CASE Membership
    <2>1. PICK m \in NextMemberships(s) : s' = ApplyMembership(s, m)
      BY <1>14, Zenon DEF Membership
    <2>. QED BY <1>0, <2>1, MembershipGives, Zenon DEF Steps
  <1>. QED BY <1>4, <1>5, <1>6, <1>7, <1>8, <1>9, <1>10, <1>11, <1>12, <1>13, <1>14, Zenon
              DEF Next

LEMMA NextIInv == IInv /\ [Next]_s => IInv'
  <1>1. IInv /\ Next => IInv'
    BY NextGives, Zenon
  <1>2. IInv /\ UNCHANGED s => IInv'
    BY Zenon DEF IInv
  <1>. QED BY <1>1, <1>2, Zenon

LEMMA Inductive == Spec => []IInv
  BY InitIInv, NextIInv, PTL DEF Spec

\* The replicated state keeps its shape under every entry (KafStorageState).
THEOREM TypeCorrect == Spec => []TypeOK
  <1>1. IInv => TypeOK
    BY DEF IInv, StoreInv, TypeOK
  <1>. QED BY <1>1, Inductive, PTL

\* The fencing record of every VIP agrees with its counters, for any number
\* of nodes, VIPs, boots and probe rounds (vip_logic.rs:355-421).
THEOREM FencingIsConsistent == Spec => []FencingConsistent
  <1>1. IInv => FencingConsistent
    BY Zenon DEF IInv, StoreInv, FencesAt, FenceAt, FencingConsistent
  <1>. QED BY <1>1, Inductive, PTL

\* Whatever entry moves a VIP, under legacy and V2 semantics and whatever
\* placement, the new holder has a fresh generation, waits for the last
\* holder and is held off for a probe round (vip_logic.rs:355-421).
THEOREM HolderChangesAreFenced == Spec => HolderChangeIsFenced
  <1> DEFINE Fenced == \A v \in Vips : FenceStepAt(s, s', v)
  <1>1. IInv /\ [Next]_s => [Fenced]_s
    <2>1. IInv /\ Next => Fenced
      BY NextGives, Zenon DEF Steps
    <2>. QED BY <2>1, Zenon
  <1>2. HolderChangeIsFenced <=> [][Fenced]_s
    <2>1. Fenced <=>
            \A v \in Vips :
              LET a == s.vip_assignments[v]
                  b == s'.vip_assignments[v]
                  fresh == b.holder # NoNode /\ b.generation # a.generation
              IN /\ s'.vip_generation[v] >= s.vip_generation[v]
                 /\ (b.holder # NoNode /\ b.holder # s.vip_last_holder[v]) => fresh
                 /\ fresh =>
                      /\ b.generation = s.vip_generation[v] + 1
                      /\ b.previous_holder = s.vip_last_holder[v]
                      /\ b.previous_holder_released <=> s.vip_last_holder[v] = NoNode
                      /\ s.vip_last_holder[v] # NoNode => b.activation_tick > s'.latest_probe_tick
      BY DEF FenceStepAt
    <2>. QED BY <2>1, PTL DEF HolderChangeIsFenced
  <1> HIDE DEF Fenced
  <1>. QED BY <1>1, <1>2, Inductive, PTL DEF Spec

\* No entry leaves a VIP on a node that is not an eligible voter, or without
\* a holder while there is one (state_machine.rs:251-290).
THEOREM EveryHolderIsEligible == Spec => []HoldersAreEligible
  <1>1. IInv => HoldersAreEligible
    BY HoldersAreEligibleAt DEF IInv, HoldersAreEligible
  <1>. QED BY <1>1, Inductive, PTL

\* No probe round and no recovery delay is ahead of the frontier.
THEOREM FrontierStaysMaximal == Spec => []FrontierIsMaximal
  <1>1. IInv => FrontierIsMaximal
    BY DEF IInv, StoreInv, FrontierAt, FrontierIsMaximal
  <1>. QED BY <1>1, Inductive, PTL

\* A join leaves neither a learner nor a joint membership behind, however
\* its entries and those of other joins are ordered (membership.rs:33-153).
THEOREM IdleMembershipStaysStable == Spec => []IdleMembershipIsStable
  <1>1. IInv => IdleMembershipIsStable
    BY Zenon DEF IInv, JoinAt, IdleMembershipIsStable, Initialised, Stable
  <1>. QED BY <1>1, Inductive, PTL

\* The recomputation after every entry keeps the spread that the placement
\* gives: no entry that skips it changes what the spread depends on.
THEOREM LoadStaysEven == Spec => []LoadIsEven
  <1>1. IInv => LoadIsEven
    <2> SUFFICES ASSUME IInv PROVE LoadIsEven
      BY Zenon
    <2> DEFINE load(n) == Cardinality({v \in Vips : CurrentHolders(s)[v] = n})
    <2>1. \A d \in EligibleNodes(s), r \in RebalanceReceivers(s) : load(d) <= load(r) + 1
      BY HoldersArePlaced, Zenon DEF IInv, IsPlacement
    <2>2. \A n : {v \in Vips : CurrentHolders(s)[v] = n}
                    = {v \in Vips : s.vip_assignments[v].holder = n}
      BY DEF CurrentHolders
    <2>. QED BY <2>1, <2>2, Zenon DEF LoadIsEven
  <1>. QED BY <1>1, Inductive, PTL

\* Recomputing an applied state changes nothing, whatever the log was: a
\* repeated or unrelated entry never moves a VIP, burns a generation or
\* restarts a recovery delay (state_machine.rs:251-290, vip_logic.rs:254-331).
THEOREM RecomputingIsStable == Spec => []RecomputeIsStable
  <1>1. IInv => RecomputeIsStable
    BY RecomputeAgain DEF IInv, RecomputeIsStable
  <1>. QED BY <1>1, Inductive, PTL

SetRestored(t, a, b, c, d) ==
    [t EXCEPT !["node_failback_blocked"] = a, !["node_nopreempt"] = b,
              !["node_recovery_pending"] = c, !["node_recovery_tick"] = d]

LEMMA RestoredAlike ==
    ASSUME NEW t \in Stores
    PROVE  SetRestored(t, t.node_failback_blocked, t.node_nopreempt,
                       t.node_recovery_pending, t.node_recovery_tick) = t
  BY Zenon DEF Stores, SetRestored

LEMMA RestoreGives ==
    ASSUME NEW t \in Stores, BlockedAt(t), TrackedAt(t)
    PROVE  RestoreInto(EmptyStore, Snapshot(t)) = t
  <1> DEFINE snap == Snapshot(t)
             u == [f \in DOMAIN EmptyStore |-> IF f \in DOMAIN snap THEN snap[f] ELSE EmptyStore[f]]
             v2 == snap.failover_semantics = "V2"
             a == IF v2 \/ Failback THEN {} ELSE u.node_failback_blocked
             b == IF v2 /\ Failback THEN {} ELSE u.node_nopreempt
             c == IF v2 /\ ~Failback THEN {} ELSE u.node_recovery_pending
             d == IF v2 /\ ~Failback THEN [n \in Nodes |-> NoTick] ELSE u.node_recovery_tick
  <1>1. DOMAIN EmptyStore = SnapshotFields
    BY ZenonT(40) DEF EmptyStore, SnapshotFields
  <1>2. t = [f \in SnapshotFields |-> t[f]]
    BY DEF Stores, SnapshotFields
  <1>3. snap = t
    BY <1>2, Zenon DEF Snapshot
  <1>4. u = t
    <2>1. u = [f \in SnapshotFields |-> snap[f]]
      BY <1>1, Zenon DEF Snapshot
    <2> HIDE DEF u, snap
    <2>. QED BY <1>2, <1>3, <2>1, Zenon
  <1>5. RestoreInto(EmptyStore, snap) = SetRestored(u, a, b, c, d)
    BY Zenon DEF RestoreInto, SetRestored
  <1> HIDE DEF u, snap
  <1>6. /\ a = t.node_failback_blocked /\ b = t.node_nopreempt
        /\ c = t.node_recovery_pending /\ d = t.node_recovery_tick
    BY <1>3, <1>4, Zenon DEF BlockedAt, TrackedAt, NeverTick
  <1> HIDE DEF a, b, c, d
  <1>7. RestoreInto(EmptyStore, snap) = t
    BY <1>4, <1>5, <1>6, RestoredAlike, Zenon
  <1>. QED BY <1>7, Zenon DEF snap

\* A replica that restores the snapshot of another with the same
\* configuration has the very same state, whatever the log was: what
\* restore_into drops is empty in every applied state (state.rs:146-200).
THEOREM SnapshotsAreFaithful == Spec => []SnapshotIsFaithful
  <1>1. IInv => SnapshotIsFaithful
    BY RestoreGives DEF IInv, StoreInv, SnapshotIsFaithful
  <1>. QED BY <1>1, Inductive, PTL

-----------------------------------------------------------------------------
(* The audited store.                                                      *)

\* The history variables and the fields the code keeps for the same purpose.
Waits ==
    /\ okSince \in [Nodes -> Ticks] /\ lost \in SUBSET Nodes
    /\ \A n \in Nodes : /\ okSince[n] # NoTick <=> Serviceable(s, n)
                        /\ okSince[n] <= s.latest_probe_tick
    /\ lost # {} => s.failover_semantics = "V2"
    /\ Failback => \A n \in lost :
           /\ n \in s.node_recovery_pending
           /\ Serviceable(s, n) => okSince[n] <= s.node_recovery_tick[n]

Failed == ~Failback => failedOnce \subseteq Marked(s)

Reported ==
    s.genesis # NoGenesis =>
        \A n \in Nodes : s.node_health[n] = "up" =>
            /\ s.node_probe_ticks[n] # NoTick
            /\ reporter[n] # NoReplica
            /\ reporter[n] = UniqueVoter(s.membership, n)

AuditInv == IInv /\ Waits /\ Failed /\ Reported

LEMMA AuditInitially == AuditInit => AuditInv
  <1> SUFFICES ASSUME AuditInit PROVE AuditInv
    BY Zenon
  <1>1. IInv /\ s = EmptyStore
    BY InitIInv, Zenon DEF AuditInit, Init
  <1>2. \A n \in Nodes : ~Serviceable(s, n) /\ s.node_health[n] = "none"
    BY <1>1, Zenon DEF EmptyStore, Serviceable, IsNodeBaseEligible
  <1>3. s.latest_probe_tick \in Nat
    BY <1>1, Zenon DEF IInv, StoreInv, Stores
  <1>4. Waits
    BY <1>2, <1>3 DEF AuditInit, Waits, Ticks, NoTick
  <1>5. Failed
    BY Zenon DEF AuditInit, Failed
  <1>6. Reported
    BY <1>2, Zenon DEF Reported
  <1>. QED BY <1>1, <1>4, <1>5, <1>6, Zenon DEF AuditInv

LEMMA ReportedStep ==
    ASSUME Reported, Vouched(s, s'), Observe
    PROVE  Reported'
  <1> SUFFICES ASSUME s'.genesis # NoGenesis, NEW n \in Nodes, s'.node_health[n] = "up"
               PROVE  /\ s'.node_probe_ticks[n] # NoTick
                      /\ reporter'[n] # NoReplica
                      /\ reporter'[n] = UniqueVoter(s'.membership, n)
    BY Zenon DEF Reported
  <1>1. reporter'[n] = IF s'.node_probe_ticks[n] = NoTick THEN NoReplica
                       ELSE IF s'.node_probe_ticks[n] # s.node_probe_ticks[n]
                       THEN s'.applied_progress[n]
                       ELSE reporter[n]
    BY Zenon DEF Observe
  <1>. QED BY <1>1, Zenon DEF Reported, Vouched

LEMMA FailedStep ==
    ASSUME Failed, IInv, Remembers(s, s'), Observe
    PROVE  Failed'
  <1> SUFFICES ASSUME ~Failback, NEW n \in failedOnce'
               PROVE  n \in Marked(s')
    BY Zenon DEF Failed, Marked
  <1>1. Marks(s, s') /\ failedOnce \subseteq Marked(s)
    BY Zenon DEF Remembers, Failed
  <1>2. \/ n \in failedOnce
        \/ /\ n \in Nodes /\ s'.failover_semantics = "V2"
           /\ Owner(s, n) /\ ~Serviceable(s', n)
        \/ n \in Nodes /\ Fell(s, s', n)
    BY Zenon DEF Observe, Owner, Fell
  <1>. QED BY <1>1, <1>2, Zenon DEF Marks

LEMMA WaitsStep ==
    ASSUME Waits, IInv, IInv', Remembers(s, s'), Observe
    PROVE  Waits'
  <1>0. /\ s.latest_probe_tick \in Nat /\ s'.latest_probe_tick \in Nat
        /\ s.latest_probe_tick <= s'.latest_probe_tick
        /\ s.node_recovery_tick \in [Nodes -> Ticks]
        /\ TrackedAt(s)
        /\ FailbackDelay \in Nat
    <2>1. s \in Stores /\ s' \in Stores /\ TrackedAt(s)
      BY Zenon DEF IInv, StoreInv
    <2>. QED BY <2>1, ConfigAssumption, Zenon DEF Stores, Remembers
  <1> DEFINE failed == {n \in Nodes : /\ s'.failover_semantics = "V2"
                                      /\ \E v \in Vips : s.vip_assignments[v].holder = n
                                      /\ ~Serviceable(s', n)}
             served == {n \in Nodes : /\ okSince'[n] # NoTick
                                      /\ s'.latest_probe_tick - okSince'[n] >= FailbackDelay}
  <1>1. \A n \in Nodes : okSince'[n] = IF ~Serviceable(s', n) THEN NoTick
                                       ELSE IF okSince[n] = NoTick THEN s'.latest_probe_tick
                                       ELSE okSince[n]
    BY Zenon DEF Observe
  <1>2. okSince' \in [Nodes -> Ticks]
    BY <1>0, ZenonT(40) DEF Observe, Waits, Ticks
  <1>3. \A n \in Nodes : /\ okSince'[n] # NoTick <=> Serviceable(s', n)
                         /\ okSince'[n] <= s'.latest_probe_tick
    <2> SUFFICES ASSUME NEW n \in Nodes
                 PROVE  /\ okSince'[n] # NoTick <=> Serviceable(s', n)
                        /\ okSince'[n] <= s'.latest_probe_tick
      BY Zenon
    <2>1. okSince[n] \in Ticks /\ okSince[n] <= s.latest_probe_tick
      BY Zenon DEF Waits
    <2>. QED BY <1>0, <1>1, <2>1 DEF Ticks, NoTick
  <1>4. lost' = (lost \cup failed) \ served
    BY Zenon DEF Observe
  <1>5. lost' \in SUBSET Nodes
    BY <1>4, Zenon DEF Waits
  <1>6. lost' # {} => s'.failover_semantics = "V2"
    BY <1>4, Zenon DEF Waits, Remembers
  <1>7. ASSUME Failback, NEW n \in lost'
        PROVE  /\ n \in s'.node_recovery_pending
               /\ Serviceable(s', n) => okSince'[n] <= s'.node_recovery_tick[n]
    <2>1. n \in Nodes /\ s'.failover_semantics = "V2" /\ Delays(s, s')
      BY <1>5, <1>6, <1>7, Zenon DEF Remembers
    <2>2. n \notin served
      BY <1>4, Zenon
    <2>3. CASE n \in failed
      <3>1. ~Serviceable(s', n) /\ Owner(s, n)
        BY <2>3, Zenon DEF Owner
      <3>. QED BY <2>1, <3>1, Zenon DEF Delays
    <2>4. CASE n \in lost
      <3>1. /\ s.failover_semantics = "V2" /\ n \in s.node_recovery_pending
            /\ Serviceable(s, n) => okSince[n] <= s.node_recovery_tick[n]
            /\ okSince[n] # NoTick <=> Serviceable(s, n)
            /\ okSince[n] \in Ticks
        BY <1>7, <2>1, <2>4, Zenon DEF Waits
      <3>2. s.node_recovery_tick[n] # NoTick <=> Serviceable(s, n)
        BY <1>0, <3>1, Zenon DEF TrackedAt
      <3>3. Serviceable(s', n) => okSince'[n] <= Since(s, s', n)
        <4>1. CASE Serviceable(s, n)
          BY <1>1, <2>1, <3>1, <3>2, <4>1, Zenon DEF Since
        <4>2. CASE ~Serviceable(s, n)
          BY <1>0, <1>1, <2>1, <3>1, <3>2, <4>2 DEF Since
        <4>. QED BY <4>1, <4>2, Zenon
      <3>4. Since(s, s', n) \in Int /\ okSince'[n] \in Int
        BY <1>0, <1>2, <2>1 DEF Since, Ticks, NoTick
      <3>5. ~ /\ Serviceable(s', n)
              /\ SaturatingSub(s'.latest_probe_tick, Since(s, s', n)) >= FailbackDelay
        <4> SUFFICES ASSUME Serviceable(s', n),
                            SaturatingSub(s'.latest_probe_tick, Since(s, s', n)) >= FailbackDelay
                     PROVE  FALSE
          BY Zenon
        <4>1. s'.latest_probe_tick - okSince'[n] >= FailbackDelay
          BY <1>0, <1>3, <2>1, <3>3, <3>4 DEF SaturatingSub
        <4>2. okSince'[n] # NoTick
          BY <1>3, <2>1, Zenon
        <4>. QED BY <2>1, <2>2, <4>1, <4>2, Zenon
      <3>6. \/ ~Serviceable(s', n) /\ n \in s'.node_recovery_pending
            \/ /\ Serviceable(s', n) /\ n \in s'.node_recovery_pending
               /\ s'.node_recovery_tick[n] = Since(s, s', n)
        BY <2>1, <3>1, <3>5, Zenon DEF Delays
      <3>. QED BY <3>3, <3>6, Zenon
    <2>. QED BY <1>4, <2>3, <2>4, Zenon
  <1>. QED BY <1>2, <1>3, <1>5, <1>6, <1>7, Zenon DEF Waits

LEMMA AuditInductive == AuditInv /\ [AuditNext]_auditVars => AuditInv'
  <1> SUFFICES ASSUME AuditInv, [AuditNext]_auditVars PROVE AuditInv'
    BY Zenon
  <1>1. CASE AuditNext
    <2>1. IInv' /\ Remembers(s, s') /\ Vouched(s, s') /\ Observe
      BY <1>1, NextGives, Zenon DEF AuditInv, AuditNext, Steps
    <2>. QED BY <2>1, WaitsStep, FailedStep, ReportedStep, Zenon DEF AuditInv
  <1>2. CASE UNCHANGED auditVars
    BY <1>2, Zenon DEF AuditInv, IInv, Waits, Failed, Reported, auditVars
  <1>. QED BY <1>1, <1>2, Zenon

LEMMA AuditInvariance == AuditSpec => []AuditInv
  BY AuditInitially, AuditInductive, PTL DEF AuditSpec

\* Under a genesis nothing but the word of the boot that is now the unique
\* voter of a node makes it healthy, whatever joins, replacements and reports
\* of earlier boots the log holds (membership.rs:120-131).
THEOREM HealthComesFromTheVoter == AuditSpec => []HealthIsFromVotingBoot
  <1>1. AuditInv => HealthIsFromVotingBoot
    BY DEF AuditInv, Reported, HealthIsFromVotingBoot
  <1>. QED BY <1>1, AuditInvariance, PTL

\* A node that failed as an owner is a holder again only after it has been
\* serviceable for the whole failback delay (state_machine.rs:93-121).
THEOREM FailedOwnersWait == AuditSpec => []LostOwnersWait
  <1>1. AuditInv => LostOwnersWait
    <2> SUFFICES ASSUME AuditInv, Failback, NEW v \in Vips, s.vip_assignments[v].holder \in lost
                 PROVE  FALSE
      BY Zenon DEF LostOwnersWait
    <2> DEFINE n == s.vip_assignments[v].holder
    <2>1. s \in Stores /\ StoreInv(s) /\ TrackedAt(s) /\ Waits
      BY Zenon DEF AuditInv, IInv, StoreInv
    <2>2. /\ n \in lost /\ n \in Nodes /\ n # NoNode /\ n \in s.node_recovery_pending
          /\ s.failover_semantics = "V2"
      BY <2>1, NodesAssumption, ZenonT(40) DEF Waits, NoNode
    <2>3. n \in EligibleNodes(s)
      BY <2>1, <2>2, HoldersAreEligibleAt, Zenon
    <2> HIDE DEF n
    <2>4. Serviceable(s, n)
      BY <2>1, <2>3, EligibleIsServiceable, Zenon
    <2>5. /\ s.node_recovery_tick[n] # NoTick
          /\ SaturatingSub(s.latest_probe_tick, s.node_recovery_tick[n]) < FailbackDelay
      BY <2>1, <2>2, <2>4, Zenon DEF TrackedAt
    <2>. QED BY <2>3, <2>5 DEF EligibleNodes, IsNodeEligible
  <1>. QED BY <1>1, AuditInvariance, PTL

\* Without failback a node that ever failed is never given a VIP of an
\* eligible holder, also when the failure was recorded under the legacy
\* semantics and the move happens under V2 (state_machine.rs:45-61,
\* vip_logic.rs:326-349).
THEOREM NobodyFailedPreempts == AuditSpec => FailedNeverPreempts
  <1> DEFINE Polite ==
        \A v \in Vips :
            LET old == s.vip_assignments[v].holder
                new == s'.vip_assignments[v].holder
            IN (~Failback /\ new # old /\ new \in failedOnce') => old \notin EligibleNodes(s')
  <1>1. AuditInv /\ AuditInv' /\ [AuditNext]_auditVars => [Polite]_auditVars
    <2> SUFFICES ASSUME AuditInv, AuditInv', AuditNext PROVE Polite
      BY Zenon
    <2>1. Preempts(s, s')
      BY NextGives, Zenon DEF AuditInv, AuditNext, Steps, Remembers
    <2>2. ~Failback => failedOnce' \subseteq Marked(s')
      BY Zenon DEF AuditInv, Failed, Marked
    <2>3. RebalanceReceivers(s') \cap Marked(s') = {}
      BY Zenon DEF RebalanceReceivers, Marked, EligibleNodes, IsNodeEligible
    <2>. QED BY <2>1, <2>2, <2>3, Zenon DEF Preempts
  <1>2. FailedNeverPreempts <=> [][Polite]_auditVars
    BY Zenon DEF FailedNeverPreempts
  <1> HIDE DEF Polite
  <1>. QED BY <1>1, <1>2, AuditInvariance, PTL DEF AuditSpec

=============================================================================
