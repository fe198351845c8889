-------------------------- MODULE VipHandoff_proofs --------------------------
(***************************************************************************)
(* The handoff of a VIP is safe for any number of members, any lifetime of *)
(* a proof, any cleanup budget and any lag of a member: a committed        *)
(* release is true, and a member that adds the address finds its           *)
(* predecessor gone.  VipWorkers_proofs has the invariant and the steps of *)
(* the members; this module adds the store, the entries that the members   *)
(* commit and the theorems.                                                *)
(***************************************************************************)
EXTENDS VipHandoff, VipWorkers_proofs

-----------------------------------------------------------------------------
(* The store.  Nothing is assumed of the placement.                        *)

\* What a recomputation leaves alone.
Kept(t, u) ==
    /\ u.genesis = t.genesis /\ u.cluster_epoch = t.cluster_epoch
    /\ u.membership = t.membership
    /\ u.node_probe_ticks = t.node_probe_ticks /\ u.latest_probe_tick = t.latest_probe_tick

\* The stores agree on what the handoff depends on.
SameCore(t, u) ==
    /\ DOMAIN u = DOMAIN t
    /\ Kept(t, u)
    /\ u.vip_assignments = t.vip_assignments /\ u.vip_generation = t.vip_generation
    /\ u.vip_last_holder = t.vip_last_holder

\* The fields of a store are those of KafStorageState.
LEMMA TheFields == DOMAIN Store!EmptyStore = Fields
  BY Zenon DEF Store!EmptyStore, Fields

\* There is a VIP to hand off.
LEMMA VipIsOne == Vip \in Vips
  BY TimeAssumption, Zenon DEF Vip

\* update_v2_failback_tracking does not touch what the handoff depends on.
LEMMA TrackingKeepsCore ==
    ASSUME NEW t, DOMAIN t = Fields
    PROVE  SameCore(t, Store!UpdateV2FailbackTracking(t))
  BY Zenon DEF Fields, SameCore, Kept, Store!UpdateV2FailbackTracking

\* An assignment is kept, dropped, or new and then not released.
Reassigned(a, b) ==
    b = a \/ b.holder = NoNode
          \/ (b.previous_holder_released => b.previous_holder = NoNode)

\* What a recomputation does to the VIP.
Advances(t, u) ==
    /\ t.vip_generation[Vip] <= u.vip_generation[Vip]
    /\ t.vip_generation[Vip] = u.vip_generation[Vip] =>
           t.vip_last_holder[Vip] = u.vip_last_holder[Vip]
    /\ Reassigned(t.vip_assignments[Vip], u.vip_assignments[Vip])

\* reconcile_vip_assignments advances the VIP, whatever the placement is.
LEMMA ReconcileAdvances ==
    ASSUME NEW t, NEW next, StoreOK(t)
    PROVE  LET u == Store!ReconcileVipAssignments(t, next)
           IN StoreOK(u) /\ Advances(t, u) /\ Kept(t, u)
<1> DEFINE u == Store!ReconcileVipAssignments(t, next)
           a == t.vip_assignments[Vip]
           b == u.vip_assignments[Vip]
<1>1. DOMAIN t = Fields
  BY Zenon DEF StoreOK
<1>2. /\ DOMAIN u = Fields /\ Kept(t, u)
      /\ DOMAIN u.vip_assignments = Vips /\ DOMAIN u.vip_generation = Vips
      /\ DOMAIN u.vip_last_holder = Vips
  BY <1>1, Zenon DEF Fields, Kept, Store!ReconcileVipAssignments
<1>3. CASE next[Vip] = a.holder
  <2>1. b = a /\ u.vip_generation[Vip] = t.vip_generation[Vip]
    BY <1>1, <1>3, VipIsOne, Zenon DEF Fields, Store!ReconcileVipAssignments, NoNode, Store!NoNode
  <2>2. u.vip_last_holder[Vip] = t.vip_last_holder[Vip]
    BY <1>1, <1>3, VipIsOne, Zenon
    DEF Fields, StoreOK, Store!ReconcileVipAssignments, Store!Predecessor, NoNode, Store!NoNode
  <2>. QED
    BY <1>2, <2>1, <2>2 DEF StoreOK, Kept, Advances, Reassigned
<1>4. CASE next[Vip] # a.holder /\ next[Vip] = NoNode
  <2>1. b = Store!NoAssignment /\ u.vip_generation[Vip] = t.vip_generation[Vip]
    BY <1>1, <1>4, VipIsOne, Zenon DEF Fields, Store!ReconcileVipAssignments, NoNode, Store!NoNode
  <2>2. u.vip_last_holder[Vip] = t.vip_last_holder[Vip]
    BY <1>1, <1>4, VipIsOne, Zenon
    DEF Fields, StoreOK, Store!ReconcileVipAssignments, Store!Predecessor, NoNode, Store!NoNode
  <2>3. Assigned(Store!NoAssignment) /\ Store!NoAssignment.holder = NoNode
    BY Zenon DEF Assigned, Store!NoAssignment, NoNode, Store!NoNode
  <2>. QED
    BY <1>2, <2>1, <2>2, <2>3 DEF StoreOK, Kept, Advances, Reassigned
<1>5. CASE next[Vip] # a.holder /\ next[Vip] # NoNode
  <2>1. /\ b = Store!FencedAssignment(t, Vip, next[Vip])
        /\ u.vip_generation[Vip] = t.vip_generation[Vip] + 1
        /\ u.vip_last_holder[Vip] = next[Vip]
    BY <1>1, <1>5, VipIsOne, Zenon
    DEF Fields, Store!ReconcileVipAssignments, Store!NextGeneration, NoNode, Store!NoNode
  <2>2. b.holder = next[Vip] /\ b.generation = t.vip_generation[Vip] + 1
    BY <2>1 DEF Store!FencedAssignment, Store!NextGeneration
  <2>3. b.previous_holder_released <=> b.previous_holder = NoNode
    <3>1. b.previous_holder = Store!Predecessor(t, Vip)
      BY <2>1 DEF Store!FencedAssignment
    <3>2. b.previous_holder_released = (Store!Predecessor(t, Vip) = Store!NoNode)
      BY <2>1 DEF Store!FencedAssignment
    <3>3. Store!NoNode = NoNode
      BY Zenon DEF NoNode, Store!NoNode
    <3>. QED
      BY <3>1, <3>2, <3>3, Zenon
  <2>4. Assigned(b)
    <3>1. t.vip_generation[Vip] + 1 \in Nat
      BY DEF StoreOK
    <3>2. (Store!Predecessor(t, Vip) = Store!NoNode) \in BOOLEAN
      BY Zenon
    <3>. QED
      BY <2>1, <3>1, <3>2 DEF Store!FencedAssignment, Store!NextGeneration, Assigned
  <2>. QED
    BY <1>2, <2>1, <2>2, <2>3, <2>4 DEF StoreOK, Kept, Advances, Reassigned
<1>. QED
  BY <1>2, <1>3, <1>4, <1>5, Zenon

\* The recompute block at the end of apply_one.
LEMMA RecomputeAdvances ==
    ASSUME NEW t, StoreOK(t)
    PROVE  LET u == Store!Recompute(t)
           IN StoreOK(u) /\ Advances(t, u) /\ Kept(t, u)
<1> DEFINE w == IF t.failover_semantics = "V2" THEN Store!UpdateV2FailbackTracking(t) ELSE t
           next == AssignVips(Store!EligibleNodes(w), Store!RebalanceReceivers(w),
                              Store!CurrentHolders(w))
<1>1. SameCore(t, w)
  BY TrackingKeepsCore, Zenon DEF StoreOK, SameCore, Kept
<1>2. StoreOK(w)
  BY <1>1, Zenon DEF StoreOK, SameCore, Kept
<1>3. Store!Recompute(t) = Store!ReconcileVipAssignments(w, next)
  BY Zenon DEF Store!Recompute
<1> HIDE DEF w, next
<1>. QED
  BY <1>1, <1>2, <1>3, ReconcileAdvances DEF SameCore, Kept, Advances

\* A report moves its member's tick, and only that.
LEMMA ReportAdvances ==
    ASSUME StoreOK(store), InForce(store), NEW n \in Nodes, NEW word \in {"up", "down"}
    PROVE  LET t == Report(n, word)
           IN /\ StoreOK(t) /\ InForce(t) /\ Advances(store, t)
              /\ t.node_probe_ticks[n] > store.node_probe_ticks[n]
              /\ \A m \in Nodes \ {n} : t.node_probe_ticks[m] = store.node_probe_ticks[m]
<1> DEFINE r == <<n, Boot>>
           u == [store EXCEPT !.applied_progress[r[1]] = r]
           healthy == Store!CountsAsHealthy(store, r, word)
           w == Store!ApplyHealth(u, r[1], healthy)
           t == Report(n, word)
<1>1. DOMAIN store = Fields
  BY Zenon DEF StoreOK
<1>2. t = Store!Recompute(w)
  <2>1. r \in Store!Members(store.membership)
    BY DEF InForce, Roster, Store!Members, Store!Voters
  <2>. QED
    BY <2>1, Zenon DEF Report, Store!ApplyHealthProgress, Store!AfterHealth, InForce
<1>3. SameCore(store, u)
  BY <1>1, Zenon DEF Fields, SameCore, Kept
<1>4. store.node_probe_ticks \in Ticks /\ store.latest_probe_tick \in Int
  BY Zenon DEF StoreOK
<1> DEFINE tick == Store!NextProbeTick(u, n)
<1>5. tick \in Int /\ tick > store.node_probe_ticks[n]
  BY <1>3, <1>4 DEF SameCore, Kept, Ticks, Store!NextProbeTick, Store!NoTick
<1>6. /\ DOMAIN w = Fields /\ w.genesis = store.genesis
      /\ w.membership = store.membership
      /\ w.vip_assignments = store.vip_assignments
      /\ w.vip_generation = store.vip_generation
      /\ w.vip_last_holder = store.vip_last_holder
      /\ w.node_probe_ticks = [store.node_probe_ticks EXCEPT ![n] = tick]
      /\ w.latest_probe_tick = tick
  <2> HIDE DEF u, healthy
  <2>. QED
    BY <1>1, <1>3, Zenon DEF Fields, SameCore, Kept, Store!ApplyHealth
<1>7. StoreOK(w)
  BY <1>4, <1>5, <1>6 DEF StoreOK, Ticks
<1>8. /\ w.node_probe_ticks[n] > store.node_probe_ticks[n]
      /\ \A m \in Nodes \ {n} : w.node_probe_ticks[m] = store.node_probe_ticks[m]
  BY <1>4, <1>5, <1>6, Zenon DEF Ticks
<1>9. StoreOK(t) /\ Advances(w, t) /\ Kept(w, t)
  BY <1>2, <1>7, RecomputeAdvances, Zenon
<1> HIDE DEF w
<1>. QED
  BY <1>6, <1>8, <1>9 DEF InForce, Advances, Kept

\* A release changes the flag of the assignment it names, and nothing else.
LEMMA ReleaseKeeps ==
    ASSUME StoreOK(store), InForce(store), NEW n, NEW g
    PROVE  LET t == Release(n, g)
               a == store.vip_assignments[Vip]
               b == t.vip_assignments[Vip]
           IN /\ StoreOK(t) /\ InForce(t)
              /\ t.vip_generation = store.vip_generation
              /\ t.vip_last_holder = store.vip_last_holder
              /\ t.node_probe_ticks = store.node_probe_ticks
              /\ \/ b = a
                 \/ b.generation = g /\ b.previous_holder = n
<1> DEFINE t == Release(n, g)
           a == store.vip_assignments[Vip]
           b == t.vip_assignments[Vip]
<1>1. CASE ~Store!ReleaseMatches(a, n, g)
  BY <1>1, Zenon DEF Release, Store!ApplyVipReleased
<1>2. CASE Store!ReleaseMatches(a, n, g)
  <2>1. DOMAIN store = Fields
    BY Zenon DEF StoreOK
  <2>2. t = [store EXCEPT !.vip_assignments[Vip].previous_holder_released = TRUE]
    BY <1>2, Zenon DEF Release, Store!ApplyVipReleased
  <2>3. /\ DOMAIN t = Fields /\ Kept(store, t)
        /\ t.vip_generation = store.vip_generation
        /\ t.vip_last_holder = store.vip_last_holder
        /\ t.vip_assignments =
               [store.vip_assignments EXCEPT ![Vip].previous_holder_released = TRUE]
    BY <2>1, <2>2 DEF Fields, Kept
  <2>4. b = [a EXCEPT !.previous_holder_released = TRUE] /\ DOMAIN t.vip_assignments = Vips
    BY <2>3, VipIsOne, Zenon DEF StoreOK
  <2>5. Assigned(a)
    BY Zenon DEF StoreOK
  <2>6. /\ b.holder = a.holder /\ b.generation = a.generation
        /\ b.previous_holder = a.previous_holder
    BY <2>4, <2>5, Zenon DEF Assigned
  <2>7. Assigned(b)
    BY <2>4, <2>5, Zenon DEF Assigned
  <2>8. b.generation = g /\ b.previous_holder = n
    BY <1>2, <2>6, Zenon DEF Store!ReleaseMatches
  <2>. QED
    BY <2>3, <2>4, <2>6, <2>7, <2>8, Zenon DEF StoreOK, InForce, Kept
<1>. QED
  BY <1>1, <1>2, Zenon

\* No assignment has been released yet.
NoneReleased(t) ==
    LET a == t.vip_assignments[Vip]
    IN a.holder = NoNode \/ (a.previous_holder_released => a.previous_holder = NoNode)

\* A recomputation during formation.
LEMMA FormationStep ==
    ASSUME NEW t, StoreOK(t), NoneReleased(t)
    PROVE  LET u == Store!Recompute(t)
           IN StoreOK(u) /\ NoneReleased(u) /\ Kept(t, u)
  BY RecomputeAdvances, Zenon DEF NoneReleased, Advances, Reassigned

\* A round of reports before the first handoff.
LEMMA RoundStep ==
    ASSUME NEW t, StoreOK(t), NoneReleased(t), InForce(t), NEW tick \in Int
    PROVE  StoreOK(Round(t, tick)) /\ NoneReleased(Round(t, tick)) /\ InForce(Round(t, tick))
<1> DEFINE u == [t EXCEPT !.node_health = [n \in Nodes |-> "up"],
                          !.node_probe_ticks = [n \in Nodes |-> tick],
                          !.latest_probe_tick = tick,
                          !.applied_progress = [n \in Nodes |-> <<n, Boot>>]]
<1>1. /\ DOMAIN u = DOMAIN t /\ u.genesis = t.genesis /\ u.membership = t.membership
      /\ u.vip_assignments = t.vip_assignments /\ u.vip_generation = t.vip_generation
      /\ u.vip_last_holder = t.vip_last_holder
      /\ u.node_probe_ticks = [n \in Nodes |-> tick] /\ u.latest_probe_tick = tick
  BY Zenon DEF StoreOK, Fields
<1>2. Round(t, tick) = Store!Recompute(u)
  BY Zenon DEF Round
<1> HIDE DEF u
<1>3. StoreOK(u) /\ NoneReleased(u)
  BY <1>1, Zenon DEF StoreOK, NoneReleased, Ticks
<1>. QED
  BY <1>1, <1>2, <1>3, FormationStep DEF InForce, Kept

\* The cluster that Init starts from.
LEMMA ReportedOK == StoreOK(Reported) /\ InForce(Reported) /\ NoneReleased(Reported)
<1> DEFINE m == [old |-> Roster, new |-> Roster, learners |-> {}]
           t0 == Store!EmptyStore
           t1 == Store!ApplyMembership(t0, m)
<1>1. /\ StoreOK(t0) /\ NoneReleased(t0) /\ t0.genesis = Store!NoGenesis
      /\ t0.cluster_epoch = 0
  <2>1. Assigned(Store!NoAssignment) /\ Store!NoAssignment.holder = NoNode
    BY Zenon DEF Assigned, Store!NoAssignment, NoNode, Store!NoNode
  <2>2. /\ t0.vip_assignments = [v \in Vips |-> Store!NoAssignment]
        /\ t0.vip_generation = [v \in Vips |-> 0]
        /\ t0.vip_last_holder = [v \in Vips |-> Store!NoNode]
        /\ t0.node_probe_ticks = [n \in Nodes |-> -1] /\ t0.latest_probe_tick = 0
        /\ t0.genesis = Store!NoGenesis /\ t0.cluster_epoch = 0
    BY Zenon DEF Store!EmptyStore, Store!NoTick
  <2>. QED
    BY <2>1, <2>2, TheFields, VipIsOne DEF StoreOK, NoneReleased, Ticks
<1>2. StoreOK(t1) /\ NoneReleased(t1) /\ t1.genesis = Store!NoGenesis
      /\ t1.cluster_epoch = 0 /\ t1.membership = m
  <2> HIDE DEF m
  <2> DEFINE reset(f, none) ==
                 [n \in Nodes |-> IF Store!BootChanged(t0, m, n) THEN none ELSE f[n]]
             progress == reset(t0.applied_progress, Store!NoReplica)
             promotes == Store!Promotes(t0, m)
             consumer == t0.prepared_join.plan.consumer
             u == [t0 EXCEPT
                     !.membership = m,
                     !.node_health = reset(@, "none"),
                     !.node_probe_ticks = reset(@, Store!NoTick),
                     !.node_recovery_tick = reset(@, Store!NoTick),
                     !.applied_progress =
                         [n \in Nodes |-> IF progress[n] \in Store!Members(m)
                                          THEN progress[n] ELSE Store!NoReplica],
                     !.completed_joins =
                         [n \in Nodes |-> IF promotes /\ n = consumer[1]
                                          THEN t0.prepared_join ELSE @[n]],
                     !.prepared_join = IF promotes THEN Store!NoJoin ELSE @]
  <2>0. t1 = Store!Recompute(u)
    BY Zenon DEF Store!ApplyMembership
  <2>1. /\ DOMAIN u = DOMAIN t0 /\ u.genesis = t0.genesis
        /\ u.cluster_epoch = t0.cluster_epoch /\ u.membership = m
        /\ u.node_probe_ticks = reset(t0.node_probe_ticks, Store!NoTick)
        /\ u.latest_probe_tick = t0.latest_probe_tick
        /\ u.vip_assignments = t0.vip_assignments
        /\ u.vip_generation = t0.vip_generation
        /\ u.vip_last_holder = t0.vip_last_holder
    BY TheFields, Zenon DEF Fields
  <2> HIDE DEF u
  <2>2. u.node_probe_ticks \in Ticks
    BY <1>1, <2>1 DEF StoreOK, Ticks, Store!NoTick
  <2>3. StoreOK(u) /\ NoneReleased(u)
    BY <1>1, <2>1, <2>2, Zenon DEF StoreOK, NoneReleased
  <2>. QED
    BY <1>1, <2>0, <2>1, <2>3, FormationStep DEF Kept
<1>3. StoreOK(Formed) /\ NoneReleased(Formed) /\ InForce(Formed)
  <2> HIDE DEF m, t1
  <2> DEFINE fresh == [t1 EXCEPT !.node_health = [n \in Nodes |-> "none"],
                                !.node_probe_ticks = [n \in Nodes |-> Store!NoTick],
                                !.node_recovery_tick = [n \in Nodes |-> Store!NoTick],
                                !.applied_progress = [n \in Nodes |-> Store!NoReplica]]
             u == [Store!ActivateV2(fresh) EXCEPT !.config_identity_enforced = TRUE,
                                                  !.genesis = Cohort,
                                                  !.cluster_epoch = Cohort.epoch]
  <2>0. Store!ApplyGenesis(t1, Cohort) = Store!Recompute(u)
    BY <1>2, Zenon DEF Store!ApplyGenesis
  <2>1. /\ DOMAIN u = DOMAIN t1 /\ u.genesis = Cohort /\ u.membership = m
        /\ u.node_probe_ticks = [n \in Nodes |-> Store!NoTick]
        /\ u.latest_probe_tick = t1.latest_probe_tick
        /\ u.vip_assignments = t1.vip_assignments
        /\ u.vip_generation = t1.vip_generation
        /\ u.vip_last_holder = t1.vip_last_holder
    <3>1. DOMAIN t1 = Fields
      BY <1>2, Zenon DEF StoreOK
    <3>2. /\ DOMAIN fresh = Fields /\ fresh.membership = m
          /\ fresh.node_probe_ticks = [n \in Nodes |-> Store!NoTick]
          /\ fresh.latest_probe_tick = t1.latest_probe_tick
          /\ fresh.vip_assignments = t1.vip_assignments
          /\ fresh.vip_generation = t1.vip_generation
          /\ fresh.vip_last_holder = t1.vip_last_holder
      BY <1>2, <3>1, Zenon DEF Fields
    <3> HIDE DEF fresh
    <3> DEFINE a == Store!ActivateV2(fresh)
    <3>3. /\ DOMAIN a = Fields /\ a.membership = m
          /\ a.node_probe_ticks = [n \in Nodes |-> Store!NoTick]
          /\ a.latest_probe_tick = t1.latest_probe_tick
          /\ a.vip_assignments = t1.vip_assignments
          /\ a.vip_generation = t1.vip_generation
          /\ a.vip_last_holder = t1.vip_last_holder
      BY <3>2, Zenon DEF Store!ActivateV2, Fields
    <3> HIDE DEF a
    <3>4. u = [a EXCEPT !.config_identity_enforced = TRUE, !.genesis = Cohort,
                        !.cluster_epoch = Cohort.epoch]
      BY Zenon DEF a
    <3>. QED
      BY <3>1, <3>3, <3>4, Zenon DEF Fields
  <2> HIDE DEF u
  <2>2. StoreOK(u) /\ NoneReleased(u)
    BY <1>2, <2>1 DEF StoreOK, NoneReleased, Ticks, Store!NoTick
  <2>4. Formed = Store!ApplyGenesis(t1, Cohort)
    BY Zenon DEF Formed, m, t1
  <2>. QED
    BY <2>0, <2>1, <2>2, <2>4, FormationStep DEF InForce, Kept, m
<1>4. StoreOK(Round(Formed, 1)) /\ NoneReleased(Round(Formed, 1)) /\ InForce(Round(Formed, 1))
  BY <1>3, RoundStep
<1>. QED
  BY <1>4, RoundStep DEF Reported

-----------------------------------------------------------------------------
(* The entries that the members commit.                                    *)

\* A report that is committed.
LEMMA ReportCommitted ==
    ASSUME IInv, NEW n \in Nodes, NEW word \in {"up", "down"}, Commit(Report(n, word))
    PROVE  /\ LogStep /\ TellsTruly /\ \A m \in Nodes : View(m)' = View(m)
           /\ Report(n, word).node_probe_ticks[n] \in Int
           /\ Report(n, word).node_probe_ticks[n] > store.node_probe_ticks[n]
<1> DEFINE t == Report(n, word)
<1>1. /\ StoreOK(store) /\ InForce(store) /\ Views
  BY Zenon DEF IInv, Views
<1>2. /\ StoreOK(t) /\ InForce(t) /\ Advances(store, t)
      /\ t.node_probe_ticks[n] > store.node_probe_ticks[n]
      /\ \A m \in Nodes \ {n} : t.node_probe_ticks[m] = store.node_probe_ticks[m]
  BY <1>1, ReportAdvances, Zenon
<1> HIDE DEF t
<1>3. store.node_probe_ticks \in Ticks /\ t.node_probe_ticks \in Ticks
  BY <1>1, <1>2, Zenon DEF StoreOK
<1>4. Older(ViewOf(store), ViewOf(t))
  <2>1. \A m \in Nodes : store.node_probe_ticks[m] <= t.node_probe_ticks[m]
    BY <1>2, <1>3 DEF Ticks
  <2>. QED
    BY <1>2, <2>1, Zenon DEF Older, ViewOf, Advances
<1>5. LogStep /\ store' = t /\ \A m \in Nodes : View(m)' = View(m)
  BY <1>1, <1>2, <1>4, LogCommitted, Zenon DEF t
<1>6. TellsTruly
  <2> SUFFICES ASSUME NEW w \in Recorded', NEW m \in Nodes, SaysReleased(w.assigned, m),
                      w \notin Recorded
               PROVE  \E v \in Recorded : v.assigned = w.assigned
    BY Zenon DEF TellsTruly
  <2>1. w = ViewOf(t)
    BY <1>5, Zenon DEF LogStep
  <2>2. t.vip_assignments[Vip] = store.vip_assignments[Vip]
    BY <1>2, <2>1, NodesAssumption, Zenon
    DEF Advances, Reassigned, SaysReleased, ViewOf, NoNode
  <2>. QED
    BY <1>1, <2>1, <2>2, MembersRead, Zenon DEF ViewOf
<1>. QED
  BY <1>2, <1>3, <1>5, <1>6, Zenon DEF t, Ticks

\* A true release that is committed.
LEMMA ReleaseCommitted ==
    ASSUME IInv, NEW n \in Nodes, NEW g, Gone(n, g), Commit(Release(n, g))
    PROVE  LogStep /\ TellsTruly /\ \A m \in Nodes : View(m)' = View(m)
<1> DEFINE t == Release(n, g)
<1>1. StoreOK(store) /\ InForce(store) /\ Views
  BY Zenon DEF IInv, Views
<1>2. /\ StoreOK(t) /\ InForce(t)
      /\ t.vip_generation = store.vip_generation
      /\ t.vip_last_holder = store.vip_last_holder
      /\ t.node_probe_ticks = store.node_probe_ticks
      /\ \/ t.vip_assignments[Vip] = store.vip_assignments[Vip]
         \/ t.vip_assignments[Vip].generation = g /\ t.vip_assignments[Vip].previous_holder = n
  BY <1>1, ReleaseKeeps
<1> HIDE DEF t
<1>3. Older(ViewOf(store), ViewOf(t))
  <2>1. store.vip_generation[Vip] \in Nat /\ store.node_probe_ticks \in Ticks
    BY <1>1, Zenon DEF StoreOK
  <2>. QED
    BY <1>2, <2>1 DEF Older, ViewOf, Ticks
<1>4. LogStep /\ store' = t /\ \A m \in Nodes : View(m)' = View(m)
  BY <1>1, <1>2, <1>3, LogCommitted, Zenon DEF t
<1>5. TellsTruly
  <2> SUFFICES ASSUME NEW w \in Recorded', NEW m \in Nodes, SaysReleased(w.assigned, m),
                      w \notin Recorded
               PROVE  \/ \E v \in Recorded : v.assigned = w.assigned
                      \/ Gone(m, w.assigned.generation)
    BY Zenon DEF TellsTruly
  <2>1. w.assigned = t.vip_assignments[Vip]
    BY <1>4 DEF LogStep, ViewOf
  <2>2. CASE w.assigned = store.vip_assignments[Vip]
    BY <1>1, <2>2, MembersRead, Zenon DEF ViewOf
  <2>3. CASE w.assigned.generation = g /\ w.assigned.previous_holder = n
    BY <2>3, Zenon DEF SaysReleased
  <2>. QED
    BY <1>2, <2>1, <2>2, <2>3, Zenon
<1>. QED
  BY <1>4, <1>5, Zenon

LEMMA CommitReportKeeps ==
    ASSUME IInv, NEW n \in Nodes, CommitReport(n)
    PROVE  MemberStep
<1> DEFINE word == Word(request[n].up)
           tick == Report(n, word).node_probe_ticks[n]
           r == [request[n] EXCEPT !.phase = "committed", !.tick = tick]
<1>1. Total /\ Shape(n)
  BY Zenon DEF IInv, Types
<1>2. word \in {"up", "down"}
  BY Zenon DEF Word
<1>3. LogStep /\ TellsTruly /\ tick \in Int /\ tick > store.node_probe_ticks[n]
  BY <1>2, ReportCommitted, Zenon DEF CommitReport
<1>4. Freshens(n) /\ proof'[n].left <= proof[n].left /\ UNCHANGED <<waiting, kernel>>
  BY <1>1, FreshnessStays, Zenon DEF CommitReport, worker
<1>5. request' = [request EXCEPT ![n] = r]
  BY <1>1, Zenon DEF CommitReport, Total
<1>6. r \in Requests /\ r.tick = tick
  BY <1>1, <1>3, Zenon DEF Shape, Requests
<1>7. delayed' = delayed
  BY Zenon DEF CommitReport
<1> HIDE DEF r, tick
<1>8. /\ DOMAIN request' = Nodes /\ \A m \in Nodes \ {n} : request'[m] = request[m]
      /\ request'[n] = r
  BY <1>1, <1>5, Zenon DEF Total
<1>. QED
  BY <1>1, <1>3, <1>4, <1>6, <1>7, <1>8, NothingDelayed, PublicationStep, Zenon

LEMMA PublishReleaseKeeps ==
    ASSUME IInv, NEW n \in Nodes, PublishRelease(n)
    PROVE  MemberStep
<1>1. Total /\ Shape(n)
  BY Zenon DEF IInv, Types
<1>2. /\ work' = [work EXCEPT ![n] = NoWork] /\ delayed' = delayed
      /\ proof' = proof /\ stuck' = stuck /\ UNCHANGED <<request, waiting, addr, over>>
  BY Zenon DEF PublishRelease, publication, kernel
<1>3. Gone(n, work[n].for.generation) /\ Commit(Release(n, work[n].for.generation))
  BY Zenon DEF PublishRelease, IInv, Releases
<1>4. LogStep /\ TellsTruly
  BY <1>3, ReleaseCommitted, Zenon
<1>. QED
  BY <1>1, <1>2, <1>4, NothingDelayed, ProofStays, StuckStays, WorkEnds, Zenon

\* A submission commits after its sender gave up on it.
LEMMA DelayedKeeps ==
    ASSUME IInv, NEW n \in Nodes, Delayed(n)
    PROVE  MemberStep
<1>1. Total /\ Shape(n)
  BY Zenon DEF IInv, Types
<1>2. /\ delayed' = [delayed EXCEPT ![n] = Nothing] /\ UNCHANGED <<proof, waiting, kernel>>
      /\ request' = request /\ work' = work /\ delayed[n] # Nothing
  BY Zenon DEF Delayed, publication, worker
<1>3. LogStep /\ TellsTruly
  <2>1. CASE delayed[n].kind = "released"
    <3>1. Gone(n, delayed[n].generation) /\ Commit(Release(n, delayed[n].generation))
      BY <2>1, Zenon DEF Delayed, IInv, Releases
    <3>. QED
      BY <3>1, ReleaseCommitted, Zenon
  <2>2. CASE delayed[n].kind # "released"
    <3>1. delayed[n].kind \in {"up", "down"}
      BY <1>1, <1>2, <2>2, Zenon DEF Shape, Submissions
    <3>2. Commit(Report(n, delayed[n].kind))
      BY <2>2, Zenon DEF Delayed
    <3>. QED
      BY <3>1, <3>2, ReportCommitted, Zenon
  <2>. QED
    BY <2>1, <2>2, Zenon
<1>4. Freshens(n) /\ proof'[n].left <= proof[n].left
  BY <1>1, <1>2, FreshnessStays, Zenon
<1>5. /\ DOMAIN delayed' = Nodes /\ \A m \in Nodes \ {n} : delayed'[m] = delayed[m]
      /\ delayed'[n] \in Submissions /\ delayed'[n].kind = "none"
  BY <1>1, <1>2, Zenon DEF Total, Submissions, Nothing
<1>6. /\ DOMAIN request' = Nodes /\ \A m \in Nodes \ {n} : request'[m] = request[m]
      /\ request'[n] \in Requests /\ request'[n] = request[n]
  BY <1>1, <1>2, Zenon DEF Total, Shape
<1>. QED
  BY <1>2, <1>3, <1>4, <1>5, <1>6, PublicationStep, Zenon

-----------------------------------------------------------------------------
(* The theorems.                                                           *)

LEMMA InitHolds ==
    ASSUME Init
    PROVE  IInv
<1>1. StoreOK(Reported) /\ InForce(Reported) /\ NoneReleased(Reported)
  BY ReportedOK, Zenon
<1>2. /\ Len(views) = 1 /\ views[1] = ViewOf(Reported) /\ Listed(views) /\ store = Reported
      /\ behind = [n \in Nodes |-> 0]
  BY DEF Init, Listed
<1>3. ViewOK(ViewOf(Reported)) /\ Older(ViewOf(Reported), ViewOf(Reported))
  BY <1>1, ViewsOfStores, OlderIsReflexive, Zenon
<1>4. Views
  BY <1>1, <1>2, <1>3 DEF Views
<1>5. Recorded = {ViewOf(Reported)}
  BY <1>2 DEF Recorded
<1>6. Types
  <2>1. Total
    BY Zenon DEF Init, Total
  <2>2. ASSUME NEW n \in Nodes PROVE Shape(n)
    <3>1. proof[n] \in Proofs
      BY TimeAssumption DEF Init, Proofs
    <3>2. request[n] \in Requests
      BY TimeAssumption DEF Init, Requests, NoRequest
    <3>3. delayed[n] \in Submissions
      BY Zenon DEF Init, Submissions
    <3>4. Delays(n)
      BY TimeAssumption DEF Init, Delays, NoWait, TakeoverLifetime
    <3>5. Works(n) /\ work[n].phase = "idle"
      BY TimeAssumption DEF Init, Works, NoWork
    <3>6. addr[n] \in BOOLEAN /\ stuck[n] \in BOOLEAN /\ over[n] \in 0 .. Cleanup - 1
      BY TimeAssumption DEF Init
    <3>. QED
      BY <3>1, <3>2, <3>3, <3>4, <3>5, <3>6, Zenon DEF Shape
  <2>. QED
    BY <2>1, <2>2, Zenon DEF Types
<1>7. ASSUME NEW n \in Nodes
      PROVE  waiting[n] = NoWait /\ work[n].phase = "idle" /\ delayed[n].kind = "none"
  BY Zenon DEF Init, NoWork, Nothing
<1>8. Releases
  <2>1. ASSUME NEW n \in Nodes PROVE ~SaysReleased(ViewOf(Reported).assigned, n)
    BY <1>1, NodesAssumption, Zenon DEF NoneReleased, SaysReleased, ViewOf, NoNode
  <2>. QED
    BY <1>5, <1>7, <2>1, Zenon DEF Releases
<1>9. Waited /\ Expiring
  BY <1>7, Zenon DEF Waited, Waiting, Binding, Expiring, Current
<1>. QED
  BY <1>4, <1>6, <1>8, <1>9, Zenon DEF IInv

LEMMA NextKeeps ==
    ASSUME IInv, [Next]_vars
    PROVE  IInv'
<1>1. CASE Tick
  BY <1>1, TickKeeps, Zenon
<1>2. ASSUME NEW n \in Nodes, Apply(n) PROVE IInv'
  BY <1>2, ApplyKeeps, MemberStepKeeps, Zenon
<1>3. ASSUME NEW n \in Nodes, Publication(n) PROVE IInv'
  <2>1. MemberStep
    BY <1>3, ProbeKeeps, CommitReportKeeps, PublishedKeeps, PublishFailsKeeps, Zenon DEF Publication
  <2>. QED
    BY <2>1, MemberStepKeeps, Zenon
<1>4. ASSUME NEW n \in Nodes, Worker(n) PROVE IInv'
  <2>1. MemberStep
    BY <1>4, DeleteKeeps, DeleteFailsKeeps, PublishReleaseKeeps, DelayedKeeps, Zenon,
       ReleaseFailsKeeps, AcquireKeeps, AddAddressKeeps, BindEndsKeeps DEF Worker
  <2>. QED
    BY <2>1, MemberStepKeeps, Zenon
<1>5. CASE UNCHANGED vars
  <2>1. /\ UNCHANGED replica /\ UNCHANGED <<request, delayed, proof, waiting, work>>
        /\ UNCHANGED kernel
    BY <1>5, Zenon DEF vars, publication, worker
  <2>2. LogStep /\ TellsTruly
    BY <2>1, QuietLog, Zenon
  <2>3. Total' /\ \A m \in Nodes : Untouched(m)
    BY <2>1, Zenon DEF IInv, Types, Total, Untouched, kernel
  <2>4. \A m \in Nodes : Keeps(m) /\ Shape(m)'
    BY <2>3, UntouchedKeeps, Zenon DEF IInv, Types
  <2>. QED
    BY <2>2, <2>3, <2>4, MemberStepKeeps, Zenon DEF MemberStep, Types
<1>. QED
  BY <1>1, <1>2, <1>3, <1>4, <1>5, Zenon DEF Next

\* A committed release is true (types.rs:42-48): for any number of members,
\* lifetime of a proof, cleanup budget and lag, the predecessor that it
\* speaks for does not have the address.
THEOREM CommittedReleasesAreTrue == Spec => []ReleasedIsGone
<1>1. IInv => ReleasedIsGone
  <2> SUFFICES ASSUME IInv, NEW n \in Nodes,
                      LET a == store.vip_assignments[Vip]
                      IN a.holder # NoNode /\ a.previous_holder = n
                         /\ a.previous_holder_released /\ a.holder # n
               PROVE  ~addr[n]
    BY Zenon DEF ReleasedIsGone
  <2> DEFINE w == ViewOf(store)
  <2>1. /\ View(n) \in Recorded /\ ViewOK(View(n)) /\ Older(View(n), w) /\ w \in Recorded
        /\ ViewOK(w)
    BY MembersRead, RecordedAreOlder, Zenon DEF IInv
  <2>2. SaysReleased(w.assigned, n)
    BY Zenon DEF ViewOf, SaysReleased
  <2>3. Gone(n, w.assigned.generation)
    BY <2>1, <2>2, Zenon DEF IInv, Releases
  <2> HIDE DEF w
  <2>. QED
    BY <2>1, <2>2, <2>3 DEF Gone, Older, ViewOK, SaysReleased
<1>. QED
  BY <1>1, InitHolds, NextKeeps, PTL DEF Spec

\* Only a bind adds the address.
LEMMA OnlyBindsAdd ==
    ASSUME IInv, [Next]_vars, NEW n \in Nodes, Adds(n)
    PROVE  AddAddress(n)
<1>1. Total
  BY Zenon DEF IInv, Types
<1>2. CASE UNCHANGED addr
  BY <1>2, Zenon DEF Adds
<1>3. ASSUME NEW m \in Nodes, Delete(m) PROVE FALSE
  <2>1. addr' = [addr EXCEPT ![m] = FALSE]
    BY <1>3, Zenon DEF Delete
  <2>. QED
    BY <1>1, <2>1, Zenon DEF Adds, Total
<1>4. ASSUME NEW m \in Nodes, AddAddress(m) PROVE m = n
  <2>1. addr' = [addr EXCEPT ![m] = TRUE]
    BY <1>4, Zenon DEF AddAddress
  <2>. QED
    BY <1>1, <2>1, Zenon DEF Adds, Total
<1>5. ASSUME NEW m \in Nodes, Publication(m) PROVE UNCHANGED addr
  BY <1>5, Zenon DEF Publication, Probe, CommitReport, Published, PublishFails, kernel
<1>6. ASSUME NEW m \in Nodes, Worker(m), ~Delete(m), ~AddAddress(m) PROVE UNCHANGED addr
  BY <1>6, Zenon DEF Worker, DeleteFails, PublishRelease, Delayed, ReleaseFails, Acquire, BindDone,
              LoseBind, BindFails, kernel
<1>7. ASSUME NEW m \in Nodes, Apply(m) PROVE UNCHANGED addr
  BY <1>7, Zenon DEF Apply, kernel
<1>8. CASE Tick \/ UNCHANGED vars
  BY <1>2, <1>8, Zenon DEF Tick, vars, kernel
<1>. QED
  BY <1>2, <1>3, <1>4, <1>5, <1>6, <1>7, <1>8, Zenon DEF Next

\* A member that adds the address for the last generation finds its
\* predecessor gone, or stuck and silent (bind_policy.rs:91-108,
\* vip/takeover.rs:32-65): for any number of members, lifetime of a proof,
\* cleanup budget and lag.
THEOREM PredecessorsAreGone == Spec => PredecessorIsGone
<1> DEFINE Safe == \A m, n \in Nodes :
                       m # n /\ Adds(n) /\ addr[m] /\ View(n).assigned.previous_holder = m
                       /\ View(n).generation = store.vip_generation[Vip]
                           => stuck[m] /\ ~Fresh(View(n), m)
<1>1. ASSUME IInv, [Next]_vars PROVE [Safe]_vars
  <2> SUFFICES ASSUME NEW m \in Nodes, NEW n \in Nodes, m # n, Adds(n), addr[m],
                      View(n).assigned.previous_holder = m,
                      View(n).generation = store.vip_generation[Vip]
               PROVE  stuck[m] /\ ~Fresh(View(n), m)
    BY Zenon
  <2> DEFINE w == View(n)
             a == w.assigned
             g == w.generation
  <2>1. AddAddress(n)
    BY <1>1, OnlyBindsAdd, Zenon
  <2>2. /\ a = work[n].for /\ a.holder = n /\ PredecessorGone(w, a)
        /\ work[n].phase = "bind"
    BY <2>1, Zenon DEF AddAddress, Authorized, IntentHolds, MayBind
  <2>3. /\ w \in Recorded /\ ViewOK(w) /\ Older(w, ViewOf(store))
        /\ ViewOK(View(m)) /\ Older(View(m), ViewOf(store))
    BY <1>1, MembersRead, Zenon DEF IInv
  <2>4. ViewOf(store).generation = g /\ a.generation = g /\ w.last = n /\ m # NoNode
    BY <2>2, <2>3, NodesAssumption, Zenon DEF ViewOf, ViewOK, NoNode
  <2>5. /\ View(m).generation <= g
        /\ View(m).generation = g => View(m).last = n
    BY <2>3, <2>4, Zenon DEF Older
  <2>6. ~a.previous_holder_released
    <3>1. ASSUME a.previous_holder_released PROVE FALSE
      <4>1. Gone(m, g)
        BY <1>1, <2>2, <2>3, <2>4, <3>1, NodesAssumption, Zenon DEF IInv, Releases, SaysReleased, NoNode
      <4>. QED
        BY <2>3, <2>4, <2>5, <4>1 DEF Gone, ViewOK
    <3>. QED
      BY <3>1, Zenon
  <2>7. ~Fresh(w, m)
    BY <2>2, <2>4, <2>6, Zenon DEF PredecessorGone
  <2>8. waiting[n].generation = g /\ waiting[n].waited = TakeoverLifetime
    BY <1>1, <2>2, <2>4, <2>6, Zenon DEF IInv, Waited, Binding
  <2>9. stuck[m]
    <3>1. TakeoverLifetime = Lifetime + Cleanup /\ TakeoverLifetime # 0
      BY TimeAssumption DEF TakeoverLifetime
    <3>2. Current(n)
      BY <2>8, <3>1 DEF Current, NoWait
    <3>3. Removing(m, TakeoverLifetime)
      BY <1>1, <2>8, <3>2, Zenon DEF IInv, Expiring
    <3>4. over[m] \in 0 .. Cleanup - 1
      BY <1>1, Zenon DEF IInv, Types, Shape
    <3>. QED
      BY <3>1, <3>3, <3>4, TimeAssumption DEF Removing
  <2>. QED
    BY <2>7, <2>9, Zenon
<1>. QED
  BY <1>1, InitHolds, NextKeeps, PTL DEF Spec, PredecessorIsGone

=============================================================================
