------------------------------ MODULE KafStore ------------------------------
(***************************************************************************)
(* The replicated state machine: KafStorageState and apply_one of          *)
(* raft/store (state_machine.rs, state.rs, membership.rs, vip_logic.rs).   *)
(* `s` is the state of a replica that has applied the committed log so     *)
(* far; a step applies the next entry.  An entry the code rejects leaves   *)
(* `s` unchanged.  The placement policy is the constant Place, bound to    *)
(* Placement!AssignVips by the models.                                     *)
(*                                                                         *)
(* Log ids are abstracted to what the code compares: `prepared` is the     *)
(* ordinal of an accepted PrepareJoin (an equality witness of its log id)  *)
(* and `learner_applied` the presence of an acknowledgement, since an      *)
(* entry applied later always has the larger index.                        *)
(***************************************************************************)
EXTENDS StoreReads

CONSTANTS
    Boots,             \* boot nonces
    Geneses,           \* admission descriptors, [epoch, voters]
    Place(_, _, _),    \* eligible, rebalance receivers, current holders
    Failback,          \* Config: failback
    FailbackDelay,     \* Config: failback_delay_ticks
    Kinds,             \* the kinds of entry the log carries
    MaxTick,           \* bound on latest_probe_tick
    MaxJoins           \* bound on accepted PrepareJoin entries

Replicas == Nodes \X Boots
NoReplica == <<0, 0>>
NoGenesis == [epoch |-> 0, voters |-> {}]

ASSUME ConfigAssumption ==
    /\ Failback \in BOOLEAN
    /\ FailbackDelay \in Nat
    /\ StaleMissed \in Nat
    /\ MaxTick \in Nat
    /\ MaxJoins \in Nat
    /\ Boots \subseteq Nat \ {0}
    /\ Geneses \subseteq [epoch : Nat \ {0}, voters : SUBSET Replicas]

\* What the store relies on: the policy computes a placement and leaves its
\* own result alone.
ASSUME PlaceAssumption ==
    \A eligible \in SUBSET Nodes : \A receivers \in SUBSET eligible :
        \A current \in [Vips -> Nodes \cup {NoNode}] :
            LET next == Place(eligible, receivers, current)
            IN /\ IsPlacement(eligible, receivers, current, next)
               /\ Place(eligible, receivers, next) = next

VARIABLE s

Semantics == {"Legacy", "V2"}

Assignments ==
    [holder : Nodes \cup {NoNode}, generation : Nat,
     previous_holder : Nodes \cup {NoNode},
     previous_holder_released : BOOLEAN, activation_tick : Nat]

\* openraft's Membership: `old` = `new` is a single configuration, otherwise
\* the joint one; learners are the remaining nodes.
Memberships == [old : SUBSET Replicas, new : SUBSET Replicas, learners : SUBSET Replicas]

NoPlan ==
    [genesis |-> NoGenesis, consumer |-> NoReplica, nonce |-> 0,
     previous_voters |-> {}, next_voters |-> {}]

NoJoin == [plan |-> NoPlan, prepared |-> 0, learner_applied |-> FALSE]

\* KafStorageState::new
EmptyStore ==
    [genesis |-> NoGenesis,
     cluster_epoch |-> 0,
     config_identity_enforced |-> FALSE,
     failover_semantics |-> "Legacy",
     membership |-> [old |-> {}, new |-> {}, learners |-> {}],
     node_health |-> [n \in Nodes |-> "none"],
     node_probe_ticks |-> [n \in Nodes |-> NoTick],
     latest_probe_tick |-> 0,
     node_recovery_tick |-> [n \in Nodes |-> NoTick],
     node_recovery_pending |-> {},
     node_nopreempt |-> {},
     node_failback_blocked |-> {},
     applied_progress |-> [n \in Nodes |-> NoReplica],
     prepared_join |-> NoJoin,
     completed_joins |-> [n \in Nodes |-> NoJoin],
     joins |-> 0,
     vip_assignments |-> [v \in Vips |-> NoAssignment],
     vip_generation |-> [v \in Vips |-> 0],
     vip_last_holder |-> [v \in Vips |-> NoNode]]

-----------------------------------------------------------------------------
(* Membership and eligibility.                                             *)

Voters(m) == m.old \cup m.new
Members(m) == Voters(m) \cup m.learners
Stable(m) == m.old = m.new /\ m.old # {}

\* unique_voters: a physical member with two voting boots is no candidate.
UniqueVoter(m, n) ==
    LET boots == {r \in Voters(m) : r[1] = n}
    IN IF \E r \in boots : boots = {r} THEN CHOOSE r \in boots : TRUE ELSE NoReplica

IsMember(t, n) == UniqueVoter(t.membership, n) # NoReplica

IsNodeBaseEligible(t, n) == t.node_health[n] = "up" /\ IsNodeProbeFresh(t, n)

IsNodeEligible(t, n, blocked) ==
    /\ n \notin blocked
    /\ IsNodeBaseEligible(t, n)
    /\ ~ /\ t.node_recovery_tick[n] # NoTick
         /\ SaturatingSub(t.latest_probe_tick, t.node_recovery_tick[n]) < FailbackDelay

EligibleNodes(t) ==
    LET blocked == IF t.failover_semantics = "V2" THEN {} ELSE t.node_failback_blocked
    IN {n \in Nodes : IsMember(t, n) /\ IsNodeEligible(t, n, blocked)}

\* A plausible slip: a nopreempt node may receive like any other.
RebalanceReceiversAll(t) == EligibleNodes(t)

\* recompute_vip_holder(_v2): under V2 a nopreempt node takes orphans only.
RebalanceReceivers(t) ==
    IF t.failover_semantics = "V2" THEN EligibleNodes(t) \ t.node_nopreempt
                                   ELSE EligibleNodes(t)

-----------------------------------------------------------------------------
(* Recovery tracking, recomputation and fencing.                           *)

\* The filter shared by both loops of update_v2_failback_tracking.
Serviceable(t, n) == IsMember(t, n) /\ IsNodeBaseEligible(t, n)

FailedOwners(t) ==
    {n \in Nodes : /\ \E v \in Vips : t.vip_assignments[v].holder = n
                   /\ ~Serviceable(t, n)}

\* A plausible slip: the recovery delay counts the round before as well.
RecoveryTickEarly(t, pending, n) ==
    CASE n \notin pending -> t.node_recovery_tick[n]
      [] n \in pending /\ ~Serviceable(t, n) -> NoTick
      [] n \in pending /\ Serviceable(t, n) ->
            IF t.node_recovery_tick[n] = NoTick
            THEN SaturatingSub(t.latest_probe_tick, 1)
            ELSE t.node_recovery_tick[n]

\* The recovery delay of a pending node starts at its first serviceable
\* round and starts over whenever it is not serviceable.
RecoveryTick(t, pending, n) ==
    CASE n \notin pending -> t.node_recovery_tick[n]
      [] n \in pending /\ ~Serviceable(t, n) -> NoTick
      [] n \in pending /\ Serviceable(t, n) ->
            IF t.node_recovery_tick[n] = NoTick THEN t.latest_probe_tick
                                                ELSE t.node_recovery_tick[n]

\* update_v2_failback_tracking
UpdateV2FailbackTracking(t) ==
    LET failed == FailedOwners(t)
        pending == t.node_recovery_pending \cup failed
        tick == [n \in Nodes |-> RecoveryTick(t, pending, n)]
        completed == {n \in pending :
                        /\ Serviceable(t, n)
                        /\ SaturatingSub(t.latest_probe_tick, tick[n]) >= FailbackDelay}
    IN IF Failback
       THEN [t EXCEPT !.node_nopreempt = {},
                      !.node_recovery_pending = pending \ completed,
                      !.node_recovery_tick =
                          [n \in Nodes |-> IF n \in completed THEN NoTick ELSE tick[n]]]
       ELSE [t EXCEPT !.node_nopreempt = @ \cup failed,
                      !.node_recovery_pending = {},
                      !.node_recovery_tick = [n \in Nodes |-> NoTick]]

CurrentHolders(t) == [v \in Vips |-> t.vip_assignments[v].holder]

\* A plausible slip: every first assignment after a gap may activate at once.
ActivationTickNoHoldoff(t, v) ==
    IF t.vip_assignments[v].holder = NoNode THEN t.latest_probe_tick
                                            ELSE t.latest_probe_tick + 1

\* OWNERSHIP_ACTIVATION_HOLDOFF_TICKS = 1; only a cold start skips it.
ActivationTick(t, v) ==
    IF t.vip_assignments[v].holder = NoNode /\ t.vip_generation[v] = 0
    THEN t.latest_probe_tick
    ELSE t.latest_probe_tick + 1

\* A plausible slip: the last holder of an ownerless VIP is forgotten.
PredecessorOrNone(t, v) == t.vip_assignments[v].holder

\* The holder that has to release: the current one, or the last one before
\* an ownerless interval.
Predecessor(t, v) ==
    IF t.vip_assignments[v].holder # NoNode THEN t.vip_assignments[v].holder
                                            ELSE t.vip_last_holder[v]

\* A plausible slip: the generation counts down.
NextGenerationDown(t, v) == t.vip_generation[v] - 1

NextGeneration(t, v) == t.vip_generation[v] + 1

\* A plausible slip: the record is built before the counter is advanced.
FencedAssignmentEarly(t, v, holder) ==
    [holder |-> holder,
     generation |-> t.vip_generation[v],
     previous_holder |-> Predecessor(t, v),
     previous_holder_released |-> Predecessor(t, v) = NoNode,
     activation_tick |-> ActivationTick(t, v)]

FencedAssignment(t, v, holder) ==
    [holder |-> holder,
     generation |-> NextGeneration(t, v),
     previous_holder |-> Predecessor(t, v),
     previous_holder_released |-> Predecessor(t, v) = NoNode,
     activation_tick |-> ActivationTick(t, v)]

\* reconcile_vip_assignments
ReconcileVipAssignments(t, next) ==
    LET kept(v) == next[v] = t.vip_assignments[v].holder
        assignment(v) == IF kept(v) THEN t.vip_assignments[v]
                         ELSE IF next[v] = NoNode THEN NoAssignment
                         ELSE FencedAssignment(t, v, next[v])
    IN [t EXCEPT !.vip_assignments = [v \in Vips |-> assignment(v)],
                 !.vip_generation =
                     [v \in Vips |-> IF kept(v) \/ next[v] = NoNode
                                     THEN t.vip_generation[v]
                                     ELSE NextGeneration(t, v)],
                 !.vip_last_holder =
                     [v \in Vips |-> IF next[v] # NoNode THEN next[v] ELSE Predecessor(t, v)]]

\* The recompute block at the end of apply_one.
Recompute(t) ==
    LET u == IF t.failover_semantics = "V2" THEN UpdateV2FailbackTracking(t) ELSE t
    IN ReconcileVipAssignments(
           u, Place(EligibleNodes(u), RebalanceReceivers(u), CurrentHolders(u)))

-----------------------------------------------------------------------------
(* apply_one, one operator per kind of entry.                              *)

\* activate_v2: failback history keeps its meaning in the V2 fields.
ActivateV2(t) ==
    IF t.failover_semantics = "V2" THEN t
    ELSE [t EXCEPT
            !.failover_semantics = "V2",
            !.node_recovery_pending =
                IF Failback THEN @ \cup {n \in Nodes : t.node_recovery_tick[n] # NoTick}
                            ELSE @,
            !.node_nopreempt = IF Failback THEN @ ELSE @ \cup t.node_failback_blocked,
            !.node_recovery_tick = IF Failback THEN @ ELSE [n \in Nodes |-> NoTick],
            !.node_failback_blocked = {}]

\* A plausible slip: a returning node counts on from its own last round.
NextProbeTickOwn(t, n) ==
    (IF t.node_probe_ticks[n] = NoTick THEN 0 ELSE t.node_probe_ticks[n]) + 1

\* next_probe_tick: a returning node catches up with the frontier at once.
NextProbeTick(t, n) ==
    LET next == (IF t.node_probe_ticks[n] = NoTick THEN 0 ELSE t.node_probe_ticks[n]) + 1
    IN IF next > t.latest_probe_tick THEN next ELSE t.latest_probe_tick

ApplyHealth(t, n, healthy) ==
    LET was == t.node_health[n]
        tick == NextProbeTick(t, n)
        legacy == t.failover_semantics = "Legacy"
    IN [t EXCEPT
          !.node_health[n] = IF healthy THEN "up" ELSE "down",
          !.node_probe_ticks[n] = tick,
          !.latest_probe_tick = tick,
          !.node_recovery_tick[n] =
              IF legacy /\ ~healthy THEN NoTick
              ELSE IF legacy /\ Failback /\ was = "down" THEN tick
              ELSE @,
          !.node_failback_blocked =
              IF legacy /\ ~healthy /\ ~Failback /\ was = "up" THEN @ \cup {n} ELSE @]

\* A plausible slip: an unchanged report does not recompute.
AfterHealthOnFlip(t, u) == IF t.node_health = u.node_health THEN u ELSE Recompute(u)

\* Every report recomputes: its tick ages the other nodes' reports.
AfterHealth(t, u) == Recompute(u)

\* KafRequest::HealthUpdate, refused once a genesis gives boots authority.
ApplyHealthUpdate(t, n, healthy) ==
    IF t.genesis # NoGenesis THEN t ELSE AfterHealth(t, ApplyHealth(t, n, healthy))

\* Only the unique voting boot of a node can report it healthy.
CountsAsHealthy(t, r, healthy) == healthy = "up" /\ UniqueVoter(t.membership, r[1]) = r

\* KafRequest::HealthProgress; healthy = "none" renews admission only.
ApplyHealthProgress(t, g, r, healthy) ==
    LET u == [t EXCEPT !.applied_progress[r[1]] = r]
    IN IF t.genesis # g \/ r \notin Members(t.membership) THEN t
       ELSE IF healthy = "none" THEN u
       ELSE AfterHealth(t, ApplyHealth(u, r[1], CountsAsHealthy(t, r, healthy)))

ReleaseMatches(a, n, generation) ==
    a.holder # NoNode /\ a.generation = generation /\ a.previous_holder = n

\* KafRequest::VipReleased
ApplyVipReleased(t, n, v, generation) ==
    IF ReleaseMatches(t.vip_assignments[v], n, generation)
    THEN [t EXCEPT !.vip_assignments[v].previous_holder_released = TRUE]
    ELSE t

\* KafRequest::ClusterFormed: the first incarnation wins.
ApplyClusterFormed(t, epoch, semantics, identity) ==
    LET u == [t EXCEPT !.cluster_epoch = epoch,
                       !.config_identity_enforced = @ \/ identity]
    IN IF t.cluster_epoch # 0 THEN t
       ELSE IF semantics = "V2" THEN Recompute(ActivateV2(u))
       ELSE u

ApplyEnableV2(t) == Recompute(ActivateV2(t))

ApplyEnableIdentity(t) == [t EXCEPT !.config_identity_enforced = TRUE]

\* KafRequest::AdmissionGenesis: physical-only history is dropped once.
ApplyGenesis(t, g) ==
    LET fresh == [t EXCEPT !.node_health = [n \in Nodes |-> "none"],
                           !.node_probe_ticks = [n \in Nodes |-> NoTick],
                           !.node_recovery_tick = [n \in Nodes |-> NoTick],
                           !.applied_progress = [n \in Nodes |-> NoReplica]]
        u == [ActivateV2(fresh) EXCEPT !.config_identity_enforced = TRUE,
                                       !.genesis = g,
                                       !.cluster_epoch = g.epoch]
    IN IF t.genesis \notin {NoGenesis, g} \/ t.cluster_epoch \notin {0, g.epoch} THEN t
       ELSE IF t.genesis = NoGenesis THEN Recompute(u)
       ELSE t

-----------------------------------------------------------------------------
(* Admission membership commands (membership.rs).                          *)

\* JoinPlan::next_voters: the consumer replaces its node's earlier boot.
Replacement(voters, consumer) == {r \in voters : r[1] # consumer[1]} \cup {consumer}

\* JoinPlan::validate
ValidPlan(p) ==
    /\ p.previous_voters # {}
    /\ \A q, r \in p.previous_voters : q[1] = r[1] => q = r
    /\ p.consumer \notin p.previous_voters
    /\ p.next_voters = Replacement(p.previous_voters, p.consumer)

AtStage(t, voters) == Stable(t.membership) /\ t.membership.old = voters

ApplyPrepareJoin(t, p) ==
    IF \/ ~ValidPlan(p)
       \/ t.genesis # p.genesis
       \/ t.prepared_join # NoJoin
       \/ ~AtStage(t, p.previous_voters)
    THEN t
    ELSE [t EXCEPT !.joins = @ + 1,
                   !.prepared_join =
                       [plan |-> p, prepared |-> t.joins + 1, learner_applied |-> FALSE]]

LearnerStage(t, consumer) ==
    consumer \in t.membership.learners /\ AtStage(t, t.prepared_join.plan.previous_voters)

ApplyLearnerApplied(t, consumer, nonce, prepared) ==
    LET j == t.prepared_join
    IN IF /\ j # NoJoin
          /\ j.plan.consumer = consumer /\ j.plan.nonce = nonce /\ j.prepared = prepared
          /\ t.genesis = j.plan.genesis
          /\ ~j.learner_applied
          /\ LearnerStage(t, consumer)
       THEN [t EXCEPT !.prepared_join.learner_applied = TRUE]
       ELSE t

\* A plausible slip: the join is cancelled while its learner is a member.
LearnerGoneUnchecked(t, p) == TRUE

LearnerGone(t, p) == p.consumer \notin Members(t.membership)

ApplyCancelJoin(t, p, prepared) ==
    IF /\ t.prepared_join # NoJoin
       /\ t.prepared_join.plan = p /\ t.prepared_join.prepared = prepared
       /\ t.genesis = p.genesis
       /\ AtStage(t, p.previous_voters)
       /\ LearnerGone(t, p)
    THEN [t EXCEPT !.prepared_join = NoJoin]
    ELSE t

\* A plausible slip: a replaced boot's records survive the change.
BootChangedNever(t, m, n) == FALSE

\* apply_membership drops what the earlier voting boot of a node reported.
BootChanged(t, m, n) ==
    t.genesis # NoGenesis /\ UniqueVoter(t.membership, n) # UniqueVoter(m, n)

Promotes(t, m) ==
    /\ t.prepared_join.learner_applied
    /\ Stable(m)
    /\ m.old = t.prepared_join.plan.next_voters

\* EntryPayload::Membership
ApplyMembership(t, m) ==
    LET reset(f, none) == [n \in Nodes |-> IF BootChanged(t, m, n) THEN none ELSE f[n]]
        progress == reset(t.applied_progress, NoReplica)
        consumer == t.prepared_join.plan.consumer
        u == [t EXCEPT
                !.membership = m,
                !.node_health = reset(@, "none"),
                !.node_probe_ticks = reset(@, NoTick),
                !.node_recovery_tick = reset(@, NoTick),
                !.applied_progress =
                    [n \in Nodes |-> IF progress[n] \in Members(m) THEN progress[n]
                                                                  ELSE NoReplica],
                !.completed_joins =
                    [n \in Nodes |-> IF Promotes(t, m) /\ n = consumer[1]
                                     THEN t.prepared_join ELSE @[n]],
                !.prepared_join = IF Promotes(t, m) THEN NoJoin ELSE @]
    IN Recompute(u)

\* A cold roster, all of it voting.
RosterMemberships ==
    {[old |-> g.voters, new |-> g.voters, learners |-> {}] : g \in Geneses}

\* The memberships the code asks openraft for (runtime/management.rs,
\* runtime/recovery.rs): initialize with a cold roster, add the consumer of
\* the pending join as a learner, promote an acknowledged one (joint, then
\* final) and remove it again.
NextMemberships(t) ==
    LET m == t.membership
        consumer == t.prepared_join.plan.consumer
        voters == t.prepared_join.plan.next_voters
    IN CASE m.old = {} -> RosterMemberships
         [] m.old # m.new -> {[m EXCEPT !.old = m.new]}
         [] OTHER ->
              IF t.prepared_join = NoJoin THEN {}
              ELSE {[m EXCEPT !.learners = @ \cup {consumer}],
                    [m EXCEPT !.learners = @ \ {consumer}]}
                   \cup IF t.prepared_join.learner_applied /\ consumer \in m.learners
                        THEN {[m EXCEPT !.new = voters, !.learners = @ \ {consumer}]}
                        ELSE {}

-----------------------------------------------------------------------------
(* The committed log, one entry at a time.                                 *)

Init == s = EmptyStore

\* The first entry of every log is the membership given to initialize.
Initialised == s.membership.old # {}

HealthProgress ==
    /\ "progress" \in Kinds /\ Initialised
    /\ s.latest_probe_tick < MaxTick
    /\ \E g \in Geneses, r \in Replicas, h \in {"none", "up", "down"} :
           s' = ApplyHealthProgress(s, g, r, h)

HealthUpdate ==
    /\ "health" \in Kinds /\ Initialised
    /\ s.latest_probe_tick < MaxTick
    /\ \E n \in Nodes, h \in BOOLEAN : s' = ApplyHealthUpdate(s, n, h)

VipReleased ==
    /\ "released" \in Kinds /\ Initialised
    /\ \E n \in Nodes, v \in Vips : \E g \in 1 .. s.vip_generation[v] :
           s' = ApplyVipReleased(s, n, v, g)

ClusterFormed ==
    /\ "formed" \in Kinds /\ Initialised
    /\ \E g \in Geneses, f \in Semantics, i \in BOOLEAN :
           s' = ApplyClusterFormed(s, g.epoch, f, i)

EnableFailoverSemanticsV2 ==
    "enable" \in Kinds /\ Initialised /\ s' = ApplyEnableV2(s)

EnableConfigIdentityV1 ==
    "enable" \in Kinds /\ Initialised /\ s' = ApplyEnableIdentity(s)

AdmissionGenesis ==
    /\ "genesis" \in Kinds /\ Initialised
    /\ \E g \in Geneses : s' = ApplyGenesis(s, g)

\* The plan a leader builds from its applied membership, which may have
\* moved on when the entry is applied.
PlanFor(g, consumer, nonce, voters) ==
    [genesis |-> g, consumer |-> consumer, nonce |-> nonce,
     previous_voters |-> voters, next_voters |-> Replacement(voters, consumer)]

PrepareJoin ==
    /\ "join" \in Kinds /\ Initialised
    /\ s.joins < MaxJoins
    /\ \E g \in Geneses, r \in Replicas, voters \in {s.membership.old, s.membership.new} :
           s' = ApplyPrepareJoin(s, PlanFor(g, r, s.joins + 1, voters))

LearnerApplied ==
    /\ "join" \in Kinds /\ Initialised
    /\ \E r \in Replicas, p \in 1 .. s.joins : s' = ApplyLearnerApplied(s, r, p, p)

CancelJoin ==
    /\ "join" \in Kinds /\ Initialised
    /\ \E p \in 1 .. s.joins : s' = ApplyCancelJoin(s, s.prepared_join.plan, p)

Membership ==
    /\ "membership" \in Kinds \/ ~Initialised
    /\ \E m \in NextMemberships(s) : s' = ApplyMembership(s, m)

Next ==
    \/ HealthProgress \/ HealthUpdate \/ VipReleased \/ ClusterFormed
    \/ EnableFailoverSemanticsV2 \/ EnableConfigIdentityV1 \/ AdmissionGenesis
    \/ PrepareJoin \/ LearnerApplied \/ CancelJoin \/ Membership

Spec == Init /\ [][Next]_s

-----------------------------------------------------------------------------
(* Snapshots (state.rs).                                                   *)

\* The fields of KafSnapshot; `joins` stands for last_applied.
SnapshotFields ==
    {"prepared_join", "completed_joins", "genesis", "applied_progress", "joins",
     "membership", "node_health", "node_probe_ticks", "latest_probe_tick",
     "vip_assignments", "vip_generation", "vip_last_holder", "cluster_epoch",
     "node_recovery_tick", "node_failback_blocked", "failover_semantics",
     "config_identity_enforced", "node_nopreempt", "node_recovery_pending"}

\* A plausible slip: the snapshot forgets the holder before a gap.
SnapshotWithoutLastHolder(t) == [f \in SnapshotFields \ {"vip_last_holder"} |-> t[f]]

\* From<&KafStorageState> for KafSnapshot
Snapshot(t) == [f \in SnapshotFields |-> t[f]]

\* KafSnapshot::restore_into: a field the snapshot lacks keeps its local value,
\* and failback history is reconciled with the local configuration.
RestoreInto(t, snap) ==
    LET u == [f \in DOMAIN t |-> IF f \in DOMAIN snap THEN snap[f] ELSE t[f]]
        v2 == snap.failover_semantics = "V2"
    IN [u EXCEPT !["node_failback_blocked"] = IF v2 \/ Failback THEN {} ELSE @,
                 !["node_nopreempt"] = IF v2 /\ Failback THEN {} ELSE @,
                 !["node_recovery_pending"] = IF v2 /\ ~Failback THEN {} ELSE @,
                 !["node_recovery_tick"] = IF v2 /\ ~Failback THEN [n \in Nodes |-> NoTick]
                                           ELSE @]

-----------------------------------------------------------------------------
(* Properties.                                                             *)

Ticks == Nat \cup {NoTick}

Joins ==
    [plan : [genesis : Geneses \cup {NoGenesis}, consumer : Replicas \cup {NoReplica},
             nonce : Nat, previous_voters : SUBSET Replicas,
             next_voters : SUBSET Replicas],
     prepared : Nat, learner_applied : BOOLEAN]

Stores ==
    [genesis : Geneses \cup {NoGenesis},
     cluster_epoch : Nat,
     config_identity_enforced : BOOLEAN,
     failover_semantics : Semantics,
     membership : Memberships,
     node_health : [Nodes -> {"none", "up", "down"}],
     node_probe_ticks : [Nodes -> Ticks],
     latest_probe_tick : Nat,
     node_recovery_tick : [Nodes -> Ticks],
     node_recovery_pending : SUBSET Nodes,
     node_nopreempt : SUBSET Nodes,
     node_failback_blocked : SUBSET Nodes,
     applied_progress : [Nodes -> Replicas \cup {NoReplica}],
     prepared_join : Joins,
     completed_joins : [Nodes -> Joins],
     joins : Nat,
     vip_assignments : [Vips -> Assignments],
     vip_generation : [Vips -> Nat],
     vip_last_holder : [Vips -> Nodes \cup {NoNode}]]

\* The replicated state keeps its shape (KafStorageState).
TypeOK == s \in Stores

\* Every committed holder is an eligible voter, and no VIP is without a
\* holder while an eligible voter exists: apply_one recomputes whenever an
\* input of eligibility changed (state_machine.rs:251-290).
HoldersAreEligible ==
    \A v \in Vips :
        /\ s.vip_assignments[v].holder \in EligibleNodes(s) \cup {NoNode}
        /\ EligibleNodes(s) # {} => s.vip_assignments[v].holder # NoNode

\* The fencing record of an assigned VIP agrees with the per-VIP counters
\* that outlive it, and only a first assignment has nobody to wait for
\* (vip_logic.rs:355-421).
FencingConsistent ==
    \A v \in Vips :
        LET a == s.vip_assignments[v] IN
        /\ s.vip_generation[v] = 0 <=> s.vip_last_holder[v] = NoNode
        /\ a.holder = NoNode => a = NoAssignment
        /\ a.holder # NoNode =>
               /\ a.generation = s.vip_generation[v]
               /\ a.holder = s.vip_last_holder[v]
               /\ a.generation = 1 <=> a.previous_holder = NoNode
               /\ ~a.previous_holder_released => a.previous_holder # NoNode
               /\ a.activation_tick <= s.latest_probe_tick + 1

\* Recomputing an applied state again changes nothing, so a repeated or
\* unrelated entry never moves a VIP or burns a generation.
RecomputeIsStable == Recompute(s) = s

\* No eligible node carries two VIPs more than a node allowed to receive.
LoadIsEven ==
    LET load(n) == Cardinality({v \in Vips : s.vip_assignments[v].holder = n})
    IN \A d \in EligibleNodes(s), r \in RebalanceReceivers(s) : load(d) <= load(r) + 1

\* No node's probe round is ahead of the cluster frontier, and no recovery
\* delay starts in the future ("Maximum committed probe round observed
\* across all nodes", state.rs:80).
FrontierIsMaximal ==
    \A n \in Nodes : /\ s.node_probe_ticks[n] <= s.latest_probe_tick
                     /\ s.node_recovery_tick[n] <= s.latest_probe_tick

\* A new member that installs the snapshot of a member with the same
\* configuration applies the rest of the log from the very same state,
\* failback and fencing history included (state.rs:146-200).
SnapshotIsFaithful == RestoreInto(EmptyStore, Snapshot(s)) = s

\* While no join is pending the membership is a single configuration without
\* learners: neither a promotion nor a cancellation leaves a learner or a
\* joint configuration behind that nobody would finish (membership.rs:33-51,
\* 137-153).
IdleMembershipIsStable ==
    (Initialised /\ s.prepared_join = NoJoin) =>
        Stable(s.membership) /\ s.membership.learners = {}

\* A holder change, also across an ownerless interval, always takes a fresh
\* generation, names the last holder as the one to wait for, starts
\* unreleased and holds activation off to a later probe round.
HolderChangeIsFenced ==
    [][\A v \in Vips :
        LET a == s.vip_assignments[v]
            b == s'.vip_assignments[v]
            fresh == b.holder # NoNode /\ b.generation # a.generation
        IN /\ s'.vip_generation[v] >= s.vip_generation[v]
           /\ (b.holder # NoNode /\ b.holder # s.vip_last_holder[v]) => fresh
           /\ fresh =>
                /\ b.generation = s.vip_generation[v] + 1
                /\ b.previous_holder = s.vip_last_holder[v]
                /\ b.previous_holder_released <=> s.vip_last_holder[v] = NoNode
                /\ s.vip_last_holder[v] # NoNode => b.activation_tick > s'.latest_probe_tick
      ]_s

=============================================================================
