----------------------------- MODULE StoreAudit -----------------------------
(***************************************************************************)
(* KafStore with history variables that look only at the states a          *)
(* replica goes through, not at the fields the code keeps for the same     *)
(* purpose: who reported a node's health, since which probe round a node   *)
(* that lost a VIP has been continuously serviceable, and who ever failed. *)
(***************************************************************************)
EXTENDS KafStore

VARIABLES reporter,   \* boot behind the current health record of a node
          okSince,    \* probe round since which a node is serviceable
          lost,       \* nodes that failed as an owner and are still waiting
          failedOnce  \* nodes that ever failed

auditVars == <<s, reporter, okSince, lost, failedOnce>>

AuditInit ==
    /\ Init
    /\ reporter = [n \in Nodes |-> NoReplica]
    /\ okSince = [n \in Nodes |-> NoTick]
    /\ lost = {}
    /\ failedOnce = {}

Observe ==
    /\ reporter' = [n \in Nodes |->
           IF s'.node_probe_ticks[n] = NoTick THEN NoReplica
           ELSE IF s'.node_probe_ticks[n] # s.node_probe_ticks[n] THEN s'.applied_progress[n]
           ELSE reporter[n]]
    /\ okSince' = [n \in Nodes |->
           IF ~Serviceable(s', n) THEN NoTick
           ELSE IF okSince[n] = NoTick THEN s'.latest_probe_tick
           ELSE okSince[n]]
    /\ LET failed == {n \in Nodes : /\ s'.failover_semantics = "V2"
                                    /\ \E v \in Vips : s.vip_assignments[v].holder = n
                                    /\ ~Serviceable(s', n)}
           down == {n \in Nodes : /\ s.failover_semantics = "Legacy"
                                  /\ s.node_health[n] = "up"
                                  /\ s'.node_health[n] = "down"}
           served == {n \in Nodes : /\ okSince'[n] # NoTick
                                    /\ s'.latest_probe_tick - okSince'[n] >= FailbackDelay}
       IN /\ lost' = (lost \cup failed) \ served
          /\ failedOnce' = failedOnce \cup failed \cup down

AuditNext == Next /\ Observe

AuditSpec == AuditInit /\ [][AuditNext]_auditVars

\* Once a genesis is committed, a node counts as healthy only on the word of
\* the boot that is now its unique voter (membership.rs:120-131,
\* state_machine.rs:184-187).
HealthIsFromVotingBoot ==
    s.genesis # NoGenesis =>
        \A n \in Nodes : s.node_health[n] = "up" =>
            /\ reporter[n] # NoReplica
            /\ reporter[n] = UniqueVoter(s.membership, n)

\* With failback, a node that failed while it owned a VIP owns none until it
\* has been serviceable without interruption for the failback delay
\* (state_machine.rs:93-121).
LostOwnersWait ==
    Failback => \A v \in Vips : s.vip_assignments[v].holder \notin lost

\* Without failback, a node that once failed is given only VIPs whose holder
\* is gone and never one of an eligible holder, also across the activation of
\* the V2 semantics ("failed nopreempt nodes may receive orphans but not
\* proactive moves"; state_machine.rs:45-61, vip_logic.rs:326-349).
FailedNeverPreempts ==
    [][\A v \in Vips :
        LET old == s.vip_assignments[v].holder
            new == s'.vip_assignments[v].holder
        IN (~Failback /\ new # old /\ new \in failedOnce') => old \notin EligibleNodes(s')
      ]_auditVars

=============================================================================
