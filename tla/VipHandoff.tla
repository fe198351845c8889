----------------------------- MODULE VipHandoff -----------------------------
(***************************************************************************)
(* The handoff of a VIP between members: the replicated store (KafStore)   *)
(* composed with the members of VipWorkers, who read what they have        *)
(* applied of it and commit health reports and releases.                   *)
(***************************************************************************)
EXTENDS VipWorkers, Placement

Store == INSTANCE KafStore WITH
    s <- store, Boots <- {Boot}, Geneses <- {Cohort}, Place <- AssignVips,
    Failback <- TRUE, FailbackDelay <- 0,
    Kinds <- {"progress", "released", "genesis"}, MaxJoins <- 0

\* A cluster that has just been formed: the cold roster and its genesis.
Formed ==
    Store!ApplyGenesis(
        Store!ApplyMembership(Store!EmptyStore,
                              [old |-> Roster, new |-> Roster, learners |-> {}]),
        Cohort)

\* Every member has reported itself healthy in two rounds; the first holder
\* bound the address and awaits the answer to its second report.
Round(t, tick) ==
    Store!Recompute([t EXCEPT !.node_health = [n \in Nodes |-> "up"],
                              !.node_probe_ticks = [n \in Nodes |-> tick],
                              !.latest_probe_tick = tick,
                              !.applied_progress = [n \in Nodes |-> <<n, Boot>>]])
Reported == Round(Round(Formed, 1), 2)
First == Reported.vip_assignments[Vip].holder

Init ==
    /\ store = Reported
    /\ views = <<ViewOf(Reported)>> /\ behind = [n \in Nodes |-> 0]
    /\ health = [n \in Nodes |-> "up"]
    /\ request = [n \in Nodes |-> IF n = First
                                  THEN [phase |-> "committed", age |-> 0, up |-> TRUE, tick |-> 2]
                                  ELSE NoRequest]
    /\ delayed = [n \in Nodes |-> Nothing]
    /\ proof = [n \in Nodes |-> [left |-> Lifetime, available |-> TRUE]]
    /\ waiting = [n \in Nodes |-> NoWait]
    /\ work = [n \in Nodes |-> NoWork]
    /\ held = [n \in Nodes |-> IF n = First THEN [generation |-> 1, ok |-> TRUE] ELSE NotHeld]
    /\ cleanup = [n \in Nodes |-> FALSE] /\ acked = [n \in Nodes |-> 0]
    /\ addr = [n \in Nodes |-> n = First] /\ stuck = [n \in Nodes |-> FALSE]
    /\ over = [n \in Nodes |-> 0]

-----------------------------------------------------------------------------
(* The entries that the members commit.                                    *)

Report(n, word) == Store!ApplyHealthProgress(store, Cohort, <<n, Boot>>, word)

\* The leader commits the report.
CommitReport(n) ==
    /\ request[n].phase = "sent" /\ MayReport(n)
    /\ LET t == Report(n, Word(request[n].up))
       IN /\ Commit(t)
          /\ request' = [request EXCEPT ![n].phase = "committed",
                                        ![n].tick = t.node_probe_ticks[n]]
    /\ UNCHANGED <<delayed, health, proof, worker, kernel>>

Release(n, generation) == Store!ApplyVipReleased(store, n, Vip, generation)

PublishRelease(n) ==
    /\ work[n].phase = "publish"
    /\ Commit(Release(n, work[n].for.generation))
    /\ acked' = [acked EXCEPT ![n] = work[n].for.generation]
    /\ work' = [work EXCEPT ![n] = NoWork]
    /\ UNCHANGED <<delayed, publication, proof, waiting, held, cleanup, kernel>>

\* A report or release that its sender gave up on commits after all.
Delayed(n) ==
    /\ delayed[n] # Nothing
    /\ IF delayed[n].kind = "released" THEN Commit(Release(n, delayed[n].generation))
       ELSE MayReport(n) /\ Commit(Report(n, delayed[n].kind))
    /\ delayed' = [delayed EXCEPT ![n] = Nothing]
    /\ UNCHANGED <<publication, proof, worker, kernel>>

-----------------------------------------------------------------------------
(* The system.                                                             *)

Publication(n) ==
    \/ \E outcome \in {"up", "down"} : Probe(n, outcome)
    \/ n \in Faulty /\ \E outcome \in {"fenced", "unready"} : Probe(n, outcome)
    \/ CommitReport(n) \/ Published(n)
    \/ \E kind \in {"unavailable", "rejected"} : PublishFails(n, kind)

Worker(n) ==
    \/ Delete(n) \/ DeleteFails(n)
    \/ PublishRelease(n) \/ Delayed(n)
    \/ \E kind \in {"unavailable", "rejected"} : ReleaseFails(n, kind)
    \/ Acquire(n) \/ AddAddress(n) \/ BindDone(n) \/ LoseBind(n) \/ BindFails(n)

Next == Tick \/ \E n \in Nodes : Apply(n) \/ Publication(n) \/ Worker(n)

Spec == Init /\ [][Next]_vars

-----------------------------------------------------------------------------
(* Properties.                                                             *)

Adds(n) == ~addr[n] /\ addr'[n]

\* A member adds the address only where the previous holder it is fenced by
\* no longer has it, through lost and late reports, stale reads and expired
\* proofs alike - unless the kernel of that holder refused the deletion and
\* it has fallen silent, or the VIP was assigned once more while this member
\* has yet to apply it (bind_policy.rs:91-108, vip/takeover.rs:32-65).
PredecessorIsGone ==
    [][\A m, n \in Nodes :
        m # n /\ Adds(n) /\ addr[m] /\ View(n).assigned.previous_holder = m
        /\ View(n).generation = store.vip_generation[Vip]
            => stuck[m] /\ ~Fresh(View(n), m)]_vars

\* "an unreadable or still-present result keeps the handoff fenced. Only a
\* previous holder whose committed probes have become stale may use the crash
\* fallback" (README.md:148-150): while a member that publishes fresh probes
\* is known to still have the address, no other member adds it.
StillPresentStaysFenced ==
    [][\A m, n \in Nodes :
        m # n /\ Adds(n) /\ addr[m] /\ stuck[m] => ~Fresh(View(n), m)]_vars

\* A committed release is true: the predecessor it speaks for does not have
\* the address, also when the release was submitted long ago (types.rs:42-48).
ReleasedIsGone ==
    \A n \in Nodes :
        LET a == store.vip_assignments[Vip]
        IN a.holder # NoNode /\ a.previous_holder = n /\ a.previous_holder_released /\ a.holder # n
               => ~addr[n]

=============================================================================
