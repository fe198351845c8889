----------------------------- MODULE VipWorkers -----------------------------
(***************************************************************************)
(* What every member does with the part of the replicated store that it    *)
(* has applied: publish its health, keep a consensus-freshness proof, wait *)
(* out a silent predecessor, bind, retain, remove and release.  VipHandoff *)
(* composes these steps with the entries that the members commit.          *)
(*                                                                         *)
(* `views` holds what every entry that some member has yet to apply shows, *)
(* oldest first.  Time advances in Tick, at one rate for all (the lifetime *)
(* of a proof and the takeover delay are local durations).  Inside one     *)
(* member the kernel commands are those of LocalVip: a cleanup ends only   *)
(* once no killed command is left.  Epochs that the code compares for      *)
(* equality are the flag `ok`, cleared where the code advances the epoch.  *)
(***************************************************************************)
EXTENDS StoreReads, Sequences

CONSTANTS
    Lifetime,          \* ConsensusFreshness::lifetime
    Cleanup,           \* a reconcile tick and the bounded deletion of the VIPs
    MaxTick,           \* bound on node_probe_ticks
    MaxFaultyTick,     \* the same, for the members of Faulty
    MaxBehind,         \* bound on the entries a member has yet to apply
    Faulty             \* members whose commands, readiness and submissions may fail

ASSUME TimeAssumption ==
    /\ StaleMissed \in Nat /\ Lifetime \in Nat \ {0} /\ Cleanup \in Nat \ {0}
    /\ MaxTick \in Nat /\ MaxFaultyTick \in 0 .. MaxTick /\ MaxBehind \in Nat
    /\ Faulty \subseteq Nodes /\ Vips # {}

VARIABLES
    store,             \* the store after every committed entry
    views, behind,     \* what its last entries showed, and how many a member lacks
    health,            \* LocalHealth
    request,           \* the publication under way
    delayed,           \* the last submission given up, which may commit yet
    proof,             \* ConsensusFreshness
    waiting,           \* TakeoverDelay
    work, held,        \* the worker's operation, CompletedBindingWitness
    cleanup, acked,    \* cleanup_needed, released_generations
    addr, stuck, over  \* the kernel has the address, cannot delete it, ticks overdue

replica == <<store, views, behind>>
publication == <<health, request>>
worker == <<waiting, work, held, cleanup, acked>>
kernel == <<addr, stuck, over>>
vars == <<replica, publication, proof, worker, kernel, delayed>>

Vip == CHOOSE v \in Vips : TRUE
Boot == 1
Roster == Nodes \X {Boot}
Cohort == [epoch |-> 1, voters |-> Roster]

\* What a member's worker reads of the store it has applied, and the number
\* and the holder of the last assignment, which outlive it.
ViewOf(t) ==
    [assigned |-> t.vip_assignments[Vip],
     generation |-> t.vip_generation[Vip], last |-> t.vip_last_holder[Vip],
     node_probe_ticks |-> t.node_probe_ticks, latest_probe_tick |-> t.latest_probe_tick]

View(n) == views[Len(views) - behind[n]]

NoRequest == [phase |-> "none", age |-> 0, up |-> FALSE, tick |-> 0]
NoProof == [left |-> 0, available |-> FALSE]
NoWait == [generation |-> 0, tick |-> 0, waited |-> 0]
NoWork == [phase |-> "idle", for |-> NoAssignment, tick |-> 0, left |-> 0, ok |-> FALSE]
Nothing == [kind |-> "none", generation |-> 0]
NotHeld == [generation |-> 0, ok |-> FALSE]

-----------------------------------------------------------------------------
(* The replicated log: a committed entry, and a member that applies one.   *)

\* The bound on what the members have yet to apply.
Room == \A n \in Nodes : behind[n] < MaxBehind

\* An entry that changes nothing is not kept.
Commit(t) ==
    IF t = store THEN UNCHANGED replica
    ELSE /\ Room
         /\ store' = t /\ views' = Append(views, ViewOf(t))
         /\ behind' = [n \in Nodes |-> behind[n] + 1]

\* What every member has applied is forgotten.
Apply(n) ==
    /\ behind[n] > 0
    /\ behind' = [behind EXCEPT ![n] = @ - 1]
    /\ views' = IF \A m \in Nodes : behind'[m] < Len(views) - 1 THEN Tail(views) ELSE views
    /\ UNCHANGED <<delayed, store, publication, proof, worker, kernel>>

-----------------------------------------------------------------------------
(* Consensus freshness (consensus_freshness.rs, permits.rs).               *)

Break(r) == [r EXCEPT !.ok = FALSE]

\* mark_unavailable: no new acquisition; a completed binding stays.
MarkUnavailable(n) ==
    /\ proof' = [proof EXCEPT ![n].available = FALSE]
    /\ work' = IF proof[n].available THEN [work EXCEPT ![n] = Break(@)] ELSE work
    /\ UNCHANGED held

\* invalidate: permits and retained bindings end.
Invalidate(n) ==
    /\ proof' = [proof EXCEPT ![n] = NoProof]
    /\ work' = [work EXCEPT ![n] = Break(@)]
    /\ held' = [held EXCEPT ![n] = Break(@)]

\* The lifetime counts from the start of the request.
Remaining(n) == Lifetime - request[n].age

\* record_applied, and record_probe when it is refused (a fence that rises
\* in between has the effect of the next round finding it up).
RecordProbe(n) ==
    IF request[n].up /\ Remaining(n) > 0
    THEN /\ proof' = [proof EXCEPT ![n] = [left |-> Remaining(n), available |-> TRUE]]
         /\ IF proof[n].left = 0
            THEN /\ work' = [work EXCEPT ![n] = Break(@)]
                 /\ held' = [held EXCEPT ![n] = Break(@)]
            ELSE UNCHANGED <<work, held>>
    ELSE Invalidate(n)

-----------------------------------------------------------------------------
(* Health publication (health_publication.rs, health.rs, health/local.rs). *)

AfterProbe(n, ok) == IF ok THEN UNCHANGED <<proof, work, held>> ELSE Invalidate(n)

\* The bound on the rounds of a member that does not fail.
MayProbe(n) == n \in Faulty \/ store.node_probe_ticks[n] < MaxTick

\* One round up to the publication, by what the command, readiness and the
\* activation fence say: healthy, healthy but fenced away from placement,
\* failed for longer than the failover delay, or not ready to publish.
Probe(n, outcome) ==
    LET ok == outcome \in {"up", "fenced"} /\ health[n] # "fault"
    IN /\ request[n] = NoRequest /\ MayProbe(n)
       /\ IF outcome = "unready"
          THEN UNCHANGED <<request, health>> /\ Invalidate(n)
          ELSE /\ request' = [request EXCEPT ![n] = [phase |-> "sent", age |-> 0,
                                                     up |-> ok /\ outcome = "up", tick |-> 0]]
               /\ health' = [health EXCEPT ![n] =
                                IF @ = "fault" THEN @ ELSE IF ok THEN "up" ELSE "down"]
               /\ AfterProbe(n, ok)
       /\ UNCHANGED <<delayed, replica, waiting, cleanup, acked, kernel>>

\* Every report that is applied advances the member's tick.
MayReport(n) ==
    /\ Room
    /\ store.node_probe_ticks[n] < IF n \in Faulty THEN MaxFaultyTick ELSE MaxTick

Word(up) == IF up THEN "up" ELSE "down"

\* The proof needs the report in the member's own applied state.
Published(n) ==
    /\ request[n].phase = "committed"
    /\ View(n).node_probe_ticks[n] >= request[n].tick
    /\ RecordProbe(n)
    /\ request' = [request EXCEPT ![n] = NoRequest]
    /\ UNCHANGED <<delayed, replica, health, waiting, cleanup, acked, kernel>>

\* failure_kind: transport trouble or a rejection; the report may commit yet.
PublishFails(n, kind) ==
    /\ n \in Faulty /\ request[n].phase # "none"
    /\ request' = [request EXCEPT ![n] = NoRequest]
    /\ delayed' = [delayed EXCEPT ![n] =
           IF request[n].phase = "sent" THEN [Nothing EXCEPT !.kind = Word(request[n].up)] ELSE @]
    /\ IF kind = "unavailable" THEN MarkUnavailable(n) ELSE Invalidate(n)
    /\ UNCHANGED <<replica, health, waiting, cleanup, acked, kernel>>

-----------------------------------------------------------------------------
(* Bind policy, takeover delay and intent (bind_policy.rs, takeover.rs,    *)
(* intent.rs), on the store `t` a member has applied.                      *)

Fresh(t, n) == IF n = NoNode THEN FALSE ELSE IsNodeProbeFresh(t, n)
TickOf(t, n) == IF n = NoNode THEN NoTick ELSE t.node_probe_ticks[n]

PredecessorGone(t, a) ==
    a.previous_holder = NoNode \/ a.previous_holder_released \/ ~Fresh(t, a.previous_holder)

\* should_bind_or_keep_vip with open gates, for a first activation.
MayBind(t, n) ==
    LET a == t.assigned
    IN a.holder = n /\ t.latest_probe_tick >= a.activation_tick /\ PredecessorGone(t, a)

\* A plausible slip: no time for the predecessor's cleanup.
TakeoverLifetimeProofOnly == Lifetime

\* takeover_lifetime
TakeoverLifetime == Lifetime + Cleanup

\* TakeoverDelay::ready: who need not wait, and who does not wait yet.
NeedsNoWait(a) ==
    \/ a.previous_holder # NoNode /\ a.previous_holder_released
    \/ a.previous_holder = NoNode /\ a.generation = 1

Waits(t, n) ==
    LET a == t.assigned
    IN a.holder = n /\ ~NeedsNoWait(a)
       /\ ~(a.previous_holder # NoNode /\ Fresh(t, a.previous_holder))

\* The wait restarts with a new generation or a new report of the predecessor.
WaitAfter(t, w) ==
    LET a == t.assigned
        tick == TickOf(t, a.previous_holder)
    IN IF w # NoWait /\ w.generation = a.generation /\ w.tick = tick THEN w
       ELSE [generation |-> a.generation, tick |-> tick, waited |-> 0]

\* EffectIntent::remains_valid of a first activation.
IntentHolds(n) ==
    LET t == View(n) IN
    /\ t.assigned = work[n].for
    /\ MayBind(t, n)
    /\ ~work[n].for.previous_holder_released =>
           TickOf(t, work[n].for.previous_holder) = work[n].tick

\* EffectAuthorization::check_applied
Authorized(n) ==
    work[n].ok /\ work[n].left > 0 /\ health[n] = "up" /\ IntentHolds(n)

\* CompletedBindingWitness::retain and matches_state.  For one generation an
\* assignment changes only by its release, which a retained binding survives.
Retained(n) == held[n].generation # 0 /\ held[n].ok /\ proof[n].left > 0
Matches(n) ==
    View(n).assigned.holder = n /\ View(n).assigned.generation = held[n].generation

\* should_publish_release
Owes(n, a) ==
    /\ a.holder # NoNode
    /\ a.previous_holder = n /\ ~a.previous_holder_released
    /\ acked[n] # a.generation

-----------------------------------------------------------------------------
(* The worker (worker.rs), one per member.                                 *)

Idle(n) == work[n].phase = "idle"

\* Lines 60-87, once vip_effects_armed.
CleanupDue(n) ==
    \/ cleanup[n]
    \/ held[n] # NotHeld /\ ~(Retained(n) /\ Matches(n))
    \/ held[n] = NotHeld /\ Owes(n, View(n).assigned)

\* Lines 88-136: unbind_all, and the start of maybe_publish_release for the
\* assignment read before it (LocalVip has the steps of the deletion).
Delete(n) ==
    LET a == View(n).assigned
    IN /\ Idle(n) /\ CleanupDue(n)
       /\ addr' = [addr EXCEPT ![n] = FALSE] /\ stuck' = [stuck EXCEPT ![n] = FALSE]
       /\ over' = [over EXCEPT ![n] = 0]
       /\ held' = [held EXCEPT ![n] = NotHeld]
       /\ cleanup' = [cleanup EXCEPT ![n] = FALSE]
       /\ work' = [work EXCEPT ![n] =
              IF Owes(n, a) THEN [NoWork EXCEPT !.phase = "publish", !.for = a] ELSE @]
       /\ acked' = [acked EXCEPT ![n] =
              IF a.holder # NoNode /\ (a.previous_holder # n \/ a.previous_holder_released)
              THEN 0 ELSE @]
       /\ UNCHANGED <<delayed, replica, publication, proof, waiting>>

\* A plausible slip: the release is due whether or not the delete succeeded.
AfterDeleteFailureReleases(n) ==
    IF Owes(n, View(n).assigned)
    THEN [NoWork EXCEPT !.phase = "publish", !.for = View(n).assigned] ELSE NoWork

AfterDeleteFailure(n) == NoWork

\* All attempts failed and the address is still there: the cleanup stays due.
DeleteFails(n) ==
    /\ Idle(n) /\ CleanupDue(n) /\ n \in Faulty /\ addr[n]
    /\ stuck' = [stuck EXCEPT ![n] = TRUE]
    /\ held' = [held EXCEPT ![n] = NotHeld]
    /\ cleanup' = [cleanup EXCEPT ![n] = TRUE]
    /\ work' = [work EXCEPT ![n] = AfterDeleteFailure(n)]
    /\ UNCHANGED <<delayed, replica, publication, proof, waiting, acked, addr, over>>

ReleaseFails(n, kind) ==
    /\ n \in Faulty /\ work[n].phase = "publish"
    /\ delayed' = [delayed EXCEPT ![n] = [kind |-> "released", generation |-> work[n].for.generation]]
    /\ work' = [work EXCEPT ![n] = NoWork]
    /\ IF kind = "unavailable"
       THEN proof' = [proof EXCEPT ![n].available = FALSE] /\ UNCHANGED held
       ELSE proof' = [proof EXCEPT ![n] = NoProof] /\ held' = [held EXCEPT ![n] = Break(@)]
    /\ UNCHANGED <<replica, publication, waiting, cleanup, acked, kernel>>

\* Lines 138-188 up to the first kernel command, of a first bind.
MayAcquire(n) ==
    /\ Idle(n) /\ ~CleanupDue(n) /\ held[n] = NotHeld
    /\ health[n] = "up" /\ proof[n].available /\ proof[n].left > 0

Acquire(n) ==
    /\ MayAcquire(n)
    /\ LET t == View(n)
           w == IF Waits(t, n) THEN WaitAfter(t, waiting[n]) ELSE NoWait
           ready == \/ t.assigned.holder = n /\ NeedsNoWait(t.assigned)
                    \/ Waits(t, n) /\ w.waited >= TakeoverLifetime
       IN /\ waiting' = [waiting EXCEPT ![n] = w]
          /\ work' = IF MayBind(t, n) /\ ready
                     THEN [work EXCEPT ![n] =
                              [phase |-> "bind", for |-> t.assigned, left |-> proof[n].left,
                               tick |-> TickOf(t, t.assigned.previous_holder), ok |-> TRUE]]
                     ELSE work
    /\ UNCHANGED <<delayed, replica, publication, proof, held, cleanup, acked, kernel>>

AddAddress(n) ==
    /\ work[n].phase = "bind" /\ Authorized(n)
    /\ addr' = [addr EXCEPT ![n] = TRUE]
    /\ work' = [work EXCEPT ![n].phase = "added"]
    /\ UNCHANGED <<delayed, replica, publication, proof, waiting, held, cleanup, acked,
                   stuck, over>>

BindDone(n) ==
    /\ work[n].phase = "added" /\ Authorized(n)
    /\ held' = [held EXCEPT ![n] = [generation |-> work[n].for.generation, ok |-> TRUE]]
    /\ acked' = [acked EXCEPT ![n] = 0]
    /\ work' = [work EXCEPT ![n] = NoWork]
    /\ UNCHANGED <<delayed, replica, publication, proof, waiting, cleanup, kernel>>

\* The authorization ended, at any await: what was begun is cleaned up.
LoseBind(n) ==
    /\ work[n].phase \in {"bind", "added"} /\ ~Authorized(n)
    /\ work' = [work EXCEPT ![n] = NoWork]
    /\ cleanup' = [cleanup EXCEPT ![n] = TRUE]
    /\ UNCHANGED <<delayed, replica, publication, proof, waiting, held, acked, kernel>>

\* A member that retains its binding repeats the commands every tick.
Reasserts(n) ==
    Idle(n) /\ ~CleanupDue(n) /\ held[n] # NotHeld /\ health[n] = "up" /\ proof[n].available

\* A first bind or a reassertion fails.  fail_binding: unhealthy for the rest
\* of the process, which also ends the retained binding.
BindFails(n) ==
    /\ n \in Faulty /\ (work[n].phase \in {"bind", "added"} \/ Reasserts(n))
    /\ work' = [work EXCEPT ![n] = NoWork]
    /\ cleanup' = [cleanup EXCEPT ![n] = TRUE]
    /\ health' = [health EXCEPT ![n] = "fault"]
    /\ held' = [held EXCEPT ![n] = Break(@)]
    /\ UNCHANGED <<delayed, replica, request, proof, waiting, acked, kernel>>

-----------------------------------------------------------------------------
(* Time.  A member whose authority to have the address has ended removes   *)
(* it in less than the cleanup budget, unless the kernel refuses.          *)

Entitled(n) ==
    \/ held[n] # NotHeld /\ Retained(n) /\ Matches(n)
    \/ work[n].phase \in {"bind", "added"} /\ Authorized(n)

Overdue(n) == addr[n] /\ ~Entitled(n)

Tick ==
    /\ \A n \in Nodes : Overdue(n) /\ ~stuck[n] => over[n] + 1 < Cleanup
    /\ proof' = [n \in Nodes |-> IF proof[n].left <= 1 THEN NoProof
                                 ELSE [proof[n] EXCEPT !.left = @ - 1]]
    /\ request' = [n \in Nodes |-> IF ~request[n].up THEN request[n]
                                   ELSE [request[n] EXCEPT
                                            !.age = IF @ < Lifetime THEN @ + 1 ELSE @]]
    /\ waiting' = [n \in Nodes |-> IF waiting[n] = NoWait THEN NoWait
                                   ELSE [waiting[n] EXCEPT
                                            !.waited = IF @ < TakeoverLifetime THEN @ + 1 ELSE @]]
    /\ work' = [n \in Nodes |-> IF work[n].left <= 1 THEN [Break(work[n]) EXCEPT !.left = 0]
                                ELSE [work[n] EXCEPT !.left = @ - 1]]
    /\ held' = [n \in Nodes |-> IF proof[n].left <= 1 THEN Break(held[n]) ELSE held[n]]
    /\ over' = [n \in Nodes |-> IF Overdue(n) /\ ~stuck[n] THEN over[n] + 1 ELSE 0]
    /\ UNCHANGED <<delayed, replica, health, cleanup, acked, addr, stuck>>

=============================================================================
