------------------------------ MODULE LocalVip ------------------------------
(***************************************************************************)
(* One member's handling of one VIP on its own kernel: the worker of       *)
(* vip/reconcile/worker.rs, bind_kernel and unbind of vip.rs, the child    *)
(* tracker of process.rs and the stop sequence of main.rs.                 *)
(*                                                                         *)
(* Every `ip` command is a child process.  A caller that is cancelled, or  *)
(* whose command misses its deadline, leaves a killed child behind that    *)
(* may still change the kernel until it is reaped.  A release tells the    *)
(* cluster that the address is gone for good.                              *)
(*                                                                         *)
(* The committed assignments are abstracted to their generation: the odd   *)
(* ones name this member as the holder, the even ones as the previous      *)
(* holder.  `seen` is the generation this replica has applied.  Leader,    *)
(* health, freshness and admission are one authority, which may end at any *)
(* moment (Cancel, `lapsed` of Observe).                                   *)
(***************************************************************************)
EXTENDS Naturals, FiniteSets

CONSTANTS
    MaxGeneration,     \* bound on the generations of the VIP
    MaxOrphans         \* bound on killed children alive at a time

Attempts == 3          \* SHUTDOWN_UNBIND_ATTEMPTS

ASSUME BoundsAssumption == MaxGeneration \in Nat /\ MaxOrphans \in Nat

VARIABLES
    gen, seen, released,          \* committed generation, applied one, acknowledged
    late,                         \* a release whose submission failed, still in flight
    addr,                         \* the address is on the kernel
    bound, pending, recleanup,    \* LocalVip: bound, pending_first_bind, needs_recleanup
    cmd, orphans, unsettled,      \* the awaited command, killed ones, ChildTracker
    pc, tries, settled, before,   \* the worker's place and what unbind sampled
    first, wasPending,            \* bind_kernel's samples
    cleanup, witness,             \* cleanup_needed, the completed binding's generation
    captured, intent, acked,      \* `assignment`, EffectIntent, released_generations
    faulty, stopping              \* the bind fault, the daemon stops

store == <<gen, seen, released, late>>
tracking == <<bound, pending, recleanup>>
children == <<cmd, orphans, unsettled>>
sampled == <<settled, before, first, wasPending>>
memory == <<cleanup, witness, captured, intent, acked, faulty, stopping>>
vars == <<store, addr, tracking, children, pc, tries, sampled, memory>>

Kinds == {"add", "del", "marker"}
NoCommand == [kind |-> "none", phase |-> "none", done |-> FALSE]
Results == {"ok", "failed", "timedout"}

Mine(g) == g % 2 = 1
Settled == unsettled = 0

Init ==
    /\ gen = 1 /\ seen = 0 /\ released = FALSE /\ late = 0
    /\ addr = FALSE
    /\ bound = FALSE /\ pending = FALSE /\ recleanup = FALSE
    /\ cmd = NoCommand /\ orphans = {} /\ unsettled = 0
    /\ pc = "top" /\ tries = 0
    /\ settled = FALSE /\ before = FALSE /\ first = FALSE /\ wasPending = FALSE
    /\ cleanup = FALSE /\ witness = 0 /\ captured = 0 /\ intent = 0 /\ acked = 0
    /\ faulty = FALSE /\ stopping = FALSE

-----------------------------------------------------------------------------
(* The cluster: the committed assignment moves on, this replica follows.   *)

Reassign ==
    /\ gen < MaxGeneration
    /\ gen' = gen + 1 /\ released' = FALSE
    /\ UNCHANGED <<seen, late, addr, tracking, children, pc, tries, sampled, memory>>

Apply ==
    /\ seen < gen
    /\ seen' \in seen + 1 .. gen
    /\ UNCHANGED <<gen, released, late, addr, tracking, children, pc, tries, sampled, memory>>

-----------------------------------------------------------------------------
(* Children (process.rs).                                                  *)

Spawn(kind) == [kind |-> kind, phase |-> "running", done |-> FALSE]

EffectOn(kind) == CASE kind = "add" -> TRUE [] kind = "del" -> FALSE [] OTHER -> addr

\* A child changes the kernel at most once while it lives, killed or not.
CommandActs ==
    /\ cmd.phase = "running" /\ ~cmd.done
    /\ cmd' = [cmd EXCEPT !.done = TRUE]
    /\ addr' = EffectOn(cmd.kind)
    /\ UNCHANGED <<store, tracking, orphans, unsettled, pc, tries, sampled, memory>>

OrphanActs ==
    \E o \in orphans :
        /\ ~o.done
        /\ orphans' = (orphans \ {o}) \cup {[o EXCEPT !.done = TRUE]}
        /\ addr' = EffectOn(o.kind)
        /\ UNCHANGED <<store, tracking, cmd, unsettled, pc, tries, sampled, memory>>

\* TrackedRun::finish(true) of an awaited child: success only after its
\* effect, and a missed deadline is reaped after the kill.
CommandEnds ==
    /\ cmd.phase = "running"
    /\ \E r \in Results :
          /\ r = "ok" => cmd.done
          /\ cmd' = [cmd EXCEPT !.phase = r]
    /\ UNCHANGED <<store, addr, tracking, orphans, unsettled, pc, tries, sampled, memory>>

Orphan(kind, lost, done) ==
    LET id == CHOOSE i \in 1 .. MaxOrphans : \A o \in orphans : o.id # i
    IN orphans \cup {[id |-> id, kind |-> kind, lost |-> lost, done |-> done]}

RoomForOrphan == Cardinality(orphans) < MaxOrphans

\* TrackedRun::finish(false) of an awaited child: its reap timed out, it
\* stays counted and may still act.
CommandLost ==
    /\ cmd.phase = "running" /\ RoomForOrphan
    /\ cmd' = [cmd EXCEPT !.phase = "timedout"]
    /\ orphans' = Orphan(cmd.kind, TRUE, cmd.done)
    /\ unsettled' = unsettled + 1
    /\ UNCHANGED <<store, addr, tracking, pc, tries, sampled, memory>>

\* finish(true) and finish(false) of an abandoned child.
OrphanReaped ==
    \E o \in orphans :
        /\ ~o.lost
        /\ orphans' = orphans \ {o}
        /\ unsettled' = unsettled - 1
        /\ UNCHANGED <<store, addr, tracking, cmd, pc, tries, sampled, memory>>

OrphanLost ==
    \E o \in orphans :
        /\ ~o.lost
        /\ orphans' = (orphans \ {o}) \cup {[o EXCEPT !.lost = TRUE]}
        /\ UNCHANGED <<store, addr, tracking, cmd, unsettled, pc, tries, sampled, memory>>

\* Dropping the caller (Abandonment::drop): a child still running is killed
\* and counted until it is reaped.
Abandon ==
    /\ cmd' = NoCommand
    /\ orphans' = IF cmd.phase = "running" THEN Orphan(cmd.kind, FALSE, cmd.done) ELSE orphans
    /\ unsettled' = IF cmd.phase = "running" THEN unsettled + 1 ELSE unsettled

-----------------------------------------------------------------------------
(* The worker (worker.rs): an iteration up to its first await.             *)

\* should_publish_release for an applied generation.  The applied flag
\* previous_holder_released, which would only spare a repetition, is left out.
Owes(g) == g > 0 /\ ~Mine(g) /\ acked # g

\* Lines 41-97.  The state lock may be taken, then the earlier `assignment`
\* stays; a completed binding may lose freshness or health.  The locals of
\* an iteration start afresh.
Observe(read) ==
    /\ pc = "top" /\ ~stopping
    /\ \E lapsed \in BOOLEAN :
          LET needed == \/ cleanup
                        \/ witness # 0 /\ lapsed
                        \/ read /\ witness \notin {0, seen}
                        \/ read /\ witness = 0 /\ Owes(seen)
          IN /\ captured' = IF read THEN seen ELSE captured
             /\ pc' = IF needed THEN "unbind" ELSE "decide"
             /\ cleanup' = needed
             /\ witness' = IF needed THEN 0 ELSE witness
             /\ before' = (needed /\ Settled)
    /\ tries' = 0 /\ settled' = FALSE
    /\ first' = FALSE /\ wasPending' = FALSE /\ intent' = 0
    /\ UNCHANGED <<store, addr, tracking, children, acked, faulty, stopping>>

\* Lines 138-171 without an acquisition, and 269-280.
Idle ==
    /\ pc = "decide"
    /\ pc' = "top"
    /\ cleanup' \in {FALSE, witness = 0 /\ Owes(seen)}
    /\ UNCHANGED <<store, addr, tracking, children, tries, sampled, witness,
                   captured, intent, acked, faulty, stopping>>

Authorized == intent = seen /\ Mine(seen)

\* bind_kernel up to its first command: the address is tracked before the
\* kernel can have it.
Claim ==
    /\ pc = "decide" /\ Mine(seen) /\ ~faulty
    /\ intent' = seen
    /\ wasPending' = pending
    /\ first' = (pending \/ ~bound)
    /\ bound' = TRUE
    /\ pending' = (pending \/ ~bound)
    /\ pc' = "claim"
    /\ UNCHANGED <<store, addr, recleanup, children, tries, settled, before,
                   cleanup, witness, captured, acked, faulty, stopping>>

MarkAddress ==
    /\ pc = "claim" /\ Authorized
    /\ cmd' = Spawn("marker") /\ pc' = "mark"
    /\ UNCHANGED <<store, addr, tracking, orphans, unsettled, tries, sampled, memory>>

AddAddress ==
    /\ pc = "mark" /\ cmd.phase = "ok" /\ Authorized
    /\ cmd' = Spawn("add") /\ pc' = "add"
    /\ UNCHANGED <<store, addr, tracking, orphans, unsettled, tries, sampled, memory>>

\* The operation lost its authorization: a completed binding may be kept.
Lose ==
    /\ cleanup' \in {TRUE, witness = 0}
    /\ UNCHANGED <<witness, acked, faulty>>

\* Some(Err(..)) latches the bind fault, unless authority was lost as well.
BindFails ==
    /\ pc' = "top" /\ cmd' = NoCommand
    /\ \/ cleanup' = TRUE /\ faulty' = TRUE /\ UNCHANGED <<witness, acked>>
       \/ Lose
    /\ UNCHANGED <<store, addr, recleanup, orphans, unsettled, tries, sampled,
                   captured, intent, stopping>>

Untrack == bound' = FALSE /\ pending' = FALSE

\* A missed deadline is an I/O error: the marker may have reached the kernel.
MarkFails ==
    /\ pc = "mark" /\ cmd.phase \in {"failed", "timedout"}
    /\ IF first /\ ~wasPending /\ cmd.phase = "failed"
       THEN Untrack ELSE UNCHANGED <<bound, pending>>
    /\ BindFails

AddFails ==
    /\ pc = "add" /\ cmd.phase \in {"failed", "timedout"}
    /\ UNCHANGED <<bound, pending>>
    /\ BindFails

\* remove_after_failed_first_bind: the probe proved the address absent.
UndoFirstBind ==
    /\ pc = "add" /\ cmd.phase \in {"failed", "timedout"}
    /\ first /\ ~addr
    /\ cmd' = Spawn("marker") /\ pc' = "undo"
    /\ UNCHANGED <<store, addr, tracking, orphans, unsettled, tries, sampled, memory>>

UndoEnds ==
    /\ pc = "undo" /\ cmd.phase \in Results
    /\ IF cmd.phase = "ok" THEN Untrack ELSE UNCHANGED <<bound, pending>>
    /\ BindFails

\* finish_bind and CompletedBindingWitness::completed.
BindDone ==
    /\ pc = "add" /\ cmd.phase = "ok" /\ Authorized
    /\ pending' = FALSE
    /\ \/ witness' = intent /\ acked' = 0 /\ UNCHANGED <<cleanup, faulty>>
       \/ Lose
    /\ pc' = "top" /\ cmd' = NoCommand
    /\ UNCHANGED <<store, addr, bound, recleanup, orphans, unsettled, tries,
                   sampled, captured, intent, stopping>>

\* EffectAuthorization::run drops the operation.
Cancel ==
    /\ pc \in {"claim", "mark", "add", "undo"}
    /\ cmd.phase = "running" => RoomForOrphan
    /\ Abandon
    /\ Lose
    /\ pc' = "top"
    /\ UNCHANGED <<store, addr, tracking, tries, sampled, captured, intent, stopping>>

-----------------------------------------------------------------------------
(* unbind_all for this VIP: up to three attempts of unbind (vip.rs).       *)

\* A plausible slip: an address that is not tracked as bound needs no delete.
NothingToDeleteForgets == ~bound

NothingToDelete == ~bound /\ ~recleanup

\* A writer reaped after this sample may re-add the address after the delete.
Unbind ==
    /\ pc = "unbind"
    /\ settled' = Settled
    /\ tries' = tries + 1
    /\ IF NothingToDelete THEN pc' = "unbound" /\ cmd' = cmd
                          ELSE pc' = "delete" /\ cmd' = Spawn("del")
    /\ UNCHANGED <<store, addr, tracking, orphans, unsettled, before, first,
                   wasPending, memory>>

\* A failed attempt is repeated; the last failure leaves the cleanup pending.
UnbindFails ==
    /\ cmd' = NoCommand
    /\ pc' = IF tries < Attempts THEN "unbind" ELSE IF stopping THEN "stopped" ELSE "top"
    /\ UNCHANGED <<store, addr, tracking, orphans, unsettled, tries, sampled, memory>>

\* verify_delete_result: a failed delete counts when the address is absent.
DeleteEnds ==
    /\ pc = "delete" /\ cmd.phase \in Results
    /\ \/ /\ cmd.phase = "ok" \/ (cmd.phase = "failed" /\ ~addr)
          /\ cmd' = Spawn("marker") /\ pc' = "unmark"
          /\ UNCHANGED <<store, addr, tracking, orphans, unsettled, tries, sampled, memory>>
       \/ cmd.phase # "ok" /\ UnbindFails

\* A plausible slip: one successful delete settles the matter.
UntrackDeletedForgets == bound' = FALSE /\ pending' = FALSE /\ recleanup' = FALSE

UntrackDeleted == Untrack /\ recleanup' = ~settled

\* OwnershipMarker::delete verifies a failed delete as well.
UnmarkEnds ==
    /\ pc = "unmark" /\ cmd.phase \in Results
    /\ \/ /\ cmd.phase # "timedout"
          /\ UntrackDeleted
          /\ cmd' = NoCommand /\ pc' = "unbound"
          /\ UNCHANGED <<store, addr, orphans, unsettled, tries, sampled, memory>>
       \/ cmd.phase # "ok" /\ UnbindFails

\* A plausible slip: only the end of the cleanup is checked.
MayAcknowledgeLate == Settled

\* settled_before_cleanup and commands_settled.
MayAcknowledge == before /\ Settled

\* Lines 106-124 and maybe_publish_release up to the submission.
Unbound ==
    /\ pc = "unbound" /\ ~stopping
    /\ cleanup' = recleanup
    /\ pc' = IF MayAcknowledge /\ Owes(captured) THEN "publish" ELSE "top"
    /\ acked' = IF MayAcknowledge /\ Mine(captured) THEN 0 ELSE acked
    /\ UNCHANGED <<store, addr, tracking, children, tries, sampled, witness,
                   captured, intent, faulty, stopping>>

\* KafRequest::VipReleased is accepted for the current generation only.
Released(g) == released \/ (g = gen /\ ~Mine(g))

AfterPublish == pc' = IF stopping THEN "stopped" ELSE "top"

Publish ==
    /\ pc = "publish"
    /\ released' = Released(captured)
    /\ acked' = captured
    /\ AfterPublish
    /\ UNCHANGED <<gen, seen, late, addr, tracking, children, tries, sampled,
                   cleanup, witness, captured, intent, faulty, stopping>>

\* The submission failed; the entry may commit later all the same.
PublishFails ==
    /\ pc = "publish"
    /\ late' = captured
    /\ AfterPublish
    /\ UNCHANGED <<gen, seen, released, addr, tracking, children, tries, sampled, memory>>

LateRelease ==
    /\ late # 0
    /\ released' = Released(late)
    /\ late' = 0
    /\ UNCHANGED <<gen, seen, addr, tracking, children, pc, tries, sampled, memory>>

-----------------------------------------------------------------------------
(* The stop sequence (main.rs): the worker is aborted wherever it is.      *)

Stop ==
    /\ ~stopping
    /\ cmd.phase = "running" => RoomForOrphan
    /\ Abandon
    /\ stopping' = TRUE /\ pc' = "settling"
    /\ UNCHANGED <<store, addr, tracking, tries, sampled, cleanup, witness,
                   captured, intent, acked, faulty>>

\* wait_commands_settled, then the cleanup of release_local_vips.
StopCleanup ==
    /\ pc = "settling"
    /\ before' = Settled
    /\ tries' = 0 /\ pc' = "unbind"
    /\ UNCHANGED <<store, addr, tracking, children, settled, first, wasPending, memory>>

StopUnbound ==
    /\ pc = "unbound" /\ stopping
    /\ pc' = IF MayAcknowledge THEN "handoff" ELSE "stopped"
    /\ UNCHANGED <<store, addr, tracking, children, tries, sampled, memory>>

\* handoff::publish: the unhealthy report is applied first, then the
\* assignments are read.
Handoff ==
    /\ pc = "handoff"
    /\ captured' = seen
    /\ pc' = IF seen > 0 /\ ~Mine(seen) THEN "publish" ELSE "stopped"
    /\ UNCHANGED <<store, addr, tracking, children, tries, sampled, cleanup,
                   witness, intent, acked, faulty, stopping>>

Cluster == Reassign \/ Apply \/ LateRelease
Child == CommandActs \/ OrphanActs \/ CommandEnds \/ CommandLost \/ OrphanReaped \/ OrphanLost

Worker ==
    \/ \E read \in BOOLEAN : Observe(read)
    \/ Idle \/ Claim \/ MarkAddress \/ AddAddress \/ MarkFails \/ AddFails
    \/ UndoFirstBind \/ UndoEnds \/ BindDone \/ Cancel
    \/ Unbind \/ DeleteEnds \/ UnmarkEnds \/ Unbound \/ Publish \/ PublishFails
    \/ StopCleanup \/ StopUnbound \/ Handoff

Next == Cluster \/ Child \/ Worker \/ Stop

Spec == Init /\ [][Next]_vars

-----------------------------------------------------------------------------
(* Properties.                                                             *)

Writer(c) == c.kind = "add" /\ ~c.done
Killed == {o \in orphans : Writer(o)}

\* An acknowledged release is true and stays true: the address is gone and
\* no command of this process can bring it back, whatever was cancelled,
\* timed out, stopped or submitted late (CHANGELOG.md:43-46; worker.rs:94-123,
\* main.rs:127-149).
ReleaseIsTruthful ==
    released => ~addr /\ Killed = {} /\ ~(cmd.phase = "running" /\ Writer(cmd))

\* When no killed command is left, every address on the kernel is one that
\* the next cleanup will delete: neither a cancelled bind nor a delete that
\* raced a killed writer loses track of it (vip.rs:249-256, 464-473).
AddressIsTracked == (addr /\ Settled) => bound \/ recleanup

-----------------------------------------------------------------------------
(* Fairness.  The worker is one loop that awaits nothing without a bound:  *)
(* every command has a deadline and a killed child is reaped or given up.  *)
(* The state lock is held for short writes only, and a delete that is      *)
(* tried again and again succeeds at last.                                 *)

\* wait_lost_command: the daemon stops once a killed command is lost.
StopOnLost == (\E o \in orphans : o.lost) /\ Stop

CommandSucceeds == CommandEnds /\ cmd'.phase = "ok"

Fairness ==
    /\ WF_vars(Worker) /\ WF_vars(Apply)
    /\ WF_vars(CommandEnds) /\ WF_vars(OrphanReaped \/ OrphanLost)
    /\ WF_vars(StopOnLost)
    /\ SF_vars(Observe(TRUE)) /\ SF_vars(CommandActs) /\ SF_vars(CommandSucceeds)

LiveSpec == Spec /\ Fairness

\* An address that this member no longer owns is removed, or the daemon
\* stops (its supervisor takes over), as long as the assignment stays away:
\* no lost completion, failed delete or killed writer leaves the worker idle
\* with the address in place (worker.rs:60-136).
RevokedIsRemoved ==
    [](addr /\ ~Mine(gen) => <>(~addr \/ Mine(gen) \/ stopping))

=============================================================================
