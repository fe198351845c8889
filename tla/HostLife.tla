------------------------------ MODULE HostLife ------------------------------
(***************************************************************************)
(* One host over the lives of its daemon: the addresses and the ownership  *)
(* markers on the kernel, the YAML on disk, the process from its startup   *)
(* cleanup through the supervised run to its exit (main.rs, vip/startup.rs,*)
(* vip/ownership.rs), the cluster guard that may end it (raft/control.rs,  *)
(* raft/guard.rs), the transition hooks and announcements of a binding     *)
(* (vip/notify.rs, vip/announce.rs), and the service manager that runs the *)
(* post-stop cleanup and starts the daemon again (keepafloatd@.service).   *)
(*                                                                         *)
(* A crash may come between any two `ip` commands.  LocalVip has the finer *)
(* grain of one binding: killed children that act late, release            *)
(* acknowledgements.  Here only a child that survives its kill (`lost`)    *)
(* remains, since it is what can separate an address from its marker.      *)
(***************************************************************************)
EXTENDS ClusterConfig

CONSTANTS
    Ips,               \* the addresses that are or were VIPs
    Files,             \* the contents of configuration files, by name
    Yamls,             \* the files an operator may put in place
    PeerFiles,         \* the files other members may run
    Peers,             \* the other members of the roster
    QueueCapacity,     \* QUEUE_CAPACITY
    StartLimit,        \* StartLimitBurst
    Scenarios          \* first configuration, hooks or not, and the budget: how many
                       \* edits, crashes, faults and guard rounds may happen

Strikes == 3           \* GUARD_STRIKES_TO_RESET
Majority == (Cardinality(Peers) + 1) \div 2 + 1

ASSUME HostAssumption == QueueCapacity \in Nat \ {0} /\ StartLimit \in Nat \ {0}

VARIABLES
    yaml, addrs, markers,       \* the host: the file, the addresses, the marker routes
    strays,                     \* history: addresses some child survived its kill for
    wanted, starts, result,     \* the service manager: not stopped, starts, last result
    notify,                     \* a hook script is configured
    left,                       \* what is left of the budget
    pc, mode, cfg, todo, stale, \* the process: its place, cleanup-only or not, its lists
    bound, pending, step, lost, \* LocalVip and its workers, lost children
    faulty, reason, failed,     \* the bind fault, StopReason, lifecycle failures
    formed, strikes, streak,    \* the guard: the incarnation is known, its counters, history
    queue, told, dropped,       \* hooks: waiting, last started, rejected releases
    announcing                  \* running announcements

host == <<yaml, addrs, markers, strays>>
manager == <<wanted, starts, result>>
lists == <<mode, cfg, todo, stale>>
tracking == <<bound, pending, step, lost>>
guard == <<formed, strikes, streak>>
hooks == <<queue, told, dropped>>
ending == <<faulty, reason, failed>>
vars == <<host, manager, notify, left, pc, lists, tracking, ending, guard, hooks, announcing>>

\* The files that load, as the process then has them.  The digest of a
\* fingerprint is the file that stands for all files with these bytes.
Loadable == {f \in DOMAIN Files : Loads(Files[f])}
Digest(bytes) == CHOOSE f \in Loadable : Fingerprint(Files[f]) = bytes
Loaded == {[file |-> f, vips |-> Table(Files[f]), identity |-> Digest(Fingerprint(Files[f]))] :
             f \in Loadable}
Config(f) == CHOOSE c \in Loaded : c.file = f
Vips(f) == Config(f).vips
Configured(c) == {b.ip : b \in Vips(c)}
Target(c, ip) == CHOOSE b \in Vips(c) : b.ip = ip
On(ip) == {a \in addrs : a.ip = ip}
NoStrikes == [config |-> 0, epoch |-> 0]
Unheld == [ip \in Ips |-> "idle"]
Untold == [ip \in Ips |-> "none"]

Init ==
    /\ \E s \in Scenarios : yaml = s.yaml /\ notify = s.notify /\ left = s.budget
    /\ addrs = {} /\ markers = {} /\ strays = {}
    /\ wanted = TRUE /\ starts = 0 /\ result = "none"
    /\ pc = "down" /\ mode = "daemon" /\ cfg = yaml /\ todo = <<>> /\ stale = {}
    /\ bound = {} /\ pending = {} /\ step = Unheld /\ lost = {}
    /\ faulty = FALSE /\ reason = "none" /\ failed = FALSE
    /\ formed = FALSE /\ strikes = NoStrikes /\ streak = NoStrikes
    /\ queue = <<>> /\ told = Untold /\ dropped = {} /\ announcing = {}

Spend(what) == left[what] > 0 /\ left' = [left EXCEPT ![what] = @ - 1]

\* The process is gone, and with it everything it held in memory.  The
\* service manager collects its children before it runs anything else.
Gone ==
    /\ bound' = {} /\ pending' = {} /\ step' = Unheld /\ lost' = {}
    /\ faulty' = FALSE /\ reason' = "none" /\ failed' = FALSE
    /\ formed' = FALSE /\ strikes' = NoStrikes /\ streak' = NoStrikes
    /\ queue' = <<>> /\ told' = Untold /\ dropped' = {} /\ announcing' = {}
    /\ todo' = <<>> /\ stale' = {}

\* The end of the daemon leads to ExecStopPost, the end of that to rest.
Exits(outcome) ==
    /\ Gone
    /\ pc' = IF mode = "daemon" THEN "exited" ELSE "down"
    /\ result' = IF mode = "post" /\ result = "failed" THEN "failed" ELSE outcome
    /\ UNCHANGED <<yaml, strays, wanted, starts, notify, mode, cfg>>

-----------------------------------------------------------------------------
(* The service manager, the operator, crashes.                             *)

\* main: a file that does not load ends the process before it touches the host.
Launch(m, before) ==
    /\ mode' = m
    /\ IF yaml \in Loadable
       THEN cfg' = yaml /\ pc' = "discover" /\ result' = before
       ELSE /\ pc' = IF m = "daemon" THEN "exited" ELSE "down"
            /\ result' = "failed" /\ UNCHANGED cfg
    /\ UNCHANGED <<host, wanted, notify, left, todo, stale, tracking, ending, guard,
                   hooks, announcing>>

\* Restart=on-failure within StartLimitBurst; an explicit stop prevents it.
Start ==
    /\ pc = "down" /\ wanted /\ result \in {"none", "failed"} /\ starts < StartLimit
    /\ starts' = starts + 1
    /\ Launch("daemon", "none")

\* ExecStopPost: --cleanup-only with the configuration as it is now.
StartPost ==
    /\ pc = "exited" /\ UNCHANGED starts
    /\ Launch("post", result)

\* A panic, SIGKILL or the stop timeout.  The kernel keeps what it has; a
\* reboot clears addresses and markers alike and is the initial state again.
Crash ==
    /\ pc \notin {"down", "exited"} /\ Spend("crashes")
    /\ Exits("failed")
    /\ UNCHANGED <<addrs, markers>>

EditYaml ==
    /\ Spend("edits")
    /\ yaml' \in Yamls \ {yaml}
    /\ UNCHANGED <<addrs, markers, strays, manager, notify, pc, lists, tracking, ending, guard,
                   hooks, announcing>>

OperatorStop ==
    /\ wanted /\ wanted' = FALSE
    /\ UNCHANGED <<host, starts, result, notify, left, pc, lists, tracking, ending,
                   guard, hooks, announcing>>

-----------------------------------------------------------------------------
(* startup_cleanup, in the daemon and in the post-stop command.            *)

\* parse_ownership_discovery: the attached addresses that carry a marker.
Owned == {a \in addrs : a.ip \in markers}
Ambiguous == \E a, b \in Owned : a.ip = b.ip /\ a.dev # b.dev

Before(a, b) == a.ip < b.ip \/ (a.ip = b.ip /\ a.dev < b.dev)

\* A plausible slip: the configured prefix wins over the attached one.
MergeCleanupTargetsConfigured(c) ==
    LET fresh == {a \in Owned : \A t \in Vips(c) : <<t.ip, t.dev>> # <<a.ip, a.dev>>}
    IN SetToSortSeq(Vips(c) \cup fresh, Before)

\* A plausible slip: only configured VIPs are reclaimed.
MergeCleanupTargetsYaml(c) == SetToSortSeq(Vips(c), Before)

\* merge_cleanup_targets: by address and interface, the kernel's prefix wins.
MergeCleanupTargets(c) ==
    LET kept == {t \in Vips(c) : \A a \in Owned : <<t.ip, t.dev>> # <<a.ip, a.dev>>}
    IN SetToSortSeq(kept \cup Owned, Before)

Discover ==
    /\ pc = "discover" /\ ~Ambiguous
    /\ todo' = MergeCleanupTargets(cfg)
    /\ stale' = markers
    /\ pc' = "clean"
    /\ UNCHANGED <<host, manager, notify, left, mode, cfg, tracking, ending, guard,
                   hooks, announcing>>

Proceed ==
    UNCHANGED <<yaml, strays, manager, notify, left, pc, mode, cfg, tracking, ending, guard,
                hooks, announcing>>

\* verify_delete_result: a delete that failed counts when no interface has
\* the address.
CleanTarget ==
    /\ pc = "clean" /\ todo # <<>>
    /\ Head(todo) \in addrs \/ On(Head(todo).ip) = {}
    /\ addrs' = addrs \ {Head(todo)}
    /\ todo' = Tail(todo)
    /\ UNCHANGED <<markers, stale>> /\ Proceed

CleanMarker ==
    /\ pc = "clean" /\ todo = <<>> /\ stale # {}
    /\ markers' = markers \ {Min(stale)}
    /\ stale' = stale \ {Min(stale)}
    /\ UNCHANGED <<addrs, todo>> /\ Proceed

\* The cleanup fails for good: an ambiguous marker, or the address is still
\* there on another interface or with another prefix.
CleanupRefused ==
    /\ \/ pc = "discover" /\ Ambiguous
       \/ /\ pc = "clean" /\ todo # <<>>
          /\ Head(todo) \notin addrs /\ On(Head(todo).ip) # {}
    /\ Exits("failed")
    /\ UNCHANGED <<addrs, markers, left>>

\* A command fails or misses its deadline, with or without its effect.
CleanupFails ==
    /\ pc \in {"discover", "clean"} /\ Spend("faults")
    /\ \/ UNCHANGED <<addrs, markers>>
       \/ pc = "clean" /\ todo # <<>> /\ addrs' = addrs \ {Head(todo)} /\ UNCHANGED markers
       \/ pc = "clean" /\ todo = <<>> /\ stale # {} /\ markers' = markers \ {Min(stale)}
          /\ UNCHANGED addrs
    /\ Exits("failed")

PostCleaned ==
    /\ mode = "post" /\ pc = "clean" /\ todo = <<>> /\ stale = {}
    /\ Exits("ok")
    /\ UNCHANGED <<addrs, markers, left>>

Cleanup == Discover \/ CleanTarget \/ CleanMarker \/ CleanupRefused \/ PostCleaned

-----------------------------------------------------------------------------
(* The supervised run: the worker of one VIP, one `ip` command at a time.  *)

\* start_raft and the spawns; it may fail, then nothing was bound.
JoinCluster ==
    /\ mode = "daemon" /\ pc = "clean" /\ todo = <<>> /\ stale = {}
    /\ pc' = "running"
    /\ UNCHANGED <<host, manager, notify, left, lists, tracking, ending, guard, hooks,
                   announcing>>

JoinFails ==
    /\ mode = "daemon" /\ pc = "clean" /\ todo = <<>> /\ stale = {}
    /\ Spend("faults")
    /\ Exits("failed")
    /\ UNCHANGED <<addrs, markers>>

Confirmed(ip) == ip \in bound \ pending
Untrack(ip) == bound' = bound \ {ip} /\ pending' = pending \ {ip}
Worker ==
    /\ strays' = strays \cup lost'
    /\ UNCHANGED <<yaml, manager, notify, pc, lists, failed, guard>>
Goto(ip, s) == step' = [step EXCEPT ![ip] = s]

\* Entries of the hook queue: a MASTER whose binding is held, a MASTER whose
\* binding ended while it waited, a release (BACKUP or FAULT).
Hook(ip, kind) == [ip |-> ip, kind |-> kind]

\* Notifications::enqueue: the newest hook is rejected when the queue is full.
Enqueue(ip, kind) ==
    LET full == Len(queue) >= QueueCapacity
    IN /\ queue' = IF full THEN queue ELSE Append(queue, Hook(ip, kind))
       /\ dropped' = IF kind = "release" /\ full THEN dropped \cup {ip} ELSE dropped \ {ip}
       /\ UNCHANGED told

\* bind_kernel tracks the address before the first command runs.
BeginBind(ip) ==
    /\ pc = "running" /\ step[ip] = "idle" /\ ip \in Configured(cfg) /\ ~faulty
    /\ bound' = bound \cup {ip} /\ pending' = pending \cup {ip} /\ Goto(ip, "mark")
    /\ UNCHANGED <<addrs, markers, left, lost, faulty, reason, hooks, announcing>> /\ Worker

WriteMarker(ip) ==
    /\ pc = "running" /\ step[ip] = "mark"
    /\ markers' = markers \cup {ip} /\ Goto(ip, "add")
    /\ UNCHANGED <<addrs, left, bound, pending, lost, faulty, reason, hooks, announcing>>
    /\ Worker

\* fail_binding: the first fault of the process decides.
RequestRestart == reason' = IF faulty THEN reason ELSE "restart"

\* A failed route command proves that nothing was written; a timeout does
\* not, keeps the tracking and asks for a restart.
MarkerFails(ip) ==
    /\ pc = "running" /\ step[ip] = "mark" /\ Spend("faults")
    /\ faulty' = TRUE /\ Goto(ip, "cleanup")
    /\ \/ UNCHANGED <<markers, reason>> /\ Untrack(ip)
       \/ /\ markers' \in {markers, markers \cup {ip}} /\ RequestRestart
          /\ UNCHANGED <<bound, pending>>
    /\ UNCHANGED <<addrs, lost, hooks, announcing>> /\ Worker

\* The binding completes with its witness: announced, and MASTER queued.
AddAddress(ip) ==
    /\ pc = "running" /\ step[ip] = "add"
    /\ addrs' = addrs \cup {Target(cfg, ip)}
    /\ pending' = pending \ {ip} /\ Goto(ip, "held")
    /\ announcing' = announcing \cup {ip}
    /\ IF notify THEN Enqueue(ip, "master") ELSE UNCHANGED hooks
    /\ UNCHANGED <<markers, left, bound, lost, faulty, reason>> /\ Worker

\* Authorization ends during the bind: the command under way may or may not
\* have acted, and the binding may just have been confirmed.
BindLosesAuthorization(ip) ==
    /\ pc = "running" /\ step[ip] \in {"mark", "add"}
    /\ Goto(ip, "cleanup")
    /\ \/ UNCHANGED <<addrs, markers, pending>>
       \/ step[ip] = "mark" /\ markers' = markers \cup {ip} /\ UNCHANGED <<addrs, pending>>
       \/ /\ step[ip] = "add" /\ addrs' = addrs \cup {Target(cfg, ip)}
          /\ pending' \in {pending, pending \ {ip}} /\ UNCHANGED markers
    /\ UNCHANGED <<left, bound, lost, faulty, reason, hooks, announcing>> /\ Worker

\* remove_after_failed_first_bind: proven absence removes the marker, then
\* the tracking; otherwise both stay for the cleanup.
UndoFirstBind(ip, attached) ==
    IF attached
    THEN UNCHANGED <<bound, pending, markers>>
    ELSE \/ Untrack(ip) /\ markers' = markers \ {ip}
         \/ UNCHANGED <<bound, pending, markers>>

\* The address command fails, or misses its deadline with or without having
\* acted, or is killed and cannot be reaped (it may act until collected).
AddFails(ip) ==
    /\ pc = "running" /\ step[ip] = "add" /\ Spend("faults")
    /\ faulty' = TRUE /\ Goto(ip, "cleanup")
    /\ \E outcome \in {"failed", "late", "acted", "lost"} :
          /\ addrs' = IF outcome = "acted" THEN addrs \cup {Target(cfg, ip)} ELSE addrs
          /\ lost' = IF outcome = "lost" THEN lost \cup {ip} ELSE lost
          /\ IF outcome = "failed" THEN UNCHANGED reason ELSE RequestRestart
          /\ UndoFirstBind(ip, outcome = "acted")
    /\ UNCHANGED <<hooks, announcing>> /\ Worker

LostChildActs(ip) ==
    /\ ip \in lost /\ Target(cfg, ip) \notin addrs
    /\ addrs' = addrs \cup {Target(cfg, ip)}
    /\ UNCHANGED <<yaml, markers, strays, manager, notify, left, pc, lists, tracking, ending, guard,
                   hooks, announcing>>

\* Retention ends; the effect of a MASTER that still waits ends with it.
EndRetention(ip) ==
    /\ pc = "running" /\ step[ip] = "held" /\ Goto(ip, "cleanup")
    /\ queue' = [i \in DOMAIN queue |->
                   IF queue[i] = Hook(ip, "master") THEN Hook(ip, "void") ELSE queue[i]]
    /\ UNCHANGED <<addrs, markers, bound, pending, told, dropped, announcing>>

Revoke(ip) == EndRetention(ip) /\ UNCHANGED <<left, lost, faulty, reason>> /\ Worker

\* The periodic reassertion of a held binding fails, or misses its deadline
\* and may not be reaped: tracking, marker and address stay for the cleanup.
ReassertFails(ip) ==
    /\ EndRetention(ip) /\ Spend("faults") /\ faulty' = TRUE
    /\ \E outcome \in {"failed", "late", "lost"} :
          /\ lost' = IF outcome = "lost" THEN lost \cup {ip} ELSE lost
          /\ IF outcome = "failed" THEN UNCHANGED reason ELSE RequestRestart
    /\ Worker

-----------------------------------------------------------------------------
(* unbind, by a worker or by the stop sequence.                            *)

\* The worker whose VIP it is, or the stop for the VIP it is at.
Unbinds(ip) ==
    /\ step[ip] \in {"cleanup", "delete", "unmark"}
    /\ pc = "running" \/ (pc = "releasing" /\ Head(todo).ip = ip)

\* A plausible slip: the announcement goes on while the address is removed.
CancelAnnouncementLater(ip) ==
    /\ Unbinds(ip) /\ step[ip] = "cleanup"
    /\ Goto(ip, IF ip \in bound THEN "delete" ELSE "idle")
    /\ UNCHANGED <<addrs, markers, left, bound, pending, lost, faulty, reason, hooks, announcing>>
    /\ Worker

\* The announcement is cancelled and joined; an address that is not tracked
\* needs no more.
CancelAnnouncement(ip) ==
    /\ Unbinds(ip) /\ step[ip] = "cleanup"
    /\ announcing' = announcing \ {ip}
    /\ Goto(ip, IF ip \in bound THEN "delete" ELSE "idle")
    /\ UNCHANGED <<addrs, markers, left, bound, pending, lost, faulty, reason, hooks>> /\ Worker

\* A delete that fails because the address is gone counts.
DeleteAddress(ip) ==
    /\ Unbinds(ip) /\ step[ip] = "delete"
    /\ addrs' = addrs \ {Target(cfg, ip)} /\ Goto(ip, "unmark")
    /\ UNCHANGED <<markers, left, bound, pending, lost, faulty, reason, hooks, announcing>>
    /\ Worker

\* A plausible slip: whether the binding was confirmed is read after the unbind.
OwesReleaseHookLate(ip) == notify /\ ip \in bound' \ pending'

\* was_bound of unbind_all_with_progress.
OwesReleaseHook(ip) == notify /\ Confirmed(ip)

DeleteMarker(ip) ==
    /\ Unbinds(ip) /\ step[ip] = "unmark"
    /\ markers' = markers \ {ip} /\ Untrack(ip)
    /\ Goto(ip, IF OwesReleaseHook(ip) THEN "tell" ELSE "idle")
    /\ UNCHANGED <<addrs, left, lost, faulty, reason, hooks, announcing>> /\ Worker

\* One attempt fails, with or without its effect; the next begins anew.
UnbindFails(ip) ==
    /\ Unbinds(ip) /\ step[ip] # "cleanup" /\ Spend("faults")
    /\ Goto(ip, "cleanup")
    /\ \/ UNCHANGED <<addrs, markers>>
       \/ step[ip] = "delete" /\ addrs' = addrs \ {Target(cfg, ip)} /\ UNCHANGED markers
       \/ step[ip] = "unmark" /\ markers' = markers \ {ip} /\ UNCHANGED addrs
    /\ UNCHANGED <<bound, pending, lost, faulty, reason, hooks, announcing>> /\ Worker

TellRelease(ip) ==
    /\ step[ip] = "tell" /\ (pc = "running" \/ (pc = "releasing" /\ Head(todo).ip = ip))
    /\ Enqueue(ip, "release") /\ Goto(ip, "idle")
    /\ UNCHANGED <<addrs, markers, left, bound, pending, lost, faulty, reason, announcing>>
    /\ Worker

Unbind(ip) ==
    CancelAnnouncement(ip) \/ DeleteAddress(ip) \/ DeleteMarker(ip) \/ TellRelease(ip)

-----------------------------------------------------------------------------
(* Hooks and announcements.                                                *)

Hooking ==
    UNCHANGED <<host, manager, notify, left, pc, lists, tracking, ending, guard, dropped,
                announcing>>

\* A plausible slip: a MASTER starts without asking whether the VIP is held.
MayStartAny(h) == TRUE

\* RetainedEffect::start: a MASTER whose binding ended is not started.
MayStart(h) == h.kind # "void"

\* The worker takes the next hook and runs it to its end or its timeout.
RunHook ==
    /\ pc \in {"running", "releasing", "draining"} /\ queue # <<>>
    /\ queue' = Tail(queue)
    /\ LET h == Head(queue)
       IN told' = IF MayStart(h)
                  THEN [told EXCEPT ![h.ip] = IF h.kind = "release" THEN "release" ELSE "master"]
                  ELSE told
    /\ Hooking

\* Once reconciliation is aborted nothing but the retention's own end revokes
\* a waiting MASTER.
HookLapses ==
    /\ pc \in {"releasing", "draining"} /\ queue # <<>> /\ Head(queue).kind = "master"
    /\ queue' = Tail(queue) /\ UNCHANGED told
    /\ Hooking

AnnouncementEnds(ip) ==
    /\ ip \in announcing /\ announcing' = announcing \ {ip}
    /\ UNCHANGED <<host, manager, notify, left, pc, lists, tracking, ending, guard, hooks>>

\* The predecessor's release became known after the bind: announce again.
Reannounce(ip) ==
    /\ pc = "running" /\ step[ip] = "held" /\ announcing' = announcing \cup {ip}
    /\ UNCHANGED <<host, manager, notify, left, pc, lists, tracking, ending, guard, hooks>>

-----------------------------------------------------------------------------
(* The cluster guard.                                                      *)

Epochs == 0..2             \* 0 is the local incarnation

\* A report is the set of the one identity a peer answered with, or empty: it
\* did not answer, or has none.
NoReport == {}

LargestForeignGroup(mine, r) ==
    LET foreign == {p \in Peers : r[p] \notin {mine, NoReport}}
    IN Max({0} \cup {Cardinality({q \in foreign : r[q] = r[p]}) : p \in foreign})

\* ConsecutiveMajority::observe.
Observe(s, group) == IF group >= Majority THEN s + 1 ELSE 0

Fenced == strikes.config >= Strikes \/ strikes.epoch >= Strikes

\* The history the fence is judged by: the rounds in a row in which one
\* majority of the roster ran one and the same other policy or incarnation.
SamePolicy(c, d) ==
    /\ Table(c) = Table(d) /\ Roster(c) = Roster(d)
    /\ c.raft = d.raft /\ c.max_frame_bytes = d.max_frame_bytes
    /\ c.health.interval_ms = d.health.interval_ms
    /\ EffectiveStaleMissedProbes(c.health) = EffectiveStaleMissedProbes(d.health)
    /\ ProbeRounds(c.failover_delay_secs, c) = ProbeRounds(d.failover_delay_secs, d)
    /\ c.failback = d.failback
    /\ c.failback => ProbeRounds(c.failback_delay_secs, c) = ProbeRounds(d.failback_delay_secs, d)

\* One file stands for all files with the same policy.
Policies == {[file |-> f, policy |-> CHOOSE g \in Loadable : SamePolicy(Files[f], Files[g])] :
               f \in Loadable}
Policy(f) == (CHOOSE p \in Policies : p.file = f).policy

Majorities == {Q \in SUBSET Peers : Cardinality(Q) >= Majority}
RunOtherPolicy(files) ==
    \E Q \in Majorities : \A p, q \in Q :
        /\ files[p] # NoReport
        /\ \A c \in files[p], d \in files[q] :
              Policy(c) = Policy(d) /\ Policy(c) # Policy(cfg)
RunOtherEpoch(epochs) ==
    \E Q \in Majorities, e \in Epochs \ {0} : \A p \in Q : epochs[p] = {e}
Lengthen(s, majority) == IF majority THEN s + 1 ELSE 0

\* A probe answers with the fingerprint of what the peer runs, and its epoch.
Answers(of) == {{x} : x \in of} \cup {NoReport}
Fingerprints(files) == [p \in Peers |-> {Config(c).identity : c \in files[p]}]

\* One probe round: configuration first, the epoch only when it does not
\* fence and the local incarnation is known.
GuardRound ==
    /\ pc = "running" /\ ~Fenced /\ Spend("rounds")
    /\ \E files \in [Peers -> Answers(PeerFiles)] :
       LET group == LargestForeignGroup({Config(cfg).identity}, Fingerprints(files))
           config == Observe(strikes.config, group)
           other == RunOtherPolicy(files)
       IN \E epochs \in [Peers -> Answers(Epochs)] :
          LET epoch == Observe(strikes.epoch,
                               IF formed THEN LargestForeignGroup({0}, epochs) ELSE 0)
          IN /\ strikes' = [config |-> config,
                            epoch |-> IF config >= Strikes THEN strikes.epoch ELSE epoch]
             /\ streak' = [config |-> Lengthen(streak.config, other),
                           epoch |-> Lengthen(streak.epoch, formed /\ RunOtherEpoch(epochs))]
    /\ UNCHANGED <<host, manager, notify, pc, lists, tracking, ending, formed, hooks, announcing>>

\* The cluster's incarnation is committed and applied here.
LearnEpoch ==
    /\ pc = "running" /\ ~formed /\ left.rounds > 0 /\ formed' = TRUE
    /\ UNCHANGED <<host, manager, notify, left, pc, lists, tracking, ending, strikes, streak,
                   hooks, announcing>>

-----------------------------------------------------------------------------
(* The stop.                                                               *)

\* Reconciliation and health are aborted; the VIPs are released in table order.
Stop(why) ==
    /\ pc = "running" /\ pc' = "releasing" /\ reason' = why
    /\ todo' = SetToSortSeq(Vips(cfg), Before)
    /\ step' = [ip \in Ips |-> IF ip \in Configured(cfg) THEN "cleanup" ELSE "idle"]
    /\ UNCHANGED <<host, manager, notify, mode, cfg, stale, bound, pending, lost, faulty,
                   guard, hooks, announcing>>

StopOnSignal == ~wanted /\ Stop("signal") /\ UNCHANGED <<left, failed>>
StopOnFence == Fenced /\ Stop("fatal") /\ UNCHANGED <<left, failed>>
StopToRestart == (reason = "restart" \/ lost # {}) /\ Stop("restart") /\ UNCHANGED <<left, failed>>

\* A supervised task ends, a supervision channel closes, or SIGHUP or SIGQUIT
\* asks for a stop that is reported as a failure.
StopOnFailure == Spend("crashes") /\ Stop("failed") /\ UNCHANGED failed

StopStep == UNCHANGED <<host, manager, notify, mode, cfg, stale, lost, faulty, reason, guard>>

ReleasedNext ==
    /\ pc = "releasing" /\ todo # <<>> /\ step[Head(todo).ip] = "idle"
    /\ todo' = Tail(todo)
    /\ UNCHANGED <<left, pc, bound, pending, step, failed, hooks, announcing>> /\ StopStep

\* SHUTDOWN_UNBIND_ATTEMPTS attempts failed: the address stays tracked.
ReleaseExhausted ==
    /\ pc = "releasing" /\ todo # <<>> /\ step[Head(todo).ip] = "delete" /\ Spend("faults")
    /\ todo' = Tail(todo) /\ failed' = TRUE /\ Goto(Head(todo).ip, "idle")
    /\ UNCHANGED <<pc, bound, pending, hooks, announcing>> /\ StopStep

\* The queue closes after the handoff; what it holds drains or is discarded.
CloseHooks ==
    /\ pc = "releasing" /\ todo = <<>> /\ pc' = "draining"
    /\ UNCHANGED <<left, todo, bound, pending, step, failed, hooks, announcing>> /\ StopStep

ShutdownTaskFails ==
    /\ pc = "draining" /\ ~failed /\ Spend("faults") /\ failed' = TRUE
    /\ UNCHANGED <<pc, todo, bound, pending, step, hooks, announcing>> /\ StopStep

\* finish_daemon_run and main: success only for a signal without failures.
FinishDaemonRun(why, failures) == IF why = "signal" /\ ~failures THEN "ok" ELSE "failed"

Finish ==
    /\ pc = "draining"
    /\ Exits(FinishDaemonRun(reason, failed))
    /\ UNCHANGED <<addrs, markers, left>>

-----------------------------------------------------------------------------
StopSteps == ReleasedNext \/ CloseHooks \/ Finish
ProcessSteps == Start \/ StartPost \/ Cleanup \/ JoinCluster \/ StopSteps
                \/ StopToRestart \/ StopOnFence \/ StopOnSignal

Next ==
    \/ ProcessSteps
    \/ Crash \/ EditYaml \/ OperatorStop
    \/ CleanupFails \/ JoinFails
    \/ \E ip \in Ips :
          \/ BeginBind(ip) \/ WriteMarker(ip) \/ MarkerFails(ip) \/ AddAddress(ip)
          \/ BindLosesAuthorization(ip) \/ AddFails(ip) \/ LostChildActs(ip) \/ Revoke(ip)
          \/ ReassertFails(ip) \/ Unbind(ip) \/ UnbindFails(ip)
          \/ AnnouncementEnds(ip) \/ Reannounce(ip)
    \/ RunHook \/ HookLapses
    \/ GuardRound \/ LearnEpoch
    \/ StopOnFailure \/ ReleaseExhausted \/ ShutdownTaskFails

\* The process and the service manager take their steps; workers release.
Fairness ==
    /\ WF_vars(ProcessSteps)
    /\ \A ip \in Ips : WF_vars(Unbind(ip))

Spec == Init /\ [][Next]_vars /\ Fairness

-----------------------------------------------------------------------------
(* Properties.                                                             *)

Cleaned == pc = "clean" /\ todo = <<>> /\ stale = {}

\* From the moment the daemon joins the cluster until it exits, and after a
\* stop that succeeded, every VIP address on the host is tracked by this
\* process, or was added by a child that survived its kill: one of this
\* process, or of an earlier one if the YAML no longer names the address
\* (startup_cleanup runs before start_raft; finish_daemon_run).
NoStrayVip ==
    (Cleaned \/ pc \in {"running", "releasing", "draining"} \/ (pc = "down" /\ result = "ok"))
        => \A a \in addrs :
              a.ip \in bound \cup lost \/ (a.ip \in strays \ Configured(cfg))

\* While the daemon runs, a hook script that was last told MASTER for a VIP
\* the daemon no longer tracks has its release waiting, about to be queued,
\* or rejected by a full queue (notify.rs; unbind_all reads was_bound first).
HooksFollowOwnership ==
    pc = "running" =>
        \A ip \in Ips : told[ip] = "master" =>
            \/ ip \in bound \cup dropped \/ step[ip] = "tell"
            \/ Hook(ip, "release") \in Range(queue)

\* While the daemon runs, a MASTER script starts only for a VIP that is held
\* at that moment, however long it waited in the queue (RetainedEffect::start).
MasterHooksAreHeld ==
    [][\A ip \in Ips :
          (pc = "running" /\ told[ip] # "master" /\ told'[ip] = "master") => step[ip] = "held"]_vars

\* An announcement runs only while its address is attached: unbind cancels and
\* joins it before the address goes (announce.rs, "canceled before unbind").
AnnouncedWhileAttached == \A ip \in announcing : Target(cfg, ip) \in addrs

\* The guard stops the daemon only after three rounds in a row of this process
\* in which a majority of the roster ran one policy that differs from the
\* local one in effect, not in spelling, or one other incarnation.
FenceIsEarned ==
    reason = "fatal" => streak.config >= Strikes \/ streak.epoch >= Strikes

\* What is documented to block start and cleanup until the operator acts: a
\* file that does not load, or an address that is elsewhere than the file now
\* says, on an interface that comes later in the cleanup or without the
\* marker that would tell where it is.
Misconfigured ==
    \/ yaml \notin Loadable
    \/ \E a \in addrs, t \in Vips(yaml) :
          /\ t.ip = a.ip
          /\ t.dev < a.dev \/ (a.ip \in strays \ markers /\ a # t)

\* Whatever crashes, faults and edits leave behind, the daemon is running
\* again, unless it was stopped, is Misconfigured, or spent the starts it is
\* allowed on as many crashes and faults: no start fails on leftovers alone.
ServiceReturns ==
    []<>(\/ pc = "running" \/ ~wanted \/ Misconfigured
         \/ starts = StartLimit /\ left.crashes + left.faults = 0)
=============================================================================
