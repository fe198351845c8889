# TLA+ models of keepAfloatD

keepAfloatD keeps virtual IP addresses (VIPs) on healthy members of a small
cluster. Every member runs an in-memory Raft replica (OpenRaft, nothing is
written to disk); the replicated state machine decides who holds which VIP, and
each member adds and removes addresses on its own kernel accordingly. Because a
restarted member has forgotten everything, a second mechanism, *runtime
admission*, decides which process lifetimes ("boots") may take part at all.

Paths are relative to the crate's `src/` unless they start with `docs/` or are a
top-level file. `PROJECT.json` lists the parts of the system with their status,
the source lines of every definition, the runs, and the hazards at the lines
where they bite.

## 1. The system and its modules

| Part | Module | Models |
|---|---|---|
| identifiers | `Ids` | node ids and VIPs as naturals (the code relies on `BTreeMap` order); what a placement is |
| placement (`raft/store/vip_logic.rs`) | `Placement` | `assign_vips_minimal_movement_with_receivers` as a function |
| | `AssignLoop` | the same one loop iteration at a time, with `load` and `held` |
| replicated state machine (`raft/store/`) | `StoreReads` | what the state machine and its readers share |
| | `KafStore` | `KafStorageState` and `apply_one`; snapshot and restore |
| | `StoreAudit` | `KafStore` with history variables for three properties |
| log storage (`raft/store/log.rs`) | `LogStore` | the two storage halves under the two tasks of the core |
| | `AbstractLog` | what the core relies on |
| runtime admission (`raft/admission/controller.rs`, `runtime_permission*`) | `AdmissionLease` | quarantine, rounds, reservations, permissions, restarts, drifting clocks |
| joins (`raft/admission/runtime/`) | `JoinProtocol` | the management calls, leader changes, dropped calls and recovery |
| log authorization (`raft/network/authorization*`) | `ReplicaAuth` | what a replica lets another do to its log; used by `JoinProtocol` |
| peer transport (`raft/network*`) | `PeerTransport` | cached link, RPCs, own-connection exchanges, the listener and its permits |
| kernel commands (`vip.rs`, `vip/reconcile/worker.rs`, `process.rs`) | `LocalVip` | one member and one VIP, child processes included |
| VIP workers, freshness, takeover (`vip/`, `consensus_freshness*`, `bind_policy.rs`, `health*`) | `VipWorkers` | what each member does with what it has applied |
| | `VipHandoff` | the workers of several members composed with `KafStore` |
| configuration (`config*`) | `ClusterConfig` | what loads, what is derived, the identity members compare |
| process (`main.rs`, `vip/startup.rs`, `raft/guard.rs`) | `HostLife` | one host over several lives of its daemon |

`MCStore`, `MCAdmissionLease`, `MCJoinProtocol` and `MCHostLife` give the
instances that a `.cfg` cannot spell; `<Module>_proofs` holds the theorems about
`<Module>` (`VipWorkers_proofs` the lemmas `VipHandoff_proofs` rests on).

How they interact: members commit health reports and releases through Raft; the
entries drive `KafStore`; every member applies them later and acts on what it
has applied. `VipHandoff` is that composition. It takes from `LocalVip` that a
cleanup ends only when no killed command is left, and from `KafStore` every
entry it commits. `AdmissionLease` justifies that one cohort is in force,
`JoinProtocol` that its membership changes only through committed barriers,
`LogStore` that a replica's log serves the core, and `PeerTransport` that a
request is executed only by the boot it was authorized for.

### Placement and AssignLoop

`AssignLoop` has one action per iteration of each pass (`Keep`, `Place`, `Move`)
and one per exit (`KeepDone`, `PlaceDone`, `Stop`). The inputs (eligible nodes,
rebalance receivers, current holders) are arbitrary, chosen once in `Init`.
`Placement!AssignVips` is the same computation as a function of its inputs; the
run checks that both agree, and the store runs and `VipHandoff` use the function.

### KafStore and StoreAudit

`s` is the state of a replica after the log so far. Each action applies one
entry; an `Apply...` operator is the whole arm of `apply_one` with its trailing
recompute (`Recompute` = failback tracking, placement,
`reconcile_vip_assignments`). A rejected entry leaves `s` unchanged. `Snapshot`
and `RestoreInto` are `KafSnapshot::from` and `restore_into`, field by field.
`StoreAudit` adds who reported a node's health, since when a node that lost a
VIP has been serviceable, and who ever failed: these look only at the states a
replica goes through, not at the fields the code keeps for the same purpose.

Abstractions: a map with absent keys is a total function with a "none" value;
log ids are kept as far as the code compares them (the ordinal of an accepted
preparation, the presence of an acknowledgement); responses are left out. The
membership entries are those the code asks OpenRaft for. `Place` is a constant
operator with the assumption `PlaceAssumption`, which TLC evaluates for the real
placement in the store runs.

### LogStore and AbstractLog

One shared state, two callers: the core's task appends, truncates, purges and
saves the commit, the state machine's task applies entries and installs
snapshots. Entries after a snapshot may be appended and the log purged before
the snapshot is installed. `Expire` is the loss of authority, after which every
mutation is refused. A snapshot that `install_snapshot` itself refuses (unreadable,
or of another genesis) changes nothing and stops the core, which to the storage is
the same; entries handed over before a snapshot are applied before it counts as
arriving; indices start at 1. `AbstractLog` is a position and the entries after it without
a hole; `LogStore` maps to it by `INSTANCE`.

### AdmissionLease

Each member has a restart quarantine, at most one reservation as an issuer, one
permission and one outstanding round as a consumer. Deadlines are kept as the
local time left. `Tick` lets each clock advance by any amount in `1 .. Ratio`,
so two clocks drift apart by up to the supported ratio
(`runtime_permission/timing.rs`). `Restart` is a crash or a stop at any moment:
the next boot has nothing and starts its quarantine. A round goes from "begun"
(challenge sent) over "bound" (a leader of that genesis committed the evidence)
to "verified" (`complete`) and ends with `Accept`; verification and acceptance
are separate steps because the driver awaits the state lock between them.
`LateGrant` is a request whose answer is lost or comes too late: the reservation
is made all the same. A genesis is its set of cold voters, from which the code
derives the epoch (`cohort_genesis`).

Abstractions: signatures, nonces and bindings only tie an answer to its round,
so an answer is an element of the round's `grants`; consensus is the enabling
condition of `Bind` (a live runtime with that genesis applied); what one
physical member may do is over-approximated where the code also compares log
ids. The history field `by` of a permission names the issuers behind its
deadline.

### JoinProtocol and ReplicaAuth

A leader's management call checks applied state and proposes in separate steps;
leadership may change in between, and the call may be dropped by its deadline at
any await, which frees the `mutation` lock while its proposal stays in the log.
Recovery resumes or cancels what it finds pending. Every AppendEntries request is
judged by the receiving replica: `ReplicaAuth` captures the authorization from
admission and applied state, replays the entries over the local prefix, and
checks snapshots. "Catch-up and a committed acknowledgement precede the committed
membership change" (docs/runtime-admission.md:20-22) is what
`CommittedChangesAreBarriered` states of whatever is committed.

Abstractions: OpenRaft (elections, replication with backtracking, commit,
`change_membership`'s own refusals) is external; a replica's committed and
applied positions are one; a replica of the roster outside `Running` is down for
good; a call that would propose past `MaxLog` is not made.

### PeerTransport

One direction between a member and a peer that restarts: the cached link with
its reconnect task, RPCs that take turns on it with one retry, exchanges on a
connection of their own, and the peer's listener with its two pools of permits
and its request loop. When the peer's process ends its streams close; when its
host loses power they are `lost`, which the member learns only by writing.

Abstractions: both members run this build with one cluster identity, so the
preflight (part of `Authenticate`) differs only in the failover semantics either
has applied, and the peer's are any at each frame; deadlines, a refused
authorization and decode errors are all `FailRpc`; exchanges on their own
connections come one at a time, seconds apart (`RestSolo`), and all run the
preflight, which the code spares admission and management; connection slots are reused in order.

### LocalVip

One member and one VIP. `addr` is the kernel's address; `bound`, `pending` and
`recleanup` are the sets of `LocalVip`, restricted to this VIP; `cmd` is the child
process the worker awaits, `orphans` are killed children, and `unsettled` is the
count of `ChildTracker`. A child changes the kernel at most once, at any moment
until it has ended, also after it was killed. The worker's actions follow its
awaits: `Observe` (an iteration up to the cleanup decision), `Claim`,
`MarkAddress`, `AddAddress`, `BindDone` and their failures (`bind_kernel`),
`Unbind`, `DeleteEnds`, `UnmarkEnds` (`unbind`, tried up to three times),
`Unbound`, `Publish`, `PublishFails` (`maybe_publish_release`). `Cancel` is
`EffectAuthorization::run` dropping the operation, `Stop` the abort of the worker
by the stop sequence, which goes on with `StopCleanup` and `Handoff`.

Abstractions: assignments are their generations, of which the odd ones name this
member as holder and the even ones as predecessor; this replica applies them
late and may skip some. Leader, health, freshness and admission are one authority
that may end at any time. A failed submission may commit later (`LateRelease`).
The presence probe reports the kernel's state at the time or fails. The three
writes that end `unbind` are one step: `needs_recleanup` is recorded before the
tracking goes, so an abort between them leaves a cleanup that finds nothing.

### VipWorkers and VipHandoff

Every member publishes its health (`Probe`, `CommitReport`, `Published`,
`PublishFails`), which renews its consensus-freshness proof for `Lifetime` ticks
from the start of the request; waits out a silent predecessor (`Acquire`,
`TakeoverLifetime`); binds under an authorization revalidated at every await
(`AddAddress`, `BindDone`, `LoseBind`, `BindFails`); and removes and releases
what is no longer its own (`Delete`, `DeleteFails`, `PublishRelease`,
`ReleaseFails`). `store` is the state after all committed entries; a member reads
the view of the last entry it has applied (`behind`). A submission its sender
gave up may commit later (`Delayed`). `Tick` passes time for everyone. `Faulty`
names the members whose commands, readiness and submissions may fail.

Assumptions and abstractions, each an assumption of the theorems too: durations
pass at one rate on all members; a deletion the kernel does not refuse takes less
than `Cleanup`, the budget the code adds to the takeover delay; at most one
submission per member is given up and still in flight; a `try_read` of the state
lock succeeds. The damping of consecutive failures is left out (any probe result
may come next), a probe round itself takes no time, the reassertion of a held
binding changes something only when it fails (`BindFails`), the check before an
address command and the command are one step (the check is repeated after it), and the admission deadline acts only by ending a proof
(`Invalidate`). `Room`, `MayReport` and `MayProbe` are the bounds.

### ClusterConfig and HostLife

`ClusterConfig` decides which files load (secrets, timings, overlapping or
conflicting VIP entries, endpoints), derives the VIP table and the round counts,
and defines the fingerprint. `HostLife` is one host with its kernel, its marker
routes, its YAML and the service manager: startup cleanup, joining, bindings with
hooks and announcements, the cluster guard, the stop sequence, exit, post-stop
cleanup and restart, with a crash between any two commands. `unbind` is
`CancelAnnouncement`, `DeleteAddress` and `DeleteMarker`; `ReassertFails` is the
periodic bind of a held address that fails, times out or leaves a child behind.

Abstractions: a reboot is the initial state; signals are taken only in the
supervised select; SIGHUP and SIGQUIT count as `StopOnFailure`; the three attempts
of the shutdown release are one `ReleaseExhausted`; a stop budget that runs out is
a `Crash`; the service manager collects the daemon's children before the post-stop
cleanup (external, from the unit file). IPv4 VIPs only, SHA-256 is injective,
values stay below 2^64 where the code saturates. The completion of a bind
(`AddAddress`: confirmed, announced, MASTER queued) is one step; an authorization
that ends in its middle is `BindLosesAuthorization`, and a stop or a crash there
finds one of its outcomes. Killed children that act late are
`LocalVip`'s subject; only a child that survives its kill appears here.

What the properties leave out, and why: hooks are claimed only while the daemon
runs, because queued MASTER hooks may still start during a stop, and an abort
between untracking a VIP and queueing its release hook loses that hook.
`Misconfigured` names what blocks start and cleanup until the operator acts: a
file that does not load; an address on an interface that comes later in the
cleanup than where the file now puts it ("an address still present on another
interface (including after a rename) blocks cleanup and retains ownership
evidence", docs/operations.md); an unmarked address of a lost child whose entry
was edited.

## 2. Runs

The state spaces are bounded only by the constants in the `.cfg` files.

| Run | Instance | Distinct states | Question |
|---|---|---|---|
| `assign_loop` | 3 nodes, 4 VIPs, every input | 66,796 | Do the passes keep their bookkeeping exact, compute the placement function, evenly, with minimal movement, moving no VIP twice, and end? |
| `store_failback` | 3 members, 2 VIPs, 4 rounds, failback delay 2 | 60,058 | Are holders eligible, load even, fencing records consistent, holder changes fenced, recomputation stable, and does a failed owner wait its whole delay? |
| `store_all` | 2 members with 2 boots, 2 VIPs, 3 rounds, 1 join, 2 geneses, no failback | 86,817 | Every kind of entry in any order: does only the voting boot's word count, is no membership left half-changed, is a snapshot faithful, do failed owners never preempt, also across the activation of V2? |
| `lease_rejoin` | 3 members, ratio 2, use 1, 1 restart | 109,750 | Joining, promotion and renewal against a competing cohort with a restarted issuer: is there ever authority for two geneses? |
| `local_vip` | 2 generations, 1 killed command at a time | 149,089 | Is an acknowledged release true for good, every address tracked, and what was lost removed at last? |
| `vip_handoff` | 2 members, lifetime 1, cleanup 1, 5 rounds, lag 1, member 1 fails | 699,752 | Are committed releases true, and does a successor add the address only when its predecessor let go? |
| `vip_handoff_chain` | the same with one more round of member 1 | violated | Does an address that is known to be present stay fenced? |
| `join_protocol` | roster 11, 21, 31 of which 11 and 21 run, 32 joins; 2 terms, log of 7 | 104,711 | Do voters change only through the barriers, and is nothing committed ever refused? |
| `log_store` | 2 terms, 5 indices | 11,464 | Is everything ahead of the state machine held, is a starting core served, and does the storage implement the abstract log? |
| `peer_transport` | 2 boots, 3 connections, 2 + 2 permits | 254,547 | Does a request reach only its boot, an answer only its request, and is the serving boot reached again? Deadlock is checked. |
| `peer_half_open` | the same | violated | Can a half-open peer block the link? |
| `host_life` | three scenarios (one VIP with hooks and edits; two VIPs with a crash and a fault; one VIP under the guard) | 628,346 | Is nothing left behind, do hooks and announcements follow ownership, is a fence earned, and does the service return? |

Deadlock checking is off except in `peer_transport`: a bounded log, a finished
computation, a sealed cluster or a stopped host really stops.

Why the bounds are enough. The inputs of `assign_loop` include more VIPs than
nodes, fewer receivers than eligible nodes and every uneven start. Four probe rounds with a staleness bound of one cover a node
becoming stale, an ownerless interval, and the return of an owner before and after
its delay. Two boots and one join suffice for a health report of
the wrong boot, a cancelled and a promoted join. Overlapping cohorts
of three are the smallest in which two majorities compete for one member. With a
consumer use of one tick no permission outlives a tick in `lease_rejoin`: the run
is about who may grant what after expiry, restart and quarantine, and clocks that
drift show there only in how long a reservation or a quarantine lasts. Permissions
that age on a slow clock while their reservations age on a fast one are covered by
the theorems, for every use and ratio, and were checked once with a use of two
ticks (the same instance otherwise: 4,155,337 states, too many for a regular run). Two generations let a release of one be in flight while
the next is bound; the safety invariants of `LocalVip` were also checked once with
three generations and two killed commands (3,505,776 states). In `vip_handoff`
each member can become holder, predecessor and holder again; the inductive
invariant of its proof was checked there and simulated with three members,
lifetime 2, cleanup 2 and lag 3 (17 million states). Seven log entries hold a whole join, or one
that is cancelled, and the entries of a second term. Two boots, three connections
and two permits of each kind let dropped streams exhaust a pool while the peer
restarts. Each mutant of `PROJECT.json`, a plausible slip in one definition, is
found within these bounds.

### Fairness

* `AssignLoop`: weak fairness of the single thread that runs the function
  (`Terminates`).
* `LocalVip`: weak fairness of the worker task, of the replica that applies
  entries, of awaited commands (each has a deadline), of the reaping or giving up
  of killed ones, and of the stop that `wait_lost_command` triggers; strong
  fairness of reading the state lock (`try_read` meets only short writes) and of
  commands succeeding when tried again and again. The last is an assumption about
  the kernel, without which no retry could remove an address. The alternative "or
  the daemon stops" of `RevokedIsRemoved` is needed: the add command of a first
  bind that is lost after the probe found the address absent can still add it when
  it is no longer tracked, and then only the stop and the start-up cleanup of the
  next boot remove it.
* `PeerTransport`: strong fairness of the reconnect task's turn at the link
  (tokio's mutex is first come, first served); weak fairness of its other steps,
  of the member's next RPC to the serving boot, of RPCs and exchanges ending at
  their deadlines, of each connection's task at the peer, and of the restart.
* `HostLife`: weak fairness of the process and the service manager, which await
  nothing without a bound, and of each worker's unbind (`ServiceReturns`).

`VipHandoff`, `KafStore`, `AdmissionLease`, `JoinProtocol` and `LogStore` state
safety only and assume no fairness.

### Findings

`vip_handoff_chain` / `StillPresentStaysFenced`. README.md:148-150 says that "an
unreadable or still-present result keeps the handoff fenced. Only a previous
holder whose committed probes have become stale may use the crash fallback". The
code fences a new assignment by the last *assigned* holder
(`raft/store/vip_logic.rs:394`). A holder that cannot delete the address stays
fresh; the next holder is assigned the VIP, reports itself unhealthy before it
binds and recovers; it is then its own predecessor, waits for nobody, and binds
an address that is still present elsewhere. `PredecessorIsGone` states what does
hold: it speaks of the predecessor the assignment names, and of members that have
applied the last assignment. The second condition has the same root: while a
successor lags by several entries, the VIP can move on and end at a member that is
its own predecessor and binds within the lifetime of the successor's proof.

`peer_half_open` / `HalfOpenLinksDoNotBlock`. README.md:715 says that "half-open
peers cannot block heartbeats or submit forwarding forever". After a peer lost
power and came back as another boot, the reconnect task keeps the idle stream
(nothing probes it), and `send_rpc` to the new boot returns "destination boot
changed" before it writes (`raft/network.rs:505`), so the stream is not replaced.
`TheServingBootIsReached` holds with exactly this exception.

A remark without a run: `vip_logic.rs:173-175` argues that the rebalance loop ends
because "Each iteration strictly reduces the spread". With loads 2, 2, 0, 0 the
first move gives 1, 2, 1, 0: the spread stays 2. The loop does end
(`Terminates`); what shrinks is, for example, the sum of the squared loads.

## 3. Proofs

Each theorem holds for every value of the constants that satisfies the named
assumptions of the module, so for any number of members, VIPs, boots, ticks and
messages. Each rests on an inductive invariant, with one lemma per action.

**AdmissionLease_proofs**: `TypeCorrect`, `LeasesAreBacked`, `NeverTwoGeneses`,
`SealingIsTerminal`. Assumed: a finite roster, positive ratio and lease, and that a
discovery yields only geneses `validate_roster` accepts. `OneGenesisAtATime` says
nothing about rounds that will become permissions nor about issuers, so `LeaseInv`
adds `AuthorityIsBacked` (whoever granted an unexpired claim still reserves its
genesis, or is quarantined, for at least `Ratio` times the time the claim has
left, and no issuer backs two geneses) and `LeaseShape` (no claim outlasts one use,
every live permission has a majority behind it). A tick takes at least 1 from a
claim and at most `Ratio` from what backs it; a reservation moves to another
genesis only when no claim rests on it; a restart replaces a reservation by a
longer quarantine. Two majorities share an issuer.

**AssignLoop_proofs**: `BookkeepingStaysExact`, `LoopComputesAPlacement`,
`NoVipIsMovedTwice`. The invariant relates `load` and `held` to the result at
the head of every loop and says what each pass has still to do; the exit condition
of the last pass gives the even spread. A node that was given a VIP while balancing
stays within one VIP of every receiver (`Settled`): a move takes from a node that
had more than anyone and leaves it more than the receiver had. So it is no donor
again. That the loop ends is model-checked; the comment's argument, that each
iteration reduces the spread, needs care, since the spread stays when several
nodes share the largest and several the smallest load.

**KafStore_proofs**: `TypeCorrect`, `FencingIsConsistent`,
`HolderChangesAreFenced`, `EveryHolderIsEligible`, `LoadStaysEven`,
`RecomputingIsStable`, `FrontierStaysMaximal`, `IdleMembershipStaysStable`,
`SnapshotsAreFaithful`, `HealthComesFromTheVoter`, `FailedOwnersWait`,
`NobodyFailedPreempts`. Assumed: `NodesAssumption`, `VipsAssumption`,
`ConfigAssumption` and `PlaceAssumption`. The first half of `PlaceAssumption`, that
`Place` returns a placement, is what `LoopComputesAPlacement` proves of the real
loop; the second, that a placement is placed as it is, TLC evaluates for
`AssignVips`. Every entry leaves fencing and the inputs of eligibility alone
(`Quiet`), acknowledges a release, or prepares a state and recomputes it, so the
invariant `StoreInv` (types, frontier, fences, legacy failback record, tracking,
and that the holders are a fixpoint of the placement) is proved once for each
shape. Eligibility, evenness and stability follow from the fixpoint; snapshots are
faithful because restoring drops only what is empty. For the audited properties
`AuditInv` relates the history to the code's fields: the audited start of health is
never later than the recovery tick, so the code's delay never ends early, and
whoever failed is marked.

**LogStore_proofs**: `AheadIsHeld`, `StartsAreServed`, and
`StorageImplementsAbstractLog`, the refinement: `Init` maps to the abstract initial
state and each call to an abstract step or a stutter, under `TypeOK` and
`HoldsWhatIsAhead`, which is inductive with it.

**PeerTransport_proofs**: `RequestsReachTheirTarget`, `AnswersReachTheirRequest`.
The invariant follows a request: whatever is on a stream is addressed to the boot
at its other end, the stream in the link's slot carries at most the running RPC,
and streams being opened carry nothing.

**LocalVip_proofs**: `ReleasesAreTruthful`, `AddressesAreTracked`. The invariant
counts the children that are not settled, orders what the worker knows by its place
in the code, and says what a settled sample proves; a child that was given up stays
counted for good, so most of it is claimed until then.

**VipHandoff_proofs** (with `VipWorkers_proofs`): `CommittedReleasesAreTrue` and
`PredecessorsAreGone`. Neither property is inductive: a release is true because of
what the member saw when it deleted, and a successor may add the address because of
how long it waited. `IInv` therefore has: `Views` (what members have applied is an
older view of the store; a generation has one holder for good), `Releases` (whoever
has a release under way, given up or recorded for generation g does not have the
address for it: `Gone`), `Waited` (who binds without a release has waited the whole
takeover delay) and `Expiring`. The last is the argument about time: while the
holder of the last generation g waits, whoever has not applied g lives on a proof
requested before g was committed, worth at most what the holder has not yet waited
(`Spent`); whoever has applied g has to remove the address, and is as late as the
time that is left for it (`Removing`). When the wait of `Lifetime + Cleanup` is over,
both are exhausted. Nothing is assumed of the placement; the assumptions are
`TimeAssumption` and those listed for the module above.

Only model-checked: liveness (`Terminates`, `RevokedIsRemoved`,
`TheServingBootIsReached`, `ServiceReturns`), which the provers do not reach;
`ComputesAssignVips` and `MovementIsMinimal`, which need induction over the holder
map; the properties of `JoinProtocol`, whose replay recurs over the log and needs
an induction over it; and those of `HostLife`, whose cleanup is a walk over lists.

## 4. Not modelled

Serialisation, framing and HMAC (`auth.rs`, `frame.rs`, `raft/network/wire.rs`), the
command runner and the sysctl check (`vip/command.rs`, `vip/secondary.rs`), logging
and status output, the OpenRaft configuration, discovery over the network (a leader
is chosen), the accept backoff and the global connection pool over several sources,
and OpenRaft itself. The status and the reason of each part are in `PROJECT.json`.
