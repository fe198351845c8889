--------------------------- MODULE PeerTransport ---------------------------
(***************************************************************************)
(* One direction of the transport between two members: the cached link of  *)
(* a member to a peer (raft/network.rs), the RPCs that take turns on it,   *)
(* the exchanges that use a connection of their own (Pre-Vote, admission,  *)
(* management, status), and the peer's listener with its two pools of      *)
(* connection permits and its request loop.                                *)
(*                                                                         *)
(* The peer restarts as a new boot.  Its connections end with a FIN when   *)
(* the process ends; when the host loses power they are `lost`: the member *)
(* learns of it only if it writes to one of them.  A request is            *)
(* [id, target]; an answer is [id, boot].  TCP, tokio's FIFO mutex and     *)
(* OpenRaft's choice of RPCs are external.  Both members run this build    *)
(* and have one cluster identity, so the preflight differs only in the     *)
(* failover semantics that either has applied.                             *)
(***************************************************************************)
EXTENDS Naturals, Sequences, FiniteSets, Functions

CONSTANTS
    MaxBoot,           \* bound on the boots of the peer
    Conns,             \* the connections that exist at a time
    Unauthenticated,   \* permits of the peer's source, by phase
    Authenticated

ASSUME TransportAssumption ==
    /\ MaxBoot \in Nat \ {0} /\ Conns \subseteq Nat \ {0}
    /\ Unauthenticated \in Nat \ {0} /\ Authenticated \in Nat \ {0}

VARIABLES
    boot, up,          \* the boot of the peer, and whether it runs
    semantics,         \* the failover semantics that the member has applied
    conns,             \* the connections, as both ends see them
    link,              \* PeerLink
    task,              \* the connection the reconnect task is opening, or 0
    rpc,               \* the RPC that holds the link
    solo               \* an exchange on a connection of its own

peer == <<boot, up, semantics>>
vars == <<peer, conns, link, task, rpc, solo>>

None == 0

Unused ==
    [boot |-> None, member |-> "closed", server |-> "closed", semantics |-> "V1",
     requests |-> << >>, answers |-> << >>]

Idle == [stage |-> "idle", id |-> 1, target |-> None, retries |-> 0, conn |-> None]

Init ==
    /\ boot = 1 /\ up = TRUE
    /\ semantics = "V1"
    /\ conns = [c \in Conns |-> Unused]
    /\ link = [slot |-> None, remote |-> None, semantics |-> "V1"]
    /\ task = None
    /\ rpc = Idle /\ solo = Idle

-----------------------------------------------------------------------------
\* The two ends of a connection.

Open(k) == k.member # "closed"

Dead(k) == k.server \in {"closed", "lost"}

\* What nobody can read any more is forgotten, and so is a connection neither end holds.
Settle(k) ==
    CASE ~Open(k) /\ Dead(k) -> Unused
      [] ~Open(k) /\ ~Dead(k) -> [k EXCEPT !.answers = << >>]
      [] Open(k) /\ k.server = "closed" -> [k EXCEPT !.requests = << >>]
      [] OTHER -> k

\* The member drops the stream.
Drop(cs, c) == IF c = None THEN cs ELSE [cs EXCEPT ![c] = Settle([@ EXCEPT !.member = "closed"])]

\* The peer drops the stream.
End(cs, c) == [cs EXCEPT ![c] = Settle([@ EXCEPT !.server = "closed"])]

InPhase(S) == Cardinality({c \in Conns : conns[c].boot = boot /\ conns[c].server \in S})

\* connect_from_advertised, up to the accepted socket: what a new connection is, with the
\* semantics the member advertises on it.
Dialled ==
    [Unused EXCEPT !.boot = boot, !.member = "opening", !.server = "handshake",
                   !.semantics = semantics]

Accepts == up /\ InPhase({"handshake"}) < Unauthenticated

\* The connection a new one is kept in: they are all alike.
FreeConn(c) ==
    /\ conns[c] = Unused /\ solo.conn # c
    /\ \A d \in Conns : d < c => conns[d] # Unused \/ solo.conn = d

\* connect_with_preflight returns: the handshake named the boot and the status was answered.
Preflighted(c) == conns[c].member = "ready"

\* ... or fails: the peer dropped the connection, or the timeout finds it lost.
ConnectFailed(c) == conns[c].member = "opening" /\ Dead(conns[c])

\* A read finds the end of the stream, or the reset a rebooted host sends for a lost one.
Disconnected(c) ==
    \/ conns[c].server = "closed" /\ conns[c].answers = << >>
    \/ conns[c].server = "lost" /\ conns[c].requests # << >> /\ up

-----------------------------------------------------------------------------
\* The link.

RequiresUpgrade(advertised) == semantics = "V2" /\ advertised = "V1"

LinkFree == task = None /\ rpc.stage = "idle"

\* A plausible slip: the end of an idle stream goes unnoticed.
UsableUnlessBytes(c) == conns[c].answers = << >>

\* idle_stream_is_usable: nothing to read, and no end of stream.
UsableWhenIdle(c) == conns[c].server # "closed" /\ conns[c].answers = << >>

\* reconnect_decision: Connect or Replace, where Keep is to do nothing.
ReconnectDue ==
    link.slot # None => RequiresUpgrade(link.semantics) \/ ~UsableWhenIdle(link.slot)

\* connect_peer_stream, from the handshake on: what it records in the link.
Connected(slot, c) == [slot |-> slot, remote |-> conns[c].boot, semantics |-> conns[c].semantics]

\* One round of the reconnect task up to the connect, with the link locked throughout.
Reconnect(c) ==
    /\ LinkFree /\ ReconnectDue
    /\ Accepts /\ FreeConn(c)
    /\ conns' = [Drop(conns, link.slot) EXCEPT ![c] = Dialled]
    /\ link' = [link EXCEPT !.slot = None]
    /\ task' = c
    /\ UNCHANGED <<peer, rpc, solo>>

\* The same when the connection is refused.
ReconnectRefused ==
    /\ LinkFree /\ ReconnectDue /\ link.slot # None
    /\ ~Accepts
    /\ conns' = Drop(conns, link.slot)
    /\ link' = [link EXCEPT !.slot = None]
    /\ UNCHANGED <<peer, task, rpc, solo>>

\* The reconnect task installs the stream, unless the policy changed meanwhile.
TaskConnected ==
    /\ task # None /\ Preflighted(task)
    /\ IF RequiresUpgrade(conns[task].semantics)
       THEN conns' = Drop(conns, task) /\ UNCHANGED link
       ELSE link' = Connected(task, task) /\ UNCHANGED conns
    /\ task' = None
    /\ UNCHANGED <<peer, rpc, solo>>

TaskFails ==
    /\ task # None /\ ConnectFailed(task)
    /\ conns' = Drop(conns, task)
    /\ task' = None
    /\ UNCHANGED <<peer, link, rpc, solo>>

-----------------------------------------------------------------------------
\* send_rpc.  One RPC at a time owns the link.

\* An id that nothing left on the stream has.
FreshId(c) ==
    LET left == IF c = None THEN {}
                ELSE Range(conns[c].requests) \cup Range(conns[c].answers)
    IN IF \E m \in left : m.id = 1 THEN 2 ELSE 1

\* A plausible slip: the guard that clears the slot of an unfinished RPC is missing.
FailRpcKeepsSlot ==
    /\ rpc.stage # "idle"
    /\ conns' = Drop(conns, rpc.conn)
    /\ rpc' = Idle
    /\ UNCHANGED <<peer, link, task, solo>>

\* A plausible slip: the boot of the link is not compared with the target before the write.
WriteRpcToAnyBoot ==
    /\ rpc.stage = "locked" /\ link.slot # None
    /\ conns' = [conns EXCEPT ![link.slot].requests =
                     Append(@, [id |-> rpc.id, target |-> rpc.target])]
    /\ rpc' = [rpc EXCEPT !.stage = "sent"]
    /\ UNCHANGED <<peer, link, task, solo>>

\* It takes the link, drops an outdated stream, and turns away for another boot.
StartRpc(target) ==
    /\ LinkFree
    /\ LET slot == IF RequiresUpgrade(link.semantics) THEN None ELSE link.slot
       IN  /\ conns' = IF slot = link.slot THEN conns ELSE Drop(conns, link.slot)
           /\ link' = [link EXCEPT !.slot = slot]
           /\ rpc' = IF link.remote \notin {None, target} THEN rpc
                     ELSE [Idle EXCEPT !.stage = "locked", !.id = FreshId(slot), !.target = target]
    /\ UNCHANGED <<peer, task, solo>>

\* The authorized request is written if the link's boot is the target.
WriteRpc ==
    /\ rpc.stage = "locked"
    /\ link.remote = rpc.target /\ link.slot # None
    /\ conns' = [conns EXCEPT ![link.slot].requests =
                     Append(@, [id |-> rpc.id, target |-> rpc.target])]
    /\ rpc' = [rpc EXCEPT !.stage = "sent"]
    /\ UNCHANGED <<peer, link, task, solo>>

\* InFlightRpcStream: a response that was read in full keeps the stream in the slot ...
FinishRpc ==
    /\ rpc.stage = "sent" /\ conns[link.slot].answers # << >>
    /\ conns' = [conns EXCEPT ![link.slot].answers = Tail(@)]
    /\ rpc' = Idle
    /\ UNCHANGED <<peer, link, task, solo>>

\* ... and every other end drops it: an error, a refusal, the deadline, a cancellation.
FailRpc ==
    /\ rpc.stage # "idle"
    /\ conns' = Drop(Drop(conns, link.slot), rpc.conn)
    /\ link' = [link EXCEPT !.slot = None]
    /\ rpc' = Idle
    /\ UNCHANGED <<peer, task, solo>>

\* The first disconnect of an RPC is retried on a fresh connection, under the same lock.
RetryRpc(c) ==
    /\ rpc.stage = "sent" /\ rpc.retries = 0 /\ Disconnected(link.slot)
    /\ Accepts /\ FreeConn(c)
    /\ conns' = [Drop(conns, link.slot) EXCEPT ![c] = Dialled]
    /\ link' = [link EXCEPT !.slot = None]
    /\ rpc' = [rpc EXCEPT !.stage = "connecting", !.retries = 1, !.conn = c]
    /\ UNCHANGED <<peer, task, solo>>

\* connect_peer_stream returned: the RPC is authorized again, and its boot checked again.
RetryConnected ==
    /\ rpc.stage = "connecting" /\ Preflighted(rpc.conn)
    /\ ~RequiresUpgrade(conns[rpc.conn].semantics)
    /\ link' = Connected(rpc.conn, rpc.conn)
    /\ rpc' = [rpc EXCEPT !.stage = "locked", !.conn = None]
    /\ UNCHANGED <<peer, conns, task, solo>>

-----------------------------------------------------------------------------
\* An exchange that has a connection of its own: pre_vote_exchange, admission_rpc,
\* management_rpc.

StartSolo(c, target) ==
    /\ solo.stage = "idle"
    /\ Accepts /\ FreeConn(c)
    /\ conns' = [conns EXCEPT ![c] = Dialled]
    /\ solo' = [Idle EXCEPT !.stage = "connecting", !.conn = c, !.target = target]
    /\ UNCHANGED <<peer, link, task, rpc>>

WriteSolo ==
    /\ solo.stage = "connecting" /\ Preflighted(solo.conn)
    /\ conns[solo.conn].boot = solo.target
    /\ ~RequiresUpgrade(conns[solo.conn].semantics)
    /\ conns' = [conns EXCEPT ![solo.conn].requests =
                     Append(@, [id |-> solo.id, target |-> solo.target])]
    /\ solo' = [solo EXCEPT !.stage = "sent"]
    /\ UNCHANGED <<peer, link, task, rpc>>

\* It ends with the answer or without, and drops the stream either way.
EndSolo ==
    /\ solo.stage \in {"connecting", "sent"}
    /\ conns' = Drop(conns, solo.conn)
    /\ solo' = [Idle EXCEPT !.stage = "closing", !.conn = solo.conn]
    /\ UNCHANGED <<peer, link, task, rpc>>

\* Exchanges are seconds apart: the peer has seen one end before the next begins.
RestSolo ==
    /\ solo.stage = "closing" /\ conns[solo.conn] = Unused
    /\ solo' = Idle
    /\ UNCHANGED <<peer, conns, link, task, rpc>>

-----------------------------------------------------------------------------
\* The peer.

listener == <<peer, link, task, rpc, solo>>

\* The handshake is through: the connection moves to the authenticated pool, and the
\* status preflight is answered; with that pool exhausted it is dropped.
Authenticate(c) ==
    /\ conns[c].server = "handshake" /\ Open(conns[c])
    /\ conns' = IF InPhase({"serving", "busy"}) < Authenticated
                THEN [conns EXCEPT ![c].server = "serving", ![c].member = "ready"]
                ELSE End(conns, c)
    /\ UNCHANGED listener

\* serve_raft_stream reads a frame.  A member that does not advertise V2 is turned away
\* if this boot has applied the activation, which may be at any time.
Dispatch(c) ==
    /\ conns[c].server = "serving" /\ conns[c].requests # << >>
    /\ \/ conns[c].semantics = "V1" /\ conns' = End(conns, c)
       \/ conns' = [conns EXCEPT ![c].server = "busy"]
    /\ UNCHANGED listener

Reply(c) ==
    /\ conns[c].server = "busy"
    /\ conns' = IF ~Open(conns[c]) THEN End(conns, c)
                ELSE [conns EXCEPT ![c].server = "serving",
                                   ![c].requests = Tail(@),
                                   ![c].answers = Append(@, [id |-> Head(conns[c].requests).id,
                                                             boot |-> conns[c].boot])]
    /\ UNCHANGED listener

\* The peer gives a stream up: the member closed it ...
Reap(c) ==
    /\ ~Dead(conns[c]) /\ ~Open(conns[c])
    /\ conns' = End(conns, c)
    /\ UNCHANGED listener

\* ... it was idle too long, or a frame was refused, or took too long.
GiveUp(c) ==
    /\ conns[c].server \in {"serving", "busy"} /\ Open(conns[c])
    /\ conns' = End(conns, c)
    /\ UNCHANGED listener

\* The process ends, and the kernel closes its sockets; or the host loses power.
Stop(how) ==
    /\ up /\ boot < MaxBoot
    /\ up' = FALSE
    /\ conns' = [c \in Conns |-> IF Dead(conns[c]) THEN conns[c]
                                 ELSE Settle([conns[c] EXCEPT !.server = how])]
    /\ UNCHANGED <<boot, semantics, link, task, rpc, solo>>

\* It starts again, diskless, as another boot.
Restart ==
    /\ ~up
    /\ up' = TRUE /\ boot' = boot + 1
    /\ UNCHANGED <<semantics, conns, link, task, rpc, solo>>

\* The member applies the activation of the V2 failover semantics.
Activate ==
    /\ semantics = "V1"
    /\ semantics' = "V2"
    /\ UNCHANGED <<boot, up, conns, link, task, rpc, solo>>

-----------------------------------------------------------------------------
Member ==
    \/ \E c \in Conns : Reconnect(c) \/ RetryRpc(c)
    \/ ReconnectRefused \/ TaskConnected \/ TaskFails
    \/ \E target \in 1 .. boot : StartRpc(target)
    \/ WriteRpc \/ FinishRpc \/ FailRpc \/ RetryConnected
    \/ \E c \in Conns, target \in 1 .. boot : StartSolo(c, target)
    \/ WriteSolo \/ EndSolo \/ RestSolo

Peer ==
    \/ \E c \in Conns : Authenticate(c) \/ Dispatch(c) \/ Reply(c) \/ Reap(c) \/ GiveUp(c)
    \/ \E how \in {"closed", "lost"} : Stop(how)
    \/ Restart

Next == Member \/ Peer \/ Activate

Spec == Init /\ [][Next]_vars

\* Every task keeps running.  The link's mutex is first come, first served, so the
\* reconnect task gets its turn; a connected RPC or exchange ends at its deadline.
Fairness ==
    /\ SF_vars(\E c \in Conns : Reconnect(c))
    /\ WF_vars(ReconnectRefused \/ TaskConnected \/ TaskFails)
    /\ WF_vars(StartRpc(boot)) /\ WF_vars(FailRpc) /\ WF_vars(EndSolo \/ RestSolo)
    /\ \A c \in Conns : WF_vars(Authenticate(c) \/ Dispatch(c) \/ Reply(c) \/ Reap(c))
    /\ WF_vars(Restart)

LiveSpec == Spec /\ Fairness

-----------------------------------------------------------------------------
TakesOwnAnswer ==
    /\ FinishRpc => Head(conns[link.slot].answers) = [id |-> rpc.id, boot |-> rpc.target]
    /\ solo.stage = "sent" /\ conns[solo.conn].answers # << >>
         => Head(conns[solo.conn].answers).boot = solo.target

\* An RPC takes an answer only if it is the answer to that RPC, given by the boot it was
\* addressed to: no response of a cancelled RPC, of a retried one or of an earlier boot is
\* left on a stream that the next RPC is given.
AnswersMatch == [][TakesOwnAnswer]_vars

\* Only the boot a request is addressed to ever dispatches it, whatever restarts, retries
\* and reconnects came between its authorization and its arrival.
OnlyTheTargetDispatches ==
    \A c \in Conns : conns[c].server = "busy" => Head(conns[c].requests).target = conns[c].boot

LinkedToServingBoot ==
    link.slot # None /\ link.remote = boot /\ conns[link.slot].boot = boot

HalfOpen == link.slot # None /\ conns[link.slot].server = "lost"

\* A member that keeps trying reaches the boot that serves, again and again: neither
\* cancelled RPCs nor the permits of streams it has dropped, nor the closed streams of an
\* earlier boot, keep it from a link to the boot that runs.  The exception is an idle stream
\* that the peer's host lost with its power.
TheServingBootIsReached == []<>(LinkedToServingBoot \/ HalfOpen)

\* README: "half-open peers cannot block heartbeats or submit forwarding forever".  A member
\* that keeps sending RPCs to the boot that serves is linked to it again and again.
HalfOpenLinksDoNotBlock == []<>LinkedToServingBoot
=============================================================================
