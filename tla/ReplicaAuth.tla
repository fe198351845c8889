----------------------------- MODULE ReplicaAuth -----------------------------
(***************************************************************************)
(* What a replica lets another replica do to its log: the authorization    *)
(* captured from local admission and applied state, the replay of the      *)
(* entries of an AppendEntries request over the local prefix, and the      *)
(* checks on a snapshot; with the part of the applied state they read.     *)
(*                                                                         *)
(* Replica 10 m + b is boot b of member m.  A log id is an index, from 1,  *)
(* and a term.  Signatures, addresses, health progress and the genesis do  *)
(* not vary here.                                                          *)
(***************************************************************************)
EXTENDS Integers, FiniteSets, SequencesExt

CONSTANT Cohort        \* the voters of the admitted genesis

NoLog == [index |-> 0, term |-> 0]
NoPlan == [consumer |-> 0, nonce |-> 0, previous |-> {}]
NoJoin == [plan |-> NoPlan, prepared |-> NoLog, ack |-> NoLog]

Member(r) == r \div 10

\* JoinPlan: one member's voting boot is replaced by the consumer.
NextVoters(p) == {r \in p.previous : Member(r) # Member(p.consumer)} \union {p.consumer}

UniqueMembers(voters) == Cardinality({Member(r) : r \in voters}) = Cardinality(voters)

ValidPlan(p) ==
    p.previous # {} /\ UniqueMembers(p.previous) /\ p.consumer \notin p.previous

\* Membership: one or two voter sets, and every node.
Flat(voters, nodes) == [configs |-> <<voters>>, nodes |-> nodes]
Joint(p, nodes) == [configs |-> <<p.previous, NextVoters(p)>>, nodes |-> nodes]
Voters(m) == m.configs[1] \union m.configs[Len(m.configs)]
Learners(m) == m.nodes \ Voters(m)
StablePrevious(m, p) == m.configs = <<p.previous>>

\* The nodes of the membership that completes a plan.
Promoted(p, nodes) == Flat(NextVoters(p), nodes \ (p.previous \ NextVoters(p)))

SameOperation(j, k) == j.plan = k.plan /\ j.prepared = k.prepared

-----------------------------------------------------------------------------
(* The applied state (store/membership.rs).                                *)

Unapplied ==
    [last |-> NoLog, membership |-> Flat({}, {}), mlog |-> NoLog,
     pending |-> NoJoin, completed |-> {}]

Names(e, j) == e.plan.consumer = j.plan.consumer /\ e.plan.nonce = j.plan.nonce
                   /\ e.prepared = j.prepared

\* apply_admission_membership: whether a command is answered Ok.
Accepts(t, e, id) ==
    CASE e.kind = "prepare" ->
           /\ ValidPlan(e.plan)
           /\ IF t.pending # NoJoin THEN t.pending.plan = e.plan
              ELSE StablePrevious(t.membership, e.plan)
      [] e.kind = "cancel" ->
           /\ t.pending # NoJoin
           /\ t.pending.plan = e.plan /\ t.pending.prepared = e.prepared
           /\ id.index > e.prepared.index
           /\ StablePrevious(t.membership, e.plan)
           /\ e.plan.consumer \notin t.membership.nodes
      [] e.kind = "ack" ->
           /\ t.pending # NoJoin /\ Names(e, t.pending)
           /\ \/ t.pending.ack # NoLog
              \/ /\ e.plan.consumer \in Learners(t.membership)
                 /\ StablePrevious(t.membership, t.pending.plan)
                 /\ id.index > e.prepared.index
      [] OTHER -> TRUE

PendingAfter(t, e, id) ==
    CASE e.kind = "prepare" /\ t.pending = NoJoin ->
           [plan |-> e.plan, prepared |-> id, ack |-> NoLog]
      [] e.kind = "cancel" -> NoJoin
      [] e.kind = "ack" /\ t.pending.ack = NoLog -> [t.pending EXCEPT !.ack = id]
      [] OTHER -> t.pending

\* apply_membership
Completes(t, m, id) ==
    /\ t.pending # NoJoin /\ t.pending.ack # NoLog /\ t.pending.ack.index < id.index
    /\ m.configs = <<NextVoters(t.pending.plan)>>

ApplyMembership(t, m, id) ==
    LET done == Completes(t, m, id)
        member(c) == Member(c.join.plan.consumer)
    IN [last |-> id, membership |-> m, mlog |-> id,
        pending |-> IF done THEN NoJoin ELSE t.pending,
        completed |-> IF done
                      THEN {c \in t.completed : member(c) # Member(t.pending.plan.consumer)}
                               \union {[join |-> t.pending, promoted |-> id]}
                      ELSE t.completed]

ApplyEntry(t, e, id) ==
    IF e.kind = "membership" THEN ApplyMembership(t, e.m, id)
    ELSE [t EXCEPT !.last = id,
                   !.pending = IF Accepts(t, e, id) THEN PendingAfter(t, e, id) ELSE @]

LogId(l, i) == IF i = 0 THEN NoLog ELSE [index |-> i, term |-> l[i].term]

\* A state that applied a prefix of the log, after applying up to entry k.
StateAfter(t, l, k) ==
    LET from == t.last.index
        after[i \in from .. k] == IF i = from THEN t ELSE ApplyEntry(after[i - 1], l[i], LogId(l, i))
    IN IF k <= from THEN t ELSE after[k]

StateAt(l, k) == StateAfter(Unapplied, l, k)

-----------------------------------------------------------------------------
(* Replication (authorization/replay.rs).                                  *)

\* committed
IsCommitted(id, frontier) == id.index < frontier.index \/ (id = frontier /\ id # NoLog)

\* transition: the memberships that may follow the source's.
Transitions(t, frontier) ==
    LET p == t.pending.plan
        m == t.membership
        acked == IsCommitted(t.pending.ack, frontier)
    IN IF t.pending = NoJoin \/ ~IsCommitted(t.pending.prepared, frontier) THEN {}
       ELSE IF StablePrevious(m, p)
       THEN {Flat(p.previous, m.nodes \union {p.consumer}), Flat(p.previous, m.nodes \ {p.consumer})}
                \union (IF acked /\ p.consumer \in Learners(m) THEN {Joint(p, m.nodes)} ELSE {})
       ELSE IF m.configs = <<p.previous, NextVoters(p)>> /\ acked /\ IsCommitted(t.mlog, frontier)
       THEN {Promoted(p, m.nodes)}
       ELSE {}

\* data: checks that need no state.
WellFormed(e, id) ==
    CASE e.kind = "membership" ->
           Len(e.m.configs) \in 1 .. 2
               /\ \A voters \in ToSet(e.m.configs) : voters # {} /\ UniqueMembers(voters)
      [] e.kind = "prepare" -> ValidPlan(e.plan)
      [] e.kind = "cancel" -> ValidPlan(e.plan) /\ e.prepared.index < id.index
      [] e.kind = "ack" -> e.prepared.index < id.index
      [] OTHER -> TRUE

\* A plausible slip: memberships are left to OpenRaft.
FollowsAnyMembership(t, e, id, frontier) ==
    e.kind = "membership" \/ Accepts(t, e, id)

\* apply: the conditions on one entry, stricter than those of the state machine.
Follows(t, e, id, frontier) ==
    CASE e.kind = "membership" -> e.m = t.membership \/ e.m \in Transitions(t, frontier)
      [] e.kind = "prepare" ->
           IF t.pending # NoJoin THEN t.pending.plan = e.plan
           ELSE StablePrevious(t.membership, e.plan)
      [] e.kind = "cancel" ->
           /\ t.pending # NoJoin
           /\ t.pending.plan = e.plan /\ t.pending.prepared = e.prepared
           /\ IsCommitted(e.prepared, frontier)
           /\ StablePrevious(t.membership, e.plan)
           /\ e.plan.consumer \notin t.membership.nodes
      [] e.kind = "ack" ->
           /\ t.pending # NoJoin /\ Names(e, t.pending)
           /\ IsCommitted(e.prepared, frontier)
           /\ t.pending.ack = NoLog =>
                 /\ StablePrevious(t.membership, t.pending.plan)
                 /\ e.plan.consumer \in Learners(t.membership)
                 /\ IsCommitted(t.mlog, frontier)
      [] OTHER -> TRUE

SourceOf(t) ==
    IF t.last # NoLog THEN t ELSE [t EXCEPT !.membership = Flat(Cohort, Cohort)]

\* One entry of the prefix or of the request, in turn.
Replay(src, e, id, frontier) ==
    IF src.verdict # "ok" THEN src
    ELSE IF id.index # src.state.last.index + 1 THEN [src EXCEPT !.verdict = "conflict"]
    ELSE IF WellFormed(e, id) /\ Follows(src.state, e, id, frontier)
    THEN [src EXCEPT !.state = ApplyEntry(@, e, id)]
    ELSE [src EXCEPT !.verdict = "refused", !.at = id]

\* The newest of the local commit, the applied state and the leader's commit.
\* A plausible slip: the leader's is ignored.
FrontierLocal(commit, last, leader_commit) == IF commit.index > last.index THEN commit ELSE last

Frontier(commit, last, leader_commit) ==
    LET ids == {commit, last, leader_commit} IN CHOOSE a \in ids : \A b \in ids : a.index >= b.index

\* validate: the local log `l` up to the request's previous entry, then the
\* request's entries, which are those of the sender's log `m` up to `upto`.
Validate(t, l, commit, m, prev, upto, leader_commit) ==
    LET frontier == Frontier(commit, t.last, leader_commit)
        start == [state |-> SourceOf(t), verdict |-> "ok", at |-> NoLog]
        from == t.last.index
        prefix[i \in from .. prev] ==
            IF i = from THEN start
            ELSE IF i > Len(l) THEN [prefix[i - 1] EXCEPT !.verdict = "conflict"]
            ELSE Replay(prefix[i - 1], l[i], LogId(l, i), frontier)
        local == IF prev <= from THEN start ELSE prefix[prev]
        joined == IF local.verdict = "ok" /\ prev >= from /\ local.state.last # LogId(m, prev)
                  THEN [local EXCEPT !.verdict = "conflict"] ELSE local
        request[i \in prev .. upto] ==
            IF i = prev THEN joined
            ELSE IF i > from THEN Replay(request[i - 1], m[i], LogId(m, i), frontier)
            ELSE IF i = from /\ LogId(m, i) # t.last
            THEN [request[i - 1] EXCEPT !.verdict = "conflict"]
            ELSE request[i - 1]
    IN request[upto]

-----------------------------------------------------------------------------
(* Authorization (authorization/state.rs) of a local replica with applied  *)
(* state `t`; a joiner has a verified join `proof` until it is promoted.   *)

\* snapshot_prepared_join
ConsistentJoin(j, m, mlog, last) ==
    LET stable == StablePrevious(m, j.plan)
        joint == m.configs = <<j.plan.previous, NextVoters(j.plan)>>
        learner == j.plan.consumer \in Learners(m)
    IN /\ ValidPlan(j.plan) /\ last # NoLog /\ j.prepared.index <= last.index
       /\ stable \/ joint
       /\ learner \/ joint => mlog.index > j.prepared.index
       /\ IF j.ack = NoLog THEN ~joint
          ELSE /\ j.prepared.index < j.ack.index /\ j.ack.index <= last.index
               /\ \/ stable /\ learner /\ mlog.index < j.ack.index
                  \/ (joint \/ (stable /\ ~learner)) /\ j.ack.index < mlog.index

Bootstrapping(t, proof) == proof # NoJoin /\ t.last.index < proof.prepared.index

\* The applied membership, or the genesis before there is one.
Current(t) == IF Voters(t.membership) = {} THEN Flat(Cohort, Cohort) ELSE t.membership

\* from_state, but for the peer.
Coherent(t, proof, local) ==
    /\ proof # NoJoin => proof.plan.consumer = local /\ ValidPlan(proof.plan)
    /\ proof # NoJoin /\ ~Bootstrapping(t, proof) =>
          SameOperation(t.pending, proof) \/ \E c \in t.completed : SameOperation(c.join, proof)
    /\ Voters(t.membership) = {} => Bootstrapping(t, proof) \/ local \in Cohort
    /\ IF t.pending # NoJoin THEN ConsistentJoin(t.pending, Current(t), t.mlog, t.last)
       ELSE Len(Current(t).configs) = 1

AuthorizedPeers(t, proof) ==
    (IF Bootstrapping(t, proof) THEN proof.plan.previous ELSE Current(t).nodes)
        \union (IF t.pending # NoJoin THEN {t.pending.plan.consumer} ELSE {})

AuthorizedVoters(t, proof) ==
    IF Bootstrapping(t, proof) THEN proof.plan.previous ELSE Voters(Current(t))

AuthorizedMemberships(t, proof) ==
    LET m == Current(t)
        p == t.pending.plan
    IN {m}
       \union (IF ~Bootstrapping(t, proof) THEN {}
               ELSE {Flat(proof.plan.previous, proof.plan.previous \union extra) :
                        extra \in {{}, {proof.plan.consumer}}})
       \union (IF t.pending = NoJoin THEN {}
               ELSE IF StablePrevious(m, p)
               THEN {Flat(p.previous, m.nodes \union {p.consumer}),
                     Flat(p.previous, m.nodes \ {p.consumer})}
                        \union (IF t.pending.ack # NoLog /\ p.consumer \in Learners(m)
                                THEN {Joint(p, m.nodes)} ELSE {})
               ELSE IF t.pending.ack # NoLog THEN {Promoted(p, m.nodes)} ELSE {})

\* check, vote and sender_vote: a leader or candidate must vote by the
\* membership that the local replica applied.
AuthorizesSender(t, proof, local, sender) ==
    /\ Coherent(t, proof, local)
    /\ sender \in AuthorizedPeers(t, proof) /\ sender \in AuthorizedVoters(t, proof)

-----------------------------------------------------------------------------
(* Snapshots (authorization/snapshot.rs): `snap` is the sender's applied   *)
(* state.                                                                  *)

AtOrBefore(a, b) == a.index <= b.index /\ a.term <= b.term /\ (a.index = b.index => a = b)

ConsistentCompletion(c, snap) ==
    /\ ValidPlan(c.join.plan) /\ c.join.ack # NoLog
    /\ c.join.prepared.index < c.join.ack.index /\ AtOrBefore(c.join.prepared, c.join.ack)
    /\ c.join.ack.index < c.promoted.index /\ AtOrBefore(c.join.ack, c.promoted)
    /\ AtOrBefore(c.promoted, snap.last) /\ AtOrBefore(c.promoted, snap.mlog)
    /\ c.join.plan.consumer \in Voters(snap.membership)
    /\ snap.mlog = c.promoted => snap.membership.configs = <<NextVoters(c.join.plan)>>

\* snapshot_bootstrap_membership
BootstrapMembership(t, proof, snap) ==
    LET p == proof.plan
        completed == \E c \in snap.completed : SameOperation(c.join, proof)
    IN \E m \in AuthorizedMemberships(t, proof) :
          /\ StablePrevious(m, p) /\ p.consumer \in m.nodes
          /\ snap.membership = IF completed THEN Promoted(p, m.nodes) ELSE Joint(p, m.nodes)

\* snapshot_bootstrap_operation
ContainsProof(proof, snap) ==
    SameOperation(snap.pending, proof)
        # (\E c \in snap.completed : SameOperation(c.join, proof))

AcceptsSnapshot(t, proof, snap) ==
    LET bound == proof # NoJoin /\ snap.last.index >= proof.prepared.index
    IN /\ snap.mlog.index < snap.last.index \/ snap.mlog = snap.last
       /\ snap.pending # NoJoin =>
             ConsistentJoin(snap.pending, snap.membership, snap.mlog, snap.last)
       /\ \A c \in snap.completed : ConsistentCompletion(c, snap)
       /\ bound => ContainsProof(proof, snap)
       /\ \/ snap.membership \in AuthorizedMemberships(t, proof)
          \/ bound /\ BootstrapMembership(t, proof, snap)

=============================================================================
