----------------------------- MODULE JoinProtocol -----------------------------
(***************************************************************************)
(* A member's new boot joins: the leader's management calls prepare it,    *)
(* add it as a learner, acknowledge that it caught up, promote it through  *)
(* a joint membership, or cancel it; every replica admits what the leader  *)
(* replicates by its own authorization (ReplicaAuth).                      *)
(*                                                                         *)
(* OpenRaft is external: elections, replication with backtracking, commit  *)
(* by the membership last in the leader's log, and change_membership's own *)
(* refusals.  A call checks applied state and proposes in separate steps,  *)
(* may lose leadership in between, and may be dropped by its deadline at   *)
(* any await, which frees the `mutation` lock; what it proposed stays in   *)
(* the log.  A replica of the roster outside Running is down for good.     *)
(***************************************************************************)
EXTENDS ReplicaAuth

CONSTANTS
    Running,           \* the boots of the cohort that run
    Joiners,           \* new boots of the members that are down
    Nonces,            \* operation nonces a joiner may use
    Lagging,           \* replicas a snapshot may be sent to
    Prepared,          \* the operation that is prepared at the start
    MaxTerm, MaxLog    \* bounds on elections and on entries

VARIABLES
    log, state,             \* each replica's log, and what it applied: all it knows committed
    term, leads,            \* its term, and whether it leads in it
    call,                   \* the management call that holds its mutation lock
    answer, proof           \* a joiner's prepared operation, and its verified_bootstrap

vars == <<log, state, term, leads, call, answer, proof>>

Replicas == Running \union Joiners

NoCall == [op |-> "none", stage |-> "none", join |-> NoJoin, at |-> NoLog]

Blank(t) == [term |-> t, kind |-> "blank", m |-> Flat({}, {}), plan |-> NoPlan, prepared |-> NoLog]
MembershipEntry(t, m) == [Blank(t) EXCEPT !.kind = "membership", !.m = m]
Command(t, kind, j) ==
    [Blank(t) EXCEPT !.kind = kind, !.plan = j.plan, !.prepared = j.prepared]

\* A formed cohort that prepared its first join and added the learner.
Formed ==
    LET j == [plan |-> Prepared, prepared |-> [index |-> 2, term |-> 1], ack |-> NoLog]
    IN << MembershipEntry(1, Flat(Cohort, Cohort)), Command(1, "prepare", [j EXCEPT !.prepared = NoLog]),
          MembershipEntry(1, Flat(Cohort, Cohort \union {Prepared.consumer})) >>

Init ==
    /\ log = [r \in Replicas |-> IF r \in Running THEN Formed ELSE <<>>]
    /\ state = [r \in Replicas |-> StateAt(log[r], Len(log[r]))]
    /\ term = [r \in Replicas |-> IF r \in Running THEN 1 ELSE 0]
    /\ leads = [r \in Replicas |-> r = CHOOSE q \in Running : TRUE]
    /\ call = [r \in Replicas |-> NoCall]
    /\ answer = [r \in Replicas |->
                    IF r = Prepared.consumer THEN StateAt(Formed, 3).pending ELSE NoJoin]
    /\ proof = [r \in Replicas |-> NoJoin]

-----------------------------------------------------------------------------
(* Raft.                                                                   *)

Applied(r) == state[r].last.index

\* The last membership of a log, and whether it is committed.
EffectiveAt(r) ==
    LET last[i \in 0 .. Len(log[r])] ==
            IF i = 0 \/ log[r][i].kind = "membership" THEN i ELSE last[i - 1]
    IN last[Len(log[r])]
Effective(r) == IF EffectiveAt(r) = 0 THEN Flat({}, {}) ELSE log[r][EffectiveAt(r)].m
Settled(r) == EffectiveAt(r) <= Applied(r)

Quorum(m, replicas) ==
    \A i \in DOMAIN m.configs :
        2 * Cardinality(m.configs[i] \intersect replicas) > Cardinality(m.configs[i])

UpToDate(a, b) ==
    LET last(r) == LogId(log[r], Len(log[r]))
    IN \/ last(a).term > last(b).term
       \/ last(a).term = last(b).term /\ last(a).index >= last(b).index

\* The length of the longest prefix that two logs share.
Shared(a, b) ==
    LET n == IF Len(log[a]) < Len(log[b]) THEN Len(log[a]) ELSE Len(log[b])
        differ == {i \in 1 .. n : log[a][i] # log[b][i]}
    IN IF differ = {} THEN n ELSE Min(differ) - 1

MayPropose(r) == leads[r] /\ Len(log[r]) < MaxLog

Propose(r, e) == log' = [log EXCEPT ![r] = Append(@, e)]
NextId(r) == [index |-> Len(log[r]) + 1, term |-> term[r]]

Elect(r) ==
    LET m == Effective(r)
    IN /\ ~leads[r] /\ Len(log[r]) < MaxLog
       /\ \E t \in term[r] + 1 .. MaxTerm :
             /\ \A u \in 1 .. t - 1 : \E v \in Replicas : term[v] >= u
             /\ r \in Voters(m) /\ AuthorizesSender(state[r], proof[r], r, r)
             /\ \E q \in SUBSET {v \in Voters(m) \intersect Replicas : term[v] < t} :
                   /\ r \in q /\ Quorum(m, q)
                   /\ \A v \in q : /\ UpToDate(r, v)
                                   /\ v \in AuthorizedPeers(state[r], proof[r])
                                   /\ AuthorizesSender(state[v], proof[v], v, r)
                   /\ term' = [v \in Replicas |-> IF v \in q THEN t ELSE term[v]]
                   /\ leads' = [v \in Replicas |-> IF v \in q THEN v = r ELSE leads[v]]
             /\ Propose(r, Blank(t))
       /\ UNCHANGED <<state, call, answer, proof>>

\* send_rpc validates with the sender's own authorization, dispatch_request
\* with the receiver's.
Verdict(v, l, prev, upto) ==
    Validate(state[v], log[v], state[v].last, log[l], prev, upto, state[l].last).verdict

MayReach(l, f) ==
    /\ leads[l] /\ l # f /\ term[f] <= term[l] /\ f \in Effective(l).nodes
    /\ AuthorizesSender(state[l], proof[l], l, l) /\ f \in AuthorizedPeers(state[l], proof[l])
    /\ AuthorizesSender(state[f], proof[f], f, l)

Follow(l, f) ==
    /\ term' = [term EXCEPT ![f] = term[l]]
    /\ leads' = [leads EXCEPT ![f] = FALSE]

\* AppendEntries with all that the follower lacks, or none of it.
Replicate(l, f) ==
    /\ leads[l] /\ l # f
    /\ LET prev == Shared(l, f)
           useful == {upto \in {prev, Len(log[l])} :
                         upto > prev \/ Applied(f) < Min({Applied(l), upto}) \/ term[f] < term[l]}
       IN useful # {} /\ MayReach(l, f) /\ \E upto \in useful :
             /\ Verdict(l, l, prev, upto) = "ok" /\ Verdict(f, l, prev, upto) = "ok"
             /\ log' = [log EXCEPT ![f] = IF upto > prev THEN log[l] ELSE @]
             /\ state' = [state EXCEPT ![f] = StateAfter(@, log'[f], Min({Applied(l), upto}))]
    /\ Follow(l, f)
    /\ UNCHANGED <<call, answer, proof>>

\* A snapshot of what the leader applied, to a follower that lacks it.
InstallSnapshot(l, f) ==
    /\ f \in Lagging /\ MayReach(l, f) /\ Applied(l) > Shared(l, f)
    /\ AcceptsSnapshot(state[l], proof[l], state[l])
    /\ AcceptsSnapshot(state[f], proof[f], state[l])
    /\ log' = [log EXCEPT ![f] = SubSeq(log[l], 1, Applied(l))]
    /\ state' = [state EXCEPT ![f] = state[l]]
    /\ Follow(l, f)
    /\ UNCHANGED <<call, answer, proof>>

Holds(r, l, i) == Len(log[r]) >= i /\ SubSeq(log[r], 1, i) = SubSeq(log[l], 1, i)

Commitable(l) ==
    LET m == Effective(l)
    IN {i \in Applied(l) + 1 .. Len(log[l]) :
           /\ log[l][i].term = term[l]
           /\ Quorum(m, {r \in Replicas : Holds(r, l, i)})}

AdvanceCommit(l) ==
    /\ leads[l] /\ Commitable(l) # {}
    /\ state' = [state EXCEPT ![l] = StateAfter(@, log[l], Max(Commitable(l)))]
    /\ UNCHANGED <<log, term, leads, call, answer, proof>>

raft == <<log, state, term, leads, answer, proof>>

-----------------------------------------------------------------------------
(* Management calls (runtime/management.rs, runtime/recovery.rs).          *)

Begin(r, op, stage, j) ==
    /\ call' = [call EXCEPT ![r] = [op |-> op, stage |-> stage, join |-> j, at |-> NoLog]]
    /\ UNCHANGED raft

End(r) == call' = [call EXCEPT ![r] = NoCall]

\* coherent_session and the leader check at the start of a mutation.  A call
\* that would have to propose past MaxLog is not made (MayPropose).
MayManage(r) == call[r] = NoCall /\ leads[r] /\ Coherent(state[r], proof[r], r)

PrepareJoin(r, joiner, nonce) ==
    LET t == state[r]
        plan == [consumer |-> joiner, nonce |-> nonce, previous |-> Voters(t.membership)]
    IN /\ MayManage(r) /\ proof[joiner] = NoJoin /\ joiner \notin Voters(state[joiner].membership)
       /\ IF t.pending # NoJoin
          THEN /\ t.pending.plan.consumer = joiner /\ t.pending.plan.nonce = nonce
               /\ Begin(r, "prepare", "learner", t.pending)
          ELSE /\ MayPropose(r) /\ Len(t.membership.configs) = 1 /\ ValidPlan(plan)
               /\ Begin(r, "prepare", "write", [NoJoin EXCEPT !.plan = plan])

\* LearnerReady, which a joiner sends once it applied its own preparation.
LearnerReady(r, joiner) ==
    LET t == state[r]
    IN /\ MayPropose(r) /\ MayManage(r) /\ proof[joiner] # NoJoin
       /\ Applied(joiner) >= proof[joiner].prepared.index
       /\ t.pending # NoJoin /\ SameOperation(t.pending, proof[joiner])
       /\ Shared(r, joiner) >= t.pending.prepared.index
       /\ Begin(r, "ready", IF t.pending.ack = NoLog THEN "write" ELSE "change", t.pending)

\* recover_pending of a joint membership that committed.
ResumePromotion(r) ==
    LET t == state[r]
    IN /\ MayPropose(r) /\ MayManage(r) /\ t.pending # NoJoin /\ t.pending.ack # NoLog
       /\ t.membership.configs = <<t.pending.plan.previous, NextVoters(t.pending.plan)>>
       /\ t.mlog.index > t.pending.ack.index
       /\ Begin(r, "ready", "change", t.pending)

\* cancel_join, from the joining member or from recover_pending.
CancelJoin(r) ==
    LET t == state[r]
    IN /\ MayPropose(r) /\ MayManage(r) /\ t.pending # NoJoin
       /\ StablePrevious(t.membership, t.pending.plan)
       /\ Begin(r, "cancel",
                IF t.pending.plan.consumer \in t.membership.nodes THEN "remove" ELSE "write",
                t.pending)

\* client_write
Kind(op) == CASE op = "prepare" -> "prepare" [] op = "ready" -> "ack" [] OTHER -> "cancel"

Write(r) ==
    /\ call[r].stage = "write"
    /\ IF leads[r]
       THEN /\ MayPropose(r)
            /\ Propose(r, Command(term[r], Kind(call[r].op), call[r].join))
            /\ call' = [call EXCEPT ![r].stage = "wait", ![r].at = NextId(r)]
       ELSE End(r) /\ UNCHANGED log
    /\ UNCHANGED <<state, term, leads, answer, proof>>

\* What the call does with the answer, by the state applied when it looks.
AfterAnswer(r) ==
    LET t == state[r]
        c == call[r]
    IN IF c.op = "prepare" /\ t.pending.plan = c.join.plan
       THEN [c EXCEPT !.stage = "learner", !.join = t.pending]
       ELSE IF c.op = "ready" /\ t.pending = [c.join EXCEPT !.ack = c.at]
       THEN [c EXCEPT !.stage = "change", !.join = t.pending]
       ELSE NoCall

Answered(r) ==
    LET i == call[r].at.index
    IN /\ call[r].stage = "wait" /\ Applied(r) >= i
       /\ call' = [call EXCEPT ![r] =
              IF LogId(log[r], i) = call[r].at
                 /\ Accepts(StateAt(log[r], i - 1), log[r][i], call[r].at)
              THEN AfterAnswer(r) ELSE NoCall]
       /\ UNCHANGED raft

\* add_learner, change_membership and RemoveNodes, which OpenRaft refuses
\* while another change is not committed.
ProposeMembership(r, m, stage) ==
    /\ MayPropose(r) /\ Settled(r)
    /\ Propose(r, MembershipEntry(term[r], m))
    /\ call' = [call EXCEPT ![r] =
                   IF stage = "none" THEN NoCall ELSE [@ EXCEPT !.stage = stage, !.at = NextId(r)]]

AddLearner(r) ==
    LET joiner == call[r].join.plan.consumer
        m == Effective(r)
    IN /\ call[r].stage = "learner"
       /\ IF joiner \in state[r].membership.nodes
          THEN End(r) /\ answer' = [answer EXCEPT ![joiner] = call[r].join] /\ UNCHANGED log
          ELSE /\ IF leads[r] THEN ProposeMembership(r, [m EXCEPT !.nodes = @ \union {joiner}], "added")
                  ELSE End(r) /\ UNCHANGED log
               /\ UNCHANGED answer
       /\ UNCHANGED <<state, term, leads, proof>>

\* change_membership of the plan's next voters: joint first, unless it is.
ChangeMembership(r) ==
    LET next == NextVoters(call[r].join.plan)
        m == Effective(r)
        old == Voters(m) \ next
    IN /\ call[r].stage = "change"
       /\ IF ~leads[r] \/ ~(next \subseteq m.nodes) \/ m.configs = <<next>> THEN End(r) /\ UNCHANGED log
          ELSE IF Len(m.configs) = 1
          THEN ProposeMembership(r, [m EXCEPT !.configs = <<m.configs[1], next>>], "joint")
          ELSE ProposeMembership(r, Flat(next, m.nodes \ old), "none")
       /\ UNCHANGED <<state, term, leads, answer, proof>>

RemoveLearner(r) ==
    LET joiner == call[r].join.plan.consumer
        m == Effective(r)
    IN /\ call[r].stage = "remove"
       /\ IF ~leads[r] \/ joiner \in Voters(m) THEN End(r) /\ UNCHANGED log
          ELSE ProposeMembership(r, [m EXCEPT !.nodes = @ \ {joiner}], "removed")
       /\ UNCHANGED <<state, term, leads, answer, proof>>

\* The proposed membership was applied, or lost to another leader.
StageAfter(stage) ==
    CASE stage = "added" -> "learner" [] stage = "joint" -> "change" [] OTHER -> "write"

Changed(r) ==
    LET c == call[r]
        kept == c.at.index <= Len(log[r]) /\ LogId(log[r], c.at.index) = c.at
    IN /\ c.stage \in {"added", "joint", "removed"} /\ (kept => Applied(r) >= c.at.index)
       /\ call' = [call EXCEPT ![r] =
              IF kept THEN [@ EXCEPT !.stage = StageAfter(c.stage)] ELSE NoCall]
       /\ UNCHANGED raft

\* The deadline of management dispatch, of route or of a bounded phase; a call
\* dropped before it proposed is one not made.
Drop(r) ==
    /\ call[r].stage \in {"wait", "added", "joint", "removed"}
    /\ End(r) /\ UNCHANGED raft

\* A joiner verifies the answer to its PrepareJoin with a majority of members.
Admit(j) ==
    /\ proof[j] = NoJoin /\ answer[j] # NoJoin
    /\ 2 * Cardinality({q \in Replicas : SameOperation(state[q].pending, answer[j])})
          > Cardinality(Cohort)
    /\ proof' = [proof EXCEPT ![j] = [answer[j] EXCEPT !.ack = NoLog]]
    /\ UNCHANGED <<log, state, term, leads, call, answer>>

\* finish_join: mark_promoted by the joiner's own applied state.
FinishJoin(j) ==
    /\ proof[j] # NoJoin
    /\ \E c \in state[j].completed : SameOperation(c.join, proof[j])
    /\ proof' = [proof EXCEPT ![j] = NoJoin] /\ answer' = [answer EXCEPT ![j] = NoJoin]
    /\ UNCHANGED <<log, state, term, leads, call>>

Manage(r) ==
    \/ \E j \in Joiners, n \in Nonces : PrepareJoin(r, j, n)
    \/ \E j \in Joiners : LearnerReady(r, j)
    \/ ResumePromotion(r) \/ CancelJoin(r)
    \/ Write(r) \/ Answered(r) \/ AddLearner(r) \/ ChangeMembership(r) \/ RemoveLearner(r) \/ Changed(r)
    \/ Drop(r)

Next ==
    \/ \E r \in Replicas : Elect(r) \/ AdvanceCommit(r) \/ Manage(r)
    \/ \E l, f \in Replicas : Replicate(l, f) \/ InstallSnapshot(l, f)
    \/ \E j \in Joiners : Admit(j) \/ FinishJoin(j)

Spec == Init /\ [][Next]_vars

-----------------------------------------------------------------------------
(* Properties.                                                             *)

\* A voting boot changes only through its barriers: whatever a stale or
\* dropped call proposed, a committed joint membership belongs to the pending
\* plan and follows the committed acknowledgement of its learner, and only a
\* joint membership is followed by the plan's next voters (replay.rs:301-375).
Barriered(t, m) ==
    \/ m = t.membership
    \/ /\ t.pending # NoJoin
       /\ LET p == t.pending.plan
          IN \/ /\ StablePrevious(t.membership, p) /\ m.configs = <<p.previous>>
                /\ m.nodes \ {p.consumer} = t.membership.nodes \ {p.consumer}
             \/ /\ StablePrevious(t.membership, p) /\ t.pending.ack # NoLog
                /\ p.consumer \in Learners(t.membership) /\ m = Joint(p, t.membership.nodes)
             \/ /\ t.membership = Joint(p, t.membership.nodes) /\ t.pending.ack # NoLog
                /\ m = Promoted(p, t.membership.nodes)

CommittedChangesAreBarriered ==
    [][\A r \in Replicas : \A i \in Applied(r) + 1 .. Applied(r)' :
          log'[r][i].kind = "membership" /\ i > 1 =>
              Barriered(StateAfter(state[r], log'[r], i - 1), log'[r][i].m)]_vars

\* What is committed is never refused, whatever a replica applied so far: the
\* replay is stricter than the state machine (replay.rs:207-299 against
\* store/membership.rs:26-113), and an entry it refuses for good would leave
\* the replica behind for good.
CommittedIsNeverRefused ==
    \A l, f \in Replicas :
        LET prev == Shared(l, f)
        IN leads[l] /\ prev < Applied(l) /\ MayReach(l, f) =>
              \A v \in {l, f} : Verdict(v, l, prev, Applied(l)) # "refused"

=============================================================================
