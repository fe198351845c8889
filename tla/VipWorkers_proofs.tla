-------------------------- MODULE VipWorkers_proofs --------------------------
(***************************************************************************)
(* The inductive invariant of the handoff of a VIP, and that the steps of  *)
(* the members and the passing of time keep it.                            *)
(*                                                                         *)
(* The argument is about generations.  Whoever has not applied generation  *)
(* g lives on a proof that it requested before g was committed, and such a *)
(* proof is worth at most the time that the holder of g has not yet        *)
(* waited.  Whoever has applied g knows that it has to remove the address. *)
(***************************************************************************)
EXTENDS VipWorkers, TLAPS

-----------------------------------------------------------------------------
(* The replicated store, as far as the handoff depends on it.  Nothing is  *)
(* assumed of the placement: a holder may be any value.                    *)

Assigned(a) ==
    a \in [holder : {a.holder}, generation : Nat, previous_holder : {a.previous_holder},
           previous_holder_released : BOOLEAN, activation_tick : {a.activation_tick}]

Ticks == [Nodes -> Int]

\* The fields of KafStorageState.
Fields ==
    {"genesis", "cluster_epoch", "config_identity_enforced", "failover_semantics",
     "membership", "node_health", "node_probe_ticks", "latest_probe_tick",
     "node_recovery_tick", "node_recovery_pending", "node_nopreempt",
     "node_failback_blocked", "applied_progress", "prepared_join", "completed_joins",
     "joins", "vip_assignments", "vip_generation", "vip_last_holder"}

\* What reconciling the assignments relies on and keeps.
StoreOK(t) ==
    /\ DOMAIN t = Fields
    /\ t.node_probe_ticks \in Ticks /\ t.latest_probe_tick \in Int
    /\ DOMAIN t.vip_assignments = Vips /\ DOMAIN t.vip_generation = Vips
    /\ DOMAIN t.vip_last_holder = Vips
    /\ t.vip_generation[Vip] \in Nat
    /\ Assigned(t.vip_assignments[Vip])
    /\ t.vip_assignments[Vip].holder # NoNode =>
           /\ t.vip_assignments[Vip].holder = t.vip_last_holder[Vip]
           /\ t.vip_assignments[Vip].generation = t.vip_generation[Vip]

\* The cluster is formed and its members are the voters.
InForce(t) ==
    /\ t.genesis = Cohort
    /\ t.membership = [old |-> Roster, new |-> Roster, learners |-> {}]

ViewOK(w) ==
    /\ Assigned(w.assigned) /\ w.generation \in Nat /\ w.node_probe_ticks \in Ticks
    /\ w.assigned.holder # NoNode =>
           w.assigned.holder = w.last /\ w.assigned.generation = w.generation

\* A generation has one holder, before and after the VIP loses it.
Older(v, w) ==
    /\ v.generation <= w.generation
    /\ v.generation = w.generation => v.last = w.last
    /\ \A n \in Nodes : v.node_probe_ticks[n] <= w.node_probe_ticks[n]

-----------------------------------------------------------------------------
(* The inductive invariant.                                                *)

\* A sequence, of whatever it holds.
Listed(q) == q \in Seq({q[i] : i \in 1 .. Len(q)})

\* What some member has yet to apply, or was the last to apply.
Recorded == {views[i] : i \in 1 .. Len(views)}

Views ==
    /\ Listed(views) /\ Len(views) >= 1
    /\ behind \in [Nodes -> 0 .. Len(views) - 1]
    /\ StoreOK(store) /\ InForce(store) /\ views[Len(views)] = ViewOf(store)
    /\ \A i \in 1 .. Len(views) :
           ViewOK(views[i]) /\ \A j \in i .. Len(views) : Older(views[i], views[j])

Proofs == [left : 0 .. Lifetime, available : BOOLEAN]

Requests ==
    [phase : {"none", "sent", "committed"}, age : 0 .. Lifetime, up : BOOLEAN, tick : Int]

Submissions == {Nothing} \cup [kind : {"up", "down", "released"}, generation : Nat]

\* The assignments and ticks that these records hold may be any value.
Delays(n) ==
    waiting[n] \in [generation : Nat, tick : {waiting[n].tick}, waited : 0 .. TakeoverLifetime]

Works(n) ==
    work[n] \in [phase : {"idle", "publish", "bind", "added"}, for : {work[n].for},
                 tick : {work[n].tick}, left : 0 .. Lifetime, ok : BOOLEAN]

Shape(n) ==
    /\ proof[n] \in Proofs /\ request[n] \in Requests /\ delayed[n] \in Submissions
    /\ Delays(n) /\ Works(n)
    /\ work[n].phase # "idle" => Assigned(work[n].for)
    /\ addr[n] \in BOOLEAN /\ stuck[n] \in BOOLEAN /\ over[n] \in 0 .. Cleanup - 1

Total ==
    /\ DOMAIN proof = Nodes /\ DOMAIN request = Nodes /\ DOMAIN delayed = Nodes
    /\ DOMAIN waiting = Nodes /\ DOMAIN work = Nodes
    /\ DOMAIN addr = Nodes /\ DOMAIN stuck = Nodes /\ DOMAIN over = Nodes

Types == Total /\ \A n \in Nodes : Shape(n)

\* The member has moved on from generation g, or does not have the address
\* for it, or is its holder.
Gone(n, g) ==
    \/ View(n).generation > g
    \/ View(n).generation = g /\ (~addr[n] \/ View(n).last = n)

\* The assignment says that its predecessor n has released the VIP.
SaysReleased(a, n) ==
    /\ a.holder # NoNode /\ a.holder # n
    /\ a.previous_holder = n /\ a.previous_holder_released

\* A release that is under way or committed is true.
Releases ==
    \A n \in Nodes :
        /\ work[n].phase = "publish" => Gone(n, work[n].for.generation)
        /\ delayed[n].kind = "released" => Gone(n, delayed[n].generation)
        /\ \A w \in Recorded :
               SaysReleased(w.assigned, n) => Gone(n, w.assigned.generation)

\* Who waits for a generation was its holder when it began to wait.
Waiting(n) ==
    waiting[n] # NoWait =>
        /\ waiting[n].generation <= View(n).generation
        /\ waiting[n].generation = View(n).generation => View(n).last = n

\* Who binds while its predecessor has not released has waited.
Binding(n) ==
    /\ work[n].phase \in {"bind", "added"}
    /\ work[n].for.previous_holder # NoNode
    /\ ~work[n].for.previous_holder_released
    => waiting[n].generation = work[n].for.generation /\ waiting[n].waited = TakeoverLifetime

Waited == \A n \in Nodes : Waiting(n) /\ Binding(n)

\* No member applies the report before generation g.
Unseen(m, g) ==
    \A w \in Recorded : w.generation < g => w.node_probe_ticks[m] < request[m].tick

\* What a member that has not applied generation g can still rely on, once
\* its holder has waited for k ticks.
Spent(m, g, k) ==
    View(m).generation < g =>
        /\ proof[m].left = 0 \/ proof[m].left + k <= Lifetime
        /\ work[m].left = 0 \/ work[m].left + k <= Lifetime
        /\ request[m].phase = "committed" /\ request[m].up =>
               request[m].age >= k \/ request[m].age = Lifetime \/ Unseen(m, g)

\* A removal that is due is as late as the time that is left for it.
Removing(m, k) == addr[m] /\ ~stuck[m] => over[m] + Lifetime >= k

Current(n) == waiting[n] # NoWait /\ waiting[n].generation = store.vip_generation[Vip]

Expiring ==
    \A n \in Nodes : Current(n) =>
        \A m \in Nodes \ {n} :
            Spent(m, waiting[n].generation, waiting[n].waited) /\ Removing(m, waiting[n].waited)

IInv == Views /\ Types /\ Releases /\ Waited /\ Expiring
-----------------------------------------------------------------------------
(* The log, as the members have applied it.                                *)

LEMMA OlderIsReflexive ==
    ASSUME NEW w, ViewOK(w)
    PROVE  Older(w, w)
  BY DEF Older, ViewOK, Ticks

LEMMA OlderIsTransitive ==
    ASSUME NEW u, NEW v, NEW w, ViewOK(u), ViewOK(v), ViewOK(w), Older(u, v), Older(v, w)
    PROVE  Older(u, w)
<1>1. ASSUME NEW n \in Nodes PROVE u.node_probe_ticks[n] <= w.node_probe_ticks[n]
  BY <1>1 DEF Older, ViewOK, Ticks
<1>. QED
  BY <1>1 DEF Older, ViewOK

LEMMA ViewsOfStores ==
    ASSUME NEW t, StoreOK(t)
    PROVE  ViewOK(ViewOf(t))
  BY Zenon DEF StoreOK, ViewOK, ViewOf

\* Every member reads one of the recorded views, and none is ahead of the log.
LEMMA MembersRead ==
    ASSUME Views, NEW n \in Nodes
    PROVE  /\ View(n) \in Recorded /\ ViewOK(View(n))
           /\ Older(View(n), ViewOf(store)) /\ ViewOf(store) \in Recorded
<1>1. Len(views) - behind[n] \in 1 .. Len(views) /\ Len(views) \in 1 .. Len(views)
  BY DEF Views, Listed
<1>. QED
  BY <1>1 DEF Views, View, Recorded

LEMMA MembersReadNext ==
    ASSUME Views', NEW n \in Nodes
    PROVE  ViewOK(View(n)') /\ Older(View(n)', ViewOf(store')) /\ ViewOf(store') \in Recorded'
<1>1. /\ Len(views') - behind'[n] \in 1 .. Len(views')
      /\ Len(views') \in 1 .. Len(views')
  BY DEF Views, Listed
<1>. QED
  BY <1>1 DEF Views, View, Recorded

LEMMA SequencesAreListed ==
    ASSUME NEW S, NEW q \in Seq(S)
    PROVE  Listed(q)
  BY DEF Listed

LEMMA AppendLists ==
    ASSUME NEW q, NEW x, Listed(q)
    PROVE  LET r == Append(q, x)
           IN /\ Listed(r) /\ Len(r) = Len(q) + 1 /\ r[Len(q) + 1] = x
              /\ \A i \in 1 .. Len(q) : r[i] = q[i]
<1> DEFINE S == {q[i] : i \in 1 .. Len(q)} \cup {x}
           r == Append(q, x)
<1>1. q \in Seq(S)
  BY DEF Listed
<1> HIDE DEF S
<1>2. Len(r) = Len(q) + 1 /\ r[Len(q) + 1] = x /\ \A i \in 1 .. Len(q) : r[i] = q[i]
  BY <1>1
<1>3. r \in Seq(S)
  BY <1>1 DEF S
<1>. QED
  BY <1>2, <1>3, SequencesAreListed, Zenon

LEMMA TailLists ==
    ASSUME NEW q, Listed(q), Len(q) >= 2
    PROVE  LET r == Tail(q)
           IN /\ Listed(r) /\ Len(r) = Len(q) - 1
              /\ \A i \in 1 .. Len(r) : r[i] = q[i + 1]
<1> DEFINE S == {q[i] : i \in 1 .. Len(q)}
           r == Tail(q)
<1>1. q \in Seq(S) /\ Len(q) \in Nat
  BY DEF Listed
<1> HIDE DEF S
<1>2. Len(r) = Len(q) - 1 /\ \A i \in 1 .. Len(r) : r[i] = q[i + 1]
  BY <1>1
<1>3. r \in Seq(S)
  BY <1>1
<1>. QED
  BY <1>2, <1>3, SequencesAreListed, Zenon

\* What the log does in a step, as every member sees it.
LogStep ==
    /\ Views' /\ store.vip_generation[Vip] <= store'.vip_generation[Vip]
    /\ \A m \in Nodes : Older(View(m), View(m)')
    /\ Recorded' \subseteq Recorded \cup {ViewOf(store)'}

LEMMA LogStays ==
    ASSUME Views, UNCHANGED replica
    PROVE  LogStep
<1>1. Views' /\ Recorded' = Recorded /\ store' = store
  BY Zenon DEF replica, Views, Listed, Recorded
<1>2. ASSUME NEW m \in Nodes PROVE Older(View(m), View(m)')
  <2>1. View(m)' = View(m)
    BY Zenon DEF replica, View
  <2>. QED
    BY <2>1, MembersRead, OlderIsReflexive, Zenon
<1>3. store.vip_generation[Vip] \in Nat
  BY Zenon DEF Views, StoreOK
<1>. QED
  BY <1>1, <1>2, <1>3 DEF LogStep

\* A member applies the next entry.
LEMMA LogApplied ==
    ASSUME Views, NEW n \in Nodes, Apply(n)
    PROVE  LogStep
<1> DEFINE L == Len(views)
           trim == \A m \in Nodes : behind'[m] < L - 1
           d == IF trim THEN 1 ELSE 0
<1>1. /\ Listed(views) /\ L \in Nat /\ behind \in [Nodes -> 0 .. L - 1]
      /\ behind' = [behind EXCEPT ![n] = @ - 1] /\ behind[n] > 0
  BY DEF Views, Listed, Apply
<1>2. behind' \in [Nodes -> 0 .. L - 1 - d]
  BY <1>1
<1>3. /\ Listed(views') /\ Len(views') = L - d
      /\ \A i \in 1 .. L - d : views'[i] = views[i + d]
  <2>1. CASE trim
    <3>1. L >= 2 /\ views' = Tail(views)
      BY <1>1, <1>2, <2>1 DEF Apply
    <3>. QED
      BY <1>1, <2>1, <3>1, TailLists, Zenon
  <2>2. CASE ~trim
    BY <1>1, <2>2 DEF Apply
  <2>. QED
    BY <2>1, <2>2, Zenon
<1>4. L - d >= 1
  BY <1>1, <1>2
<1>5. store' = store
  BY Zenon DEF Apply
<1>0. d \in {0, 1}
  BY Zenon
<1> HIDE DEF L, trim, d
<1>6. Views'
  <2>1. \A i \in 1 .. L : ViewOK(views[i]) /\ \A j \in i .. L : Older(views[i], views[j])
    BY Zenon DEF Views, L
  <2>2. ASSUME NEW i \in 1 .. L - d
        PROVE  ViewOK(views'[i]) /\ \A j \in i .. L - d : Older(views'[i], views'[j])
    <3>1. i + d \in 1 .. L /\ views'[i] = views[i + d]
      BY <1>0, <1>1, <1>3
    <3>2. ASSUME NEW j \in i .. L - d
          PROVE  j + d \in i + d .. L /\ views'[j] = views[j + d]
      BY <1>0, <1>1, <1>3
    <3>. QED
      BY <2>1, <3>1, <3>2, Zenon
  <2>3. views'[L - d] = ViewOf(store')
    BY <1>0, <1>1, <1>3, <1>4, <1>5 DEF Views, L
  <2>. QED
    BY <1>0, <1>1, <1>2, <1>3, <1>4, <1>5, <2>2, <2>3 DEF Views
<1>7. ASSUME NEW m \in Nodes PROVE Older(View(m), View(m)')
  <2> DEFINE i == L - behind[m]
             j == L - behind'[m]
  <2>1. i \in 1 .. L /\ j \in i .. L /\ j - d \in 1 .. L - d
    BY <1>0, <1>1, <1>2
  <2>2. View(m) = views[i] /\ View(m)' = views'[j - d]
    <3>1. L \in Int /\ d \in Int /\ behind'[m] \in Int
      BY <1>0, <1>1, <1>2
    <3>2. Len(views') = L - d
      BY <1>3, Zenon
    <3>3. Len(views') - behind'[m] = j - d
      BY <3>1, <3>2
    <3>. QED
      BY <3>3, Zenon DEF View, L
  <2>3. views'[j - d] = views[j]
    <3>1. (j - d) + d = j
      BY <1>0, <1>1, <1>2
    <3> HIDE DEF j
    <3>. QED
      BY <1>3, <2>1, <3>1, Zenon
  <2>. QED
    BY <2>1, <2>2, <2>3, Zenon DEF Views, L
<1>8. Recorded' \subseteq Recorded
  BY <1>0, <1>1, <1>3 DEF Recorded, L
<1>9. store.vip_generation[Vip] \in Nat
  BY Zenon DEF Views, StoreOK
<1>. QED
  BY <1>5, <1>6, <1>7, <1>8, <1>9 DEF LogStep

\* The leader commits an entry.
LEMMA LogCommitted ==
    ASSUME Views, NEW t, Commit(t), StoreOK(t), InForce(t), Older(ViewOf(store), ViewOf(t))
    PROVE  LogStep /\ store' = t /\ \A m \in Nodes : View(m)' = View(m)
<1>1. CASE t = store
  <2>1. UNCHANGED replica
    BY <1>1, Zenon DEF Commit
  <2>. QED
    BY <1>1, <2>1, LogStays, Zenon DEF replica, View
<1>2. CASE t # store
  <2> DEFINE L == Len(views)
  <2>1. /\ store' = t /\ views' = Append(views, ViewOf(t))
        /\ behind' = [m \in Nodes |-> behind[m] + 1]
    BY <1>2, Zenon DEF Commit
  <2>2. /\ L \in Nat \ {0} /\ Listed(views) /\ behind \in [Nodes -> 0 .. L - 1]
        /\ views[L] = ViewOf(store)
        /\ \A i \in 1 .. L : ViewOK(views[i]) /\ \A j \in i .. L : Older(views[i], views[j])
    BY DEF Views, Listed
  <2>3. /\ Listed(views') /\ Len(views') = L + 1 /\ views'[L + 1] = ViewOf(t)
        /\ \A i \in 1 .. L : views'[i] = views[i]
    BY <2>1, <2>2, AppendLists
  <2> HIDE DEF L
  <2>4. ViewOK(ViewOf(t))
    BY ViewsOfStores, Zenon
  <2>5. ASSUME NEW i \in 1 .. L + 1
        PROVE  ViewOK(views'[i]) /\ \A j \in i .. L + 1 : Older(views'[i], views'[j])
    <3>1. CASE i = L + 1
      BY <2>2, <2>3, <2>4, <3>1, OlderIsReflexive
    <3>2. CASE i \in 1 .. L
      <4>1. ViewOK(views[i]) /\ Older(views[i], views[L]) /\ ViewOK(views[L])
        BY <2>2, <3>2
      <4>2. Older(views[i], ViewOf(t))
        BY <2>2, <2>4, <4>1, OlderIsTransitive, Zenon
      <4>. QED
        BY <2>2, <2>3, <3>2, <4>1, <4>2
    <3>. QED
      BY <2>2, <3>1, <3>2
  <2>6. Views'
    <3>1. behind' \in [Nodes -> 0 .. L]
      BY <2>1, <2>2
    <3>. QED
      BY <2>1, <2>2, <2>3, <2>5, <3>1 DEF Views
  <2>7. ASSUME NEW m \in Nodes PROVE View(m)' = View(m)
    <3>1. L - behind[m] \in 1 .. L /\ (L + 1) - behind'[m] = L - behind[m]
      BY <2>1, <2>2
    <3>. QED
      BY <2>3, <3>1, Zenon DEF View, L
  <2>8. Recorded' \subseteq Recorded \cup {ViewOf(store)'}
    BY <2>1, <2>2, <2>3 DEF Recorded, L
  <2>9. store.vip_generation[Vip] <= t.vip_generation[Vip]
    BY Zenon DEF Older, ViewOf
  <2>10. \A m \in Nodes : Older(View(m), View(m)')
    BY <2>7, MembersRead, OlderIsReflexive, Zenon
  <2>. QED
    BY <2>1, <2>6, <2>7, <2>8, <2>9, <2>10, Zenon DEF LogStep
<1>. QED
  BY <1>1, <1>2, Zenon
-----------------------------------------------------------------------------
(* What every step but the passing of time does at a member, and why that  *)
(* keeps the invariant.                                                    *)

\* The member gets the address only with an authorization.
AddsWithAuthority(m) ==
    addr'[m] /\ ~addr[m] =>
        /\ View(m).assigned.holder = m /\ View(m)' = View(m)
        /\ work[m].left > 0

\* The member speaks of a release only when the address is gone.
ReleasesTruly(m) ==
    /\ work'[m].phase = "publish" =>
           \/ work[m].phase = "publish" /\ work'[m].for = work[m].for
           \/ Gone(m, work[m].for.generation)'
    /\ delayed'[m].kind = "released" =>
           \/ delayed'[m] = delayed[m]
           \/ work[m].phase = "publish" /\ delayed'[m].generation = work[m].for.generation

\* A proof is renewed only by a report that the member has applied.
RenewsByReport(m) ==
    /\ \/ proof'[m].left <= proof[m].left
       \/ /\ request[m].phase = "committed" /\ request[m].up
          /\ View(m).node_probe_ticks[m] >= request[m].tick
          /\ proof'[m].left = Lifetime - request[m].age
    /\ work'[m].left <= work[m].left \/ work'[m].left = proof[m].left
    /\ request'[m].phase = "committed" /\ request'[m].up =>
           request'[m] = request[m] \/ request'[m].tick > store.node_probe_ticks[m]

\* A removal that is due stays due.
KeepsDue(m) ==
    addr'[m] /\ ~stuck'[m] => over'[m] = over[m] /\ (addr[m] => ~stuck[m])

\* A wait starts at zero, for the generation that the member holds.
WaitsFromZero(m) ==
    \/ waiting'[m] = waiting[m]
    \/ waiting'[m] # NoWait =>
           /\ waiting'[m].waited = 0 /\ waiting'[m].generation = View(m)'.generation
           /\ View(m)'.last = m

\* A bind begins after the wait, which does not change before it ends.
BindsAfterWait(m) ==
    work'[m].phase \in {"bind", "added"} =>
        \/ /\ work[m].phase \in {"bind", "added"} /\ work'[m].for = work[m].for
           /\ waiting'[m] = waiting[m]
        \/ Binding(m)'

Keeps(m) ==
    /\ AddsWithAuthority(m) /\ ReleasesTruly(m) /\ RenewsByReport(m)
    /\ KeepsDue(m) /\ WaitsFromZero(m) /\ BindsAfterWait(m)

\* What the new entry says of a release is old, or true.
TellsTruly ==
    \A w \in Recorded', m \in Nodes :
        SaysReleased(w.assigned, m) =>
            (\E v \in Recorded : v.assigned = w.assigned) \/ Gone(m, w.assigned.generation)

\* A step of the members, short of the passing of time.
MemberStep == LogStep /\ TellsTruly /\ Types' /\ \A m \in Nodes : Keeps(m)

\* A member that is gone stays gone until it is the holder.
LEMMA GoneStays ==
    ASSUME Views, Types, LogStep, NEW m \in Nodes, NEW g \in Nat,
           AddsWithAuthority(m), Types', Gone(m, g)
    PROVE  Gone(m, g)'
<1>1. ViewOK(View(m)) /\ ViewOK(View(m)') /\ Older(View(m), View(m)')
  BY MembersRead, MembersReadNext, Zenon DEF LogStep
<1>2. addr[m] \in BOOLEAN /\ addr'[m] \in BOOLEAN
  BY Zenon DEF Types, Shape
<1>3. CASE addr'[m] /\ ~addr[m]
  <2>1. View(m)'.last = m
    BY <1>1, <1>3, NodesAssumption, Zenon DEF AddsWithAuthority, ViewOK, NoNode
  <2>. QED
    BY <1>1, <1>3, <2>1, Zenon DEF Gone, AddsWithAuthority
<1>4. CASE ~(addr'[m] /\ ~addr[m])
  BY <1>1, <1>2, <1>4 DEF Gone, Older, ViewOK
<1>. QED
  BY <1>3, <1>4, Zenon

LEMMA ReleasesKept ==
    ASSUME IInv, MemberStep
    PROVE  Releases'
<1> SUFFICES ASSUME NEW m \in Nodes
             PROVE  /\ work'[m].phase = "publish" => Gone(m, work[m].for.generation)'
                    /\ delayed'[m].kind = "released" => Gone(m, delayed[m].generation)'
                    /\ \A w \in Recorded' :
                           SaysReleased(w.assigned, m) => Gone(m, w.assigned.generation)'
  BY Zenon DEF Releases
<1>1. Keeps(m) /\ Shape(m) /\ Shape(m)'
  BY Zenon DEF MemberStep, IInv, Types
<1>2. \A g \in Nat : Gone(m, g) => Gone(m, g)'
  BY <1>1, GoneStays, Zenon DEF IInv, MemberStep, Keeps
<1>3. ASSUME work[m].phase = "publish"
      PROVE  work[m].for.generation \in Nat /\ Gone(m, work[m].for.generation)
  BY <1>1, <1>3, Zenon DEF IInv, Releases, Shape, Assigned
<1>4. ASSUME delayed[m].kind = "released"
      PROVE  delayed[m].generation \in Nat /\ Gone(m, delayed[m].generation)
  BY <1>1, <1>4 DEF IInv, Releases, Shape, Submissions, Nothing
<1>5. ASSUME work'[m].phase = "publish" PROVE Gone(m, work[m].for.generation)'
  BY <1>1, <1>2, <1>3, <1>5, Zenon DEF Keeps, ReleasesTruly
<1>6. ASSUME delayed'[m].kind = "released" PROVE Gone(m, delayed[m].generation)'
  BY <1>1, <1>2, <1>3, <1>4, <1>6, Zenon DEF Keeps, ReleasesTruly
<1>7. ASSUME NEW w \in Recorded', SaysReleased(w.assigned, m)
      PROVE  Gone(m, w.assigned.generation)'
  <2>1. ViewOK(w)
    BY <1>7, Zenon DEF MemberStep, LogStep, Views, Recorded
  <2>2. w.assigned.generation \in Nat
    BY <2>1, Zenon DEF ViewOK, Assigned
  <2>3. Gone(m, w.assigned.generation)
    BY <1>7, Zenon DEF MemberStep, TellsTruly, IInv, Releases
  <2>. QED
    BY <1>2, <2>2, <2>3, Zenon
<1>. QED
  BY <1>5, <1>6, <1>7, Zenon

LEMMA WaitedKept ==
    ASSUME IInv, MemberStep
    PROVE  Waited'
<1> SUFFICES ASSUME NEW m \in Nodes
             PROVE  Waiting(m)' /\ Binding(m)'
  BY Zenon DEF Waited
<1>1. Keeps(m) /\ Shape(m) /\ Shape(m)' /\ Waiting(m) /\ Binding(m)
  BY Zenon DEF MemberStep, IInv, Types, Waited
<1>2. ViewOK(View(m)) /\ ViewOK(View(m)') /\ Older(View(m), View(m)')
  BY MembersRead, MembersReadNext, Zenon DEF LogStep, IInv, MemberStep
<1>3. Waiting(m)'
  <2>1. CASE waiting'[m] = waiting[m]
    <3>1. waiting[m].generation \in Nat
      BY <1>1, Zenon DEF Shape, Delays
    <3>. QED
      BY <1>1, <1>2, <2>1, <3>1 DEF Waiting, ViewOK, Older, NoWait
  <2>2. CASE waiting'[m] # waiting[m]
    BY <1>1, <1>2, <2>2 DEF Waiting, Keeps, WaitsFromZero, ViewOK, NoWait
  <2>. QED
    BY <2>1, <2>2, Zenon
<1>4. Binding(m)'
  BY <1>1, Zenon DEF Keeps, BindsAfterWait, Binding
<1>. QED
  BY <1>3, <1>4, Zenon

\* No recorded view is ahead of the log.
LEMMA RecordedAreOlder ==
    ASSUME Views, NEW w \in Recorded
    PROVE  ViewOK(w) /\ Older(w, ViewOf(store))
<1>1. PICK i \in 1 .. Len(views) : w = views[i]
  BY Zenon DEF Recorded
<1>2. Len(views) \in i .. Len(views)
  BY DEF Views, Listed
<1>. QED
  BY <1>1, <1>2, Zenon DEF Views

\* The generation that a member waits for is its own, if it is the last one;
\* whoever else is a holder in its own view has not applied it.
LEMMA OthersAreBehind ==
    ASSUME IInv, NEW n \in Nodes, Current(n), NEW m \in Nodes \ {n}
    PROVE  /\ View(m).generation \in Nat
           /\ View(m).assigned.holder = m => View(m).generation < waiting[n].generation
<1> DEFINE g == store.vip_generation[Vip]
<1>1. Waiting(n) /\ Shape(n) /\ Views
  BY Zenon DEF IInv, Waited, Types
<1>2. /\ ViewOK(View(n)) /\ Older(View(n), ViewOf(store))
      /\ ViewOK(View(m)) /\ Older(View(m), ViewOf(store))
  BY <1>1, MembersRead, Zenon
<1>3. ViewOf(store).generation = g /\ g \in Nat
  BY <1>1, Zenon DEF Views, StoreOK, ViewOf
<1>4. ViewOf(store).last = n
  BY <1>1, <1>2, <1>3 DEF Waiting, Current, Older, ViewOK
<1>. QED
  BY <1>2, <1>3, <1>4, NodesAssumption DEF Current, Older, ViewOK, NoNode

LEMMA ExpiringKept ==
    ASSUME IInv, MemberStep
    PROVE  Expiring'
<1> SUFFICES ASSUME NEW n \in Nodes, Current(n)', NEW m \in Nodes \ {n}
             PROVE  /\ Spent(m, waiting[n].generation, waiting[n].waited)'
                    /\ Removing(m, waiting[n].waited)'
  BY Zenon DEF Expiring
<1> DEFINE g == waiting'[n].generation
           k == waiting'[n].waited
<1>1. Keeps(n) /\ Keeps(m) /\ Shape(n)' /\ Shape(m) /\ Shape(m)' /\ Waiting(n)
  BY Zenon DEF MemberStep, IInv, Types, Waited
<1>2. g \in Nat /\ k \in Nat /\ g = store'.vip_generation[Vip]
  BY <1>1 DEF Shape, Current, Delays
<1>3. CASE waiting'[n] # waiting[n]
  <2>1. k = 0
    BY <1>1, <1>3, Zenon DEF Keeps, WaitsFromZero, Current, NoWait
  <2>2. proof'[m].left + 0 <= Lifetime /\ work'[m].left + 0 <= Lifetime
        /\ request'[m].age >= 0 /\ over'[m] + Lifetime >= 0
    BY <1>1, TimeAssumption DEF Shape, Proofs, Works, Requests
  <2>. QED
    BY <2>1, <2>2, Zenon DEF Spent, Removing
<1>4. CASE waiting'[n] = waiting[n]
  <2>1. store.vip_generation[Vip] = g /\ Current(n)
    <3>1. /\ ViewOK(View(n)) /\ Older(View(n), ViewOf(store))
          /\ store.vip_generation[Vip] <= store'.vip_generation[Vip]
      BY MembersRead, Zenon DEF IInv, MemberStep, LogStep
    <3>2. ViewOf(store).generation = store.vip_generation[Vip]
          /\ store.vip_generation[Vip] \in Nat
      BY Zenon DEF IInv, Views, StoreOK, ViewOf
    <3>. QED
      BY <1>1, <1>2, <1>4, <3>1, <3>2 DEF Waiting, Current, Older, ViewOK, NoWait
  <2>2. Spent(m, g, k) /\ Removing(m, k)
    BY <1>4, <2>1, Zenon DEF IInv, Expiring
  <2>3. /\ View(m).generation \in Nat /\ View(m) \in Recorded
        /\ View(m).assigned.holder = m => View(m).generation < g
    BY <1>4, <2>1, OthersAreBehind, MembersRead, Zenon DEF IInv
  <2>4. View(m).generation <= View(m)'.generation /\ View(m)'.generation \in Nat
    BY MembersReadNext, Zenon DEF MemberStep, LogStep, Older, ViewOK
  <2>5. \A w \in Recorded' : w.generation < g => w \in Recorded
    BY <1>2 DEF MemberStep, LogStep, ViewOf
  <2>6. ASSUME View(m)'.generation < g
        PROVE  /\ proof'[m].left = 0 \/ proof'[m].left + k <= Lifetime
               /\ work'[m].left = 0 \/ work'[m].left + k <= Lifetime
    <3>1. View(m).generation < g
      BY <1>2, <2>3, <2>4, <2>6
    <3>2. /\ proof[m].left = 0 \/ proof[m].left + k <= Lifetime
          /\ work[m].left = 0 \/ work[m].left + k <= Lifetime
      BY <2>2, <3>1, Zenon DEF Spent
    <3>3. /\ proof[m].left \in 0 .. Lifetime /\ proof'[m].left \in 0 .. Lifetime
          /\ work[m].left \in 0 .. Lifetime /\ work'[m].left \in 0 .. Lifetime
          /\ request[m].age \in 0 .. Lifetime
          /\ Lifetime \in Nat
      BY <1>1, TimeAssumption, Zenon DEF Shape, Proofs, Works, Requests
    <3>4. work'[m].left = 0 \/ work'[m].left + k <= Lifetime
      <4>1. work'[m].left <= work[m].left \/ work'[m].left = proof[m].left
        BY <1>1, Zenon DEF Keeps, RenewsByReport
      <4>. QED
        BY <1>2, <3>2, <3>3, <4>1
    <3>5. CASE proof'[m].left <= proof[m].left
      BY <1>2, <3>2, <3>3, <3>4, <3>5
    <3>6. CASE ~(proof'[m].left <= proof[m].left)
      <4>1. /\ request[m].phase = "committed" /\ request[m].up
            /\ View(m).node_probe_ticks[m] >= request[m].tick
            /\ proof'[m].left = Lifetime - request[m].age
        BY <1>1, <3>6, Zenon DEF Keeps, RenewsByReport
      <4>2. View(m).node_probe_ticks[m] \in Int /\ request[m].tick \in Int
        BY <1>1, MembersRead DEF IInv, ViewOK, Ticks, Shape, Requests
      <4>3. ~Unseen(m, g)
        BY <2>3, <3>1, <4>1, <4>2 DEF Unseen
      <4>4. request[m].age >= k \/ request[m].age = Lifetime
        BY <2>2, <3>1, <4>1, <4>3, Zenon DEF Spent
      <4>. QED
        BY <1>2, <3>3, <3>4, <4>1, <4>4
    <3>. QED
      BY <3>5, <3>6, Zenon
  <2>7. ASSUME View(m)'.generation < g, request'[m].phase = "committed", request'[m].up
        PROVE  request'[m].age >= k \/ request'[m].age = Lifetime \/ Unseen(m, waiting[n].generation)'
    <3>1. View(m).generation < g
      BY <1>2, <2>3, <2>4, <2>7
    <3>2. CASE request'[m] = request[m]
      <4>1. request[m].age >= k \/ request[m].age = Lifetime \/ Unseen(m, g)
        BY <2>2, <2>7, <3>1, <3>2, Zenon DEF Spent
      <4>. QED
        BY <2>5, <3>2, <4>1, Zenon DEF Unseen
    <3>3. CASE request'[m].tick > store.node_probe_ticks[m]
      <4>1. request'[m].tick \in Int /\ store.node_probe_ticks \in Ticks
        BY <1>1, Zenon DEF Shape, IInv, Views, StoreOK, Requests
      <4>2. ASSUME NEW w \in Recorded', w.generation < g
            PROVE  w.node_probe_ticks[m] < request'[m].tick
        <5>1. ViewOK(w) /\ Older(w, ViewOf(store))
          BY <2>5, <4>2, RecordedAreOlder, Zenon DEF IInv
        <5>2. w.node_probe_ticks[m] \in Int /\ w.node_probe_ticks[m] <= store.node_probe_ticks[m]
          BY <5>1, Zenon DEF ViewOK, Ticks, Older, ViewOf
        <5>. QED
          BY <3>3, <4>1, <5>2 DEF Ticks
      <4>. QED
        BY <4>2, Zenon DEF Unseen
    <3>. QED
      BY <1>1, <2>7, <3>2, <3>3, Zenon DEF Keeps, RenewsByReport
  <2>8. ASSUME addr'[m], ~stuck'[m] PROVE over'[m] + Lifetime >= k
    <3>1. over'[m] = over[m] /\ (addr[m] => ~stuck[m])
      BY <1>1, <2>8, Zenon DEF Keeps, KeepsDue
    <3>2. CASE addr[m]
      BY <2>2, <3>1, <3>2, Zenon DEF Removing
    <3>3. CASE ~addr[m]
      <4>1. View(m).assigned.holder = m /\ work[m].left > 0
        BY <1>1, <2>8, <3>3, Zenon DEF Keeps, AddsWithAuthority
      <4>2. work[m].left + k <= Lifetime
        BY <1>1, <2>2, <2>3, <4>1 DEF Spent, Shape, Works
      <4>. QED
        BY <1>1, <1>2, <3>1, <4>1, <4>2, TimeAssumption DEF Shape, Works
    <3>. QED
      BY <3>2, <3>3, Zenon
  <2>9. Spent(m, waiting[n].generation, waiting[n].waited)'
    BY <2>6, <2>7, Zenon DEF Spent
  <2>10. Removing(m, waiting[n].waited)'
    BY <2>8, Zenon DEF Removing
  <2>. QED
    BY <2>9, <2>10, Zenon
<1>. QED
  BY <1>3, <1>4, Zenon

LEMMA MemberStepKeeps ==
    ASSUME IInv, MemberStep
    PROVE  IInv'
  BY ReleasesKept, WaitedKept, ExpiringKept, Zenon DEF IInv, MemberStep, LogStep
-----------------------------------------------------------------------------
(* The steps of the log and of one member.                                 *)

Untouched(m) ==
    /\ proof'[m] = proof[m] /\ request'[m] = request[m] /\ delayed'[m] = delayed[m]
    /\ waiting'[m] = waiting[m] /\ work'[m] = work[m]
    /\ addr'[m] = addr[m] /\ stuck'[m] = stuck[m] /\ over'[m] = over[m]

LEMMA UntouchedKeeps ==
    ASSUME NEW m \in Nodes, Shape(m), Untouched(m)
    PROVE  Keeps(m) /\ Shape(m)'
<1>1. Shape(m)'
  BY Zenon DEF Shape, Untouched, Delays, Works
<1>2. AddsWithAuthority(m) /\ ReleasesTruly(m) /\ KeepsDue(m) /\ WaitsFromZero(m)
      /\ BindsAfterWait(m)
  BY Zenon DEF Untouched, AddsWithAuthority, ReleasesTruly, KeepsDue, WaitsFromZero, BindsAfterWait
<1>3. RenewsByReport(m)
  BY DEF Untouched, RenewsByReport, Shape, Proofs, Works
<1>. QED
  BY <1>1, <1>2, <1>3, Zenon DEF Keeps

\* A step of one member.
LEMMA OneMember ==
    ASSUME IInv, LogStep, TellsTruly, Total', NEW n \in Nodes,
           \A m \in Nodes \ {n} : Untouched(m), Shape(n)', Keeps(n)
    PROVE  MemberStep
<1>1. \A m \in Nodes : Shape(m)
  BY Zenon DEF IInv, Types
<1>2. \A m \in Nodes : Keeps(m) /\ Shape(m)'
  BY <1>1, UntouchedKeeps, Zenon
<1>. QED
  BY <1>2, Zenon DEF MemberStep, Types

\* A step that leaves the log alone.
LEMMA QuietLog ==
    ASSUME IInv, UNCHANGED replica
    PROVE  LogStep /\ TellsTruly /\ \A m \in Nodes : View(m)' = View(m)
<1>1. LogStep /\ Recorded' = Recorded
  BY LogStays, Zenon DEF IInv, replica, Recorded
<1>2. \A m \in Nodes : View(m)' = View(m)
  BY Zenon DEF replica, View
<1>. QED
  BY <1>1, <1>2, Zenon DEF TellsTruly

\* A member applies an entry.
LEMMA ApplyKeeps ==
    ASSUME IInv, NEW n \in Nodes, Apply(n)
    PROVE  MemberStep
<1>1. LogStep
  BY LogApplied, Zenon DEF IInv
<1>2. Recorded' \subseteq Recorded
  BY <1>1, MembersRead, Zenon DEF LogStep, Apply, IInv
<1>3. Total' /\ \A m \in Nodes : Untouched(m)
  BY Zenon DEF Apply, IInv, Types, Total, Untouched, publication, worker, kernel
<1>4. \A m \in Nodes : Shape(m)
  BY Zenon DEF IInv, Types
<1>. QED
  BY <1>1, <1>2, <1>3, <1>4, UntouchedKeeps, Zenon DEF MemberStep, TellsTruly, Types
-----------------------------------------------------------------------------
(* The actions.                                                            *)

\* What the freshness operations do: they break permits of their member.
Freshens(n) ==
    /\ DOMAIN proof' = Nodes /\ DOMAIN work' = Nodes
    /\ \A m \in Nodes \ {n} : proof'[m] = proof[m] /\ work'[m] = work[m]
    /\ proof'[n] \in Proofs
    /\ Works(n)' /\ work'[n].phase = work[n].phase
    /\ work'[n].for = work[n].for /\ work'[n].left = work[n].left

Breaks(n) ==
    /\ DOMAIN work' = Nodes /\ \A m \in Nodes \ {n} : work'[m] = work[m]
    /\ Works(n)' /\ work'[n].phase = work[n].phase
    /\ work'[n].for = work[n].for /\ work'[n].left = work[n].left

LEMMA Breaking ==
    ASSUME Total, NEW n \in Nodes, Works(n),
           work' = work \/ work' = [work EXCEPT ![n] = Break(@)]
    PROVE  Breaks(n)
<1>1. CASE work' = work
  BY <1>1, Zenon DEF Breaks, Works, Total
<1>2. CASE work' = [work EXCEPT ![n] = Break(@)]
  <2>1. work'[n] = [work[n] EXCEPT !.ok = FALSE]
    BY <1>2, Zenon DEF Break, Total
  <2>2. /\ work'[n].phase = work[n].phase /\ work'[n].for = work[n].for
        /\ work'[n].left = work[n].left
    BY <2>1, Zenon DEF Works
  <2>3. Works(n)'
    BY <2>1, Zenon DEF Works
  <2>. QED
    BY <1>2, <2>2, <2>3, Zenon DEF Breaks, Total
<1>. QED
  BY <1>1, <1>2, Zenon

LEMMA FreshnessEnds ==
    ASSUME Total, NEW n \in Nodes, Shape(n), MarkUnavailable(n) \/ Invalidate(n)
    PROVE  Freshens(n) /\ proof'[n].left <= proof[n].left
<1>1. Works(n)
  BY Zenon DEF Shape
<1>2. work' = work \/ work' = [work EXCEPT ![n] = Break(@)]
  BY Zenon DEF MarkUnavailable, Invalidate
<1>3. Breaks(n)
  BY <1>1, <1>2, Breaking, Zenon
<1>4. /\ DOMAIN proof' = Nodes /\ \A m \in Nodes \ {n} : proof'[m] = proof[m]
      /\ proof'[n] \in Proofs
      /\ proof'[n].left <= proof[n].left
  <2>1. CASE MarkUnavailable(n)
    <3>1. proof' = [proof EXCEPT ![n].available = FALSE]
      BY <2>1, Zenon DEF MarkUnavailable
    <3>2. /\ proof'[n] = [proof[n] EXCEPT !.available = FALSE] /\ DOMAIN proof' = Nodes
          /\ \A m \in Nodes \ {n} : proof'[m] = proof[m]
      BY <3>1, Zenon DEF Total
    <3>3. proof[n] \in Proofs
      BY Zenon DEF Shape
    <3>4. proof'[n] \in Proofs
          /\ proof'[n].left = proof[n].left
      BY <3>2, <3>3, Zenon DEF Proofs
    <3>. QED
      BY <3>2, <3>3, <3>4 DEF Proofs
  <2>2. CASE Invalidate(n)
    <3>1. proof' = [proof EXCEPT ![n] = NoProof]
      BY <2>2, Zenon DEF Invalidate
    <3>. QED
      BY <3>1, TimeAssumption DEF Shape, Total, NoProof, Proofs
  <2>. QED
    BY <2>1, <2>2, Zenon
<1>. QED
  BY <1>3, <1>4, Zenon DEF Breaks, Freshens

LEMMA FreshnessRecorded ==
    ASSUME Total, NEW n \in Nodes, Shape(n), RecordProbe(n)
    PROVE  /\ Freshens(n)
           /\ \/ proof'[n].left <= proof[n].left
              \/ request[n].up /\ proof'[n].left = Lifetime - request[n].age
<1>1. CASE request[n].up /\ Remaining(n) > 0
  <2>1. Works(n)
    BY Zenon DEF Shape
  <2>2. work' = work \/ work' = [work EXCEPT ![n] = Break(@)]
    BY <1>1, Zenon DEF RecordProbe
  <2>3. Breaks(n)
    BY <2>1, <2>2, Breaking, Zenon
  <2>4. Remaining(n) \in 0 .. Lifetime /\ Remaining(n) = Lifetime - request[n].age
    BY <1>1, TimeAssumption DEF Shape, Remaining, Requests
  <2>5. proof' = [proof EXCEPT ![n] = [left |-> Remaining(n), available |-> TRUE]]
    BY <1>1, Zenon DEF RecordProbe
  <2>. QED
    BY <1>1, <2>3, <2>4, <2>5, Zenon DEF Breaks, Freshens, Total, Proofs
<1>2. CASE ~(request[n].up /\ Remaining(n) > 0)
  BY <1>2, FreshnessEnds, Zenon DEF RecordProbe
<1>. QED
  BY <1>1, <1>2, Zenon

LEMMA FreshnessStays ==
    ASSUME Total, NEW n \in Nodes, Shape(n), UNCHANGED <<proof, work>>
    PROVE  Freshens(n) /\ proof'[n].left <= proof[n].left
<1>1. Works(n) /\ proof[n] \in Proofs
  BY Zenon DEF Shape
<1>. QED
  BY <1>1 DEF Freshens, Works, Total, Proofs

\* The publication of a member touches its request, what it gave up on and
\* its freshness.
LEMMA PublicationStep ==
    ASSUME IInv, LogStep, TellsTruly, NEW n \in Nodes, Freshens(n), UNCHANGED <<waiting, kernel>>,
           DOMAIN request' = Nodes, \A m \in Nodes \ {n} : request'[m] = request[m],
           request'[n] \in Requests,
           request'[n].phase = "committed" /\ request'[n].up =>
               request'[n] = request[n] \/ request'[n].tick > store.node_probe_ticks[n],
           DOMAIN delayed' = Nodes, \A m \in Nodes \ {n} : delayed'[m] = delayed[m],
           delayed'[n] \in Submissions,
           delayed'[n].kind = "released" => delayed'[n] = delayed[n],
           \/ proof'[n].left <= proof[n].left
           \/ /\ request[n].phase = "committed" /\ request[n].up
              /\ View(n).node_probe_ticks[n] >= request[n].tick
              /\ proof'[n].left = Lifetime - request[n].age
    PROVE  MemberStep
<1>1. Total /\ Shape(n)
  BY Zenon DEF IInv, Types
<1>3. Total' /\ \A m \in Nodes \ {n} : Untouched(m)
  BY <1>1, Zenon DEF Total, Untouched, Freshens, kernel
<1>4. Shape(n)'
  <2>1. work'[n].phase # "idle" => Assigned(work'[n].for)
    BY <1>1, Zenon DEF Shape, Freshens
  <2>. QED
    BY <1>1, <2>1, Zenon DEF Shape, Freshens, kernel, Delays
<1>5. AddsWithAuthority(n) /\ KeepsDue(n) /\ WaitsFromZero(n)
  BY Zenon DEF AddsWithAuthority, KeepsDue, WaitsFromZero, kernel
<1>6. ReleasesTruly(n) /\ BindsAfterWait(n)
  BY Zenon DEF ReleasesTruly, BindsAfterWait, Freshens
<1>7. RenewsByReport(n)
  <2>1. work'[n].left <= work[n].left
    BY <1>1 DEF Shape, Freshens, Works
  <2>2. \/ proof'[n].left <= proof[n].left
        \/ /\ request[n].phase = "committed" /\ request[n].up
           /\ View(n).node_probe_ticks[n] >= request[n].tick
           /\ proof'[n].left = Lifetime - request[n].age
    OBVIOUS
  <2>3. request'[n].phase = "committed" /\ request'[n].up =>
            request'[n] = request[n] \/ request'[n].tick > store.node_probe_ticks[n]
    OBVIOUS
  <2>. QED
    BY <2>1, <2>2, <2>3, Zenon DEF RenewsByReport
<1>. QED
  BY <1>3, <1>4, <1>5, <1>6, <1>7, OneMember, Zenon DEF Keeps

\* Nothing is given up.
LEMMA NothingDelayed ==
    ASSUME Total, NEW n \in Nodes, Shape(n), delayed' = delayed
    PROVE  /\ DOMAIN delayed' = Nodes /\ \A m \in Nodes \ {n} : delayed'[m] = delayed[m]
           /\ delayed'[n] \in Submissions /\ delayed'[n] = delayed[n]
  BY Zenon DEF Total, Shape

LEMMA ProbeKeeps ==
    ASSUME IInv, NEW n \in Nodes, NEW outcome, Probe(n, outcome)
    PROVE  MemberStep
<1>1. Total /\ Shape(n)
  BY Zenon DEF IInv, Types
<1>2. LogStep /\ TellsTruly
  BY QuietLog, Zenon DEF Probe
<1>3. Freshens(n) /\ proof'[n].left <= proof[n].left
  <2>1. Invalidate(n) \/ UNCHANGED <<proof, work>>
    BY Zenon DEF Probe, AfterProbe
  <2>. QED
    BY <1>1, <2>1, FreshnessEnds, FreshnessStays, Zenon
<1>4. UNCHANGED <<waiting, kernel>> /\ delayed' = delayed
  BY Zenon DEF Probe
<1>5. /\ DOMAIN request' = Nodes /\ \A m \in Nodes \ {n} : request'[m] = request[m]
      /\ request'[n] \in Requests
      /\ request'[n].phase = "committed" => request'[n] = request[n]
  <2>1. CASE outcome = "unready"
    BY <1>1, <2>1, Zenon DEF Probe, Shape, Total
  <2>2. CASE outcome # "unready"
    <3> DEFINE up == (outcome \in {"up", "fenced"} /\ health[n] # "fault") /\ outcome = "up"
               r == [phase |-> "sent", age |-> 0, up |-> up, tick |-> 0]
    <3>1. request' = [request EXCEPT ![n] = r]
      BY <2>2, Zenon DEF Probe
    <3>2. up \in BOOLEAN
      BY Zenon
    <3> HIDE DEF up
    <3>3. r \in Requests /\ r.phase = "sent"
      BY <3>2, TimeAssumption DEF Requests
    <3> HIDE DEF r
    <3>. QED
      BY <1>1, <3>1, <3>3, Zenon DEF Total
  <2>. QED
    BY <2>1, <2>2, Zenon
<1>. QED
  BY <1>1, <1>2, <1>3, <1>4, <1>5, NothingDelayed, PublicationStep, Zenon

LEMMA RequestEnds ==
    ASSUME Total, NEW n \in Nodes, request' = [request EXCEPT ![n] = NoRequest]
    PROVE  /\ DOMAIN request' = Nodes /\ \A m \in Nodes \ {n} : request'[m] = request[m]
           /\ request'[n] \in Requests /\ request'[n].phase = "none"
  BY TimeAssumption DEF Total, NoRequest, Requests

LEMMA PublishedKeeps ==
    ASSUME IInv, NEW n \in Nodes, Published(n)
    PROVE  MemberStep
<1>1. Total /\ Shape(n)
  BY Zenon DEF IInv, Types
<1>2. LogStep /\ TellsTruly
  BY QuietLog, Zenon DEF Published
<1>3. /\ Freshens(n)
      /\ \/ proof'[n].left <= proof[n].left
         \/ request[n].up /\ proof'[n].left = Lifetime - request[n].age
  BY <1>1, FreshnessRecorded, Zenon DEF Published
<1>4. /\ request[n].phase = "committed" /\ View(n).node_probe_ticks[n] >= request[n].tick
      /\ request' = [request EXCEPT ![n] = NoRequest] /\ UNCHANGED <<waiting, kernel>>
  BY Zenon DEF Published
<1>5. delayed' = delayed
  BY Zenon DEF Published
<1>6. /\ DOMAIN request' = Nodes /\ \A m \in Nodes \ {n} : request'[m] = request[m]
      /\ request'[n] \in Requests /\ request'[n].phase = "none"
  BY <1>1, <1>4, RequestEnds, Zenon
<1>. QED
  BY <1>1, <1>2, <1>3, <1>4, <1>5, <1>6, NothingDelayed, PublicationStep, Zenon

LEMMA PublishFailsKeeps ==
    ASSUME IInv, NEW n \in Nodes, NEW kind, PublishFails(n, kind)
    PROVE  MemberStep
<1> DEFINE d == IF request[n].phase = "sent"
                THEN [Nothing EXCEPT !.kind = Word(request[n].up)] ELSE delayed[n]
<1>1. Total /\ Shape(n)
  BY Zenon DEF IInv, Types
<1>2. LogStep /\ TellsTruly
  BY QuietLog, Zenon DEF PublishFails
<1>3. Freshens(n) /\ proof'[n].left <= proof[n].left
  BY <1>1, FreshnessEnds, Zenon DEF PublishFails
<1>4. request' = [request EXCEPT ![n] = NoRequest] /\ UNCHANGED <<waiting, kernel>>
  BY Zenon DEF PublishFails
<1>5. delayed' = [delayed EXCEPT ![n] = d]
  BY Zenon DEF PublishFails
<1>6. /\ d \in Submissions
      /\ d.kind = "released" => d = delayed[n]
  <2>1. Word(request[n].up) \in {"up", "down"}
    BY Zenon DEF Word
  <2>. QED
    BY <1>1, <2>1, Zenon DEF Shape, Submissions, Nothing
<1> HIDE DEF d
<1>7. /\ DOMAIN delayed' = Nodes /\ \A m \in Nodes \ {n} : delayed'[m] = delayed[m]
      /\ delayed'[n] = d
  BY <1>1, <1>5, Zenon DEF Total
<1>8. /\ DOMAIN request' = Nodes /\ \A m \in Nodes \ {n} : request'[m] = request[m]
      /\ request'[n] \in Requests /\ request'[n].phase = "none"
  BY <1>1, <1>4, RequestEnds, Zenon
<1>. QED
  BY <1>2, <1>3, <1>4, <1>6, <1>7, <1>8, PublicationStep, Zenon

LEMMA NoWorkIsOne ==
    ASSUME Total, NEW n \in Nodes, work' = [work EXCEPT ![n] = NoWork]
    PROVE  /\ DOMAIN work' = Nodes /\ \A m \in Nodes \ {n} : work'[m] = work[m]
           /\ Works(n)' /\ work'[n].phase = "idle" /\ work'[n].left = 0
  BY TimeAssumption DEF Total, NoWork, Works

\* The operation of a worker ends.
LEMMA WorkEnds ==
    ASSUME IInv, LogStep, TellsTruly, NEW n \in Nodes, work' = [work EXCEPT ![n] = NoWork],
           UNCHANGED <<request, waiting, addr, over>>,
           DOMAIN stuck' = Nodes, \A m \in Nodes \ {n} : stuck'[m] = stuck[m],
           stuck'[n] \in BOOLEAN, stuck[n] => stuck'[n],
           DOMAIN proof' = Nodes, \A m \in Nodes \ {n} : proof'[m] = proof[m],
           proof'[n] \in Proofs,
           proof'[n].left <= proof[n].left,
           DOMAIN delayed' = Nodes, \A m \in Nodes \ {n} : delayed'[m] = delayed[m],
           delayed'[n] \in Submissions,
           delayed'[n].kind = "released" =>
               \/ delayed'[n] = delayed[n]
               \/ work[n].phase = "publish" /\ delayed'[n].generation = work[n].for.generation
    PROVE  MemberStep
<1>1. Total /\ Shape(n)
  BY Zenon DEF IInv, Types
<1>2. /\ DOMAIN work' = Nodes /\ \A m \in Nodes \ {n} : work'[m] = work[m]
      /\ Works(n)' /\ work'[n].phase = "idle" /\ work'[n].left = 0
  BY <1>1, NoWorkIsOne, Zenon
<1>3. Total' /\ \A m \in Nodes \ {n} : Untouched(m)
  BY <1>1, <1>2, Zenon DEF Total, Untouched
<1>4. Shape(n)'
  BY <1>1, <1>2, Zenon DEF Shape, Delays
<1>5. AddsWithAuthority(n) /\ WaitsFromZero(n)
  BY Zenon DEF AddsWithAuthority, WaitsFromZero
<1>6. KeepsDue(n)
  BY Zenon DEF KeepsDue
<1>7. ReleasesTruly(n) /\ BindsAfterWait(n)
  BY <1>2, Zenon DEF ReleasesTruly, BindsAfterWait
<1>8. RenewsByReport(n)
  <2>1. work'[n].left <= work[n].left
    BY <1>1, <1>2 DEF Shape, Works
  <2>. QED
    BY <2>1, Zenon DEF RenewsByReport
<1>. QED
  BY <1>3, <1>4, <1>5, <1>6, <1>7, <1>8, OneMember, Zenon DEF Keeps

LEMMA ProofStays ==
    ASSUME Total, NEW n \in Nodes, Shape(n), proof' = proof
    PROVE  /\ DOMAIN proof' = Nodes /\ \A m \in Nodes \ {n} : proof'[m] = proof[m]
           /\ proof'[n] \in Proofs
           /\ proof'[n].left <= proof[n].left
  BY DEF Total, Shape, Proofs

LEMMA StuckStays ==
    ASSUME Total, NEW n \in Nodes, Shape(n), stuck' = stuck
    PROVE  /\ DOMAIN stuck' = Nodes /\ \A m \in Nodes \ {n} : stuck'[m] = stuck[m]
           /\ stuck'[n] \in BOOLEAN /\ (stuck[n] => stuck'[n])
  BY Zenon DEF Total, Shape

\* Every end of a bind, successful or not.
LEMMA BindEndsKeeps ==
    ASSUME IInv, NEW n \in Nodes, BindDone(n) \/ LoseBind(n) \/ BindFails(n)
    PROVE  MemberStep
<1>1. Total /\ Shape(n)
  BY Zenon DEF IInv, Types
<1>2. /\ UNCHANGED replica /\ work' = [work EXCEPT ![n] = NoWork] /\ delayed' = delayed
      /\ proof' = proof /\ stuck' = stuck /\ UNCHANGED <<request, waiting, addr, over>>
  BY Zenon DEF BindDone, LoseBind, BindFails, publication, kernel
<1>3. LogStep /\ TellsTruly
  BY <1>2, QuietLog, Zenon
<1>. QED
  BY <1>1, <1>2, <1>3, NothingDelayed, ProofStays, StuckStays, WorkEnds, Zenon

LEMMA DeleteFailsKeeps ==
    ASSUME IInv, NEW n \in Nodes, DeleteFails(n)
    PROVE  MemberStep
<1>1. Total /\ Shape(n)
  BY Zenon DEF IInv, Types
<1>2. /\ UNCHANGED replica /\ work' = [work EXCEPT ![n] = NoWork] /\ delayed' = delayed
      /\ proof' = proof /\ stuck' = [stuck EXCEPT ![n] = TRUE]
      /\ UNCHANGED <<request, waiting, addr, over>>
  BY Zenon DEF DeleteFails, AfterDeleteFailure, publication
<1>3. /\ DOMAIN stuck' = Nodes /\ \A m \in Nodes \ {n} : stuck'[m] = stuck[m]
      /\ stuck'[n] \in BOOLEAN /\ (stuck[n] => stuck'[n])
  BY <1>1, <1>2, Zenon DEF Total
<1>4. LogStep /\ TellsTruly
  BY <1>2, QuietLog, Zenon
<1>. QED
  BY <1>1, <1>2, <1>3, <1>4, NothingDelayed, ProofStays, WorkEnds, Zenon

LEMMA ReleaseFailsKeeps ==
    ASSUME IInv, NEW n \in Nodes, NEW kind, ReleaseFails(n, kind)
    PROVE  MemberStep
<1>1. Total /\ Shape(n)
  BY Zenon DEF IInv, Types
<1>2. /\ UNCHANGED replica /\ work' = [work EXCEPT ![n] = NoWork] /\ stuck' = stuck
      /\ UNCHANGED <<request, waiting, addr, over>> /\ work[n].phase = "publish"
      /\ delayed' = [delayed EXCEPT ![n] =
                        [kind |-> "released", generation |-> work[n].for.generation]]
  BY Zenon DEF ReleaseFails, publication, kernel
<1>3. LogStep /\ TellsTruly
  BY <1>2, QuietLog, Zenon
<1>4. /\ DOMAIN delayed' = Nodes /\ \A m \in Nodes \ {n} : delayed'[m] = delayed[m]
      /\ delayed'[n] \in Submissions /\ delayed'[n].generation = work[n].for.generation
  <2>1. work[n].for.generation \in Nat
    BY <1>1, <1>2, Zenon DEF Shape, Assigned
  <2>. QED
    BY <1>1, <1>2, <2>1, Zenon DEF Total, Submissions
<1>5. /\ DOMAIN proof' = Nodes /\ \A m \in Nodes \ {n} : proof'[m] = proof[m]
      /\ proof'[n] \in Proofs
      /\ proof'[n].left <= proof[n].left
  <2>1. CASE proof' = [proof EXCEPT ![n].available = FALSE]
    <3>1. /\ proof'[n] = [proof[n] EXCEPT !.available = FALSE] /\ DOMAIN proof' = Nodes
          /\ \A m \in Nodes \ {n} : proof'[m] = proof[m]
      BY <1>1, <2>1, Zenon DEF Total
    <3>2. proof[n] \in Proofs
      BY <1>1, Zenon DEF Shape
    <3>3. proof'[n] \in Proofs
          /\ proof'[n].left = proof[n].left
      BY <3>1, <3>2, Zenon DEF Proofs
    <3>. QED
      BY <3>1, <3>2, <3>3 DEF Proofs
  <2>2. CASE proof' = [proof EXCEPT ![n] = NoProof]
    BY <1>1, <2>2, TimeAssumption DEF Shape, Total, NoProof, Proofs
  <2>. QED
    BY <2>1, <2>2, Zenon DEF ReleaseFails
<1>. QED
  BY <1>1, <1>2, <1>3, <1>4, <1>5, StuckStays, WorkEnds, Zenon

\* The address is gone before the release is under way.
LEMMA DeleteKeeps ==
    ASSUME IInv, NEW n \in Nodes, Delete(n)
    PROVE  MemberStep
<1> DEFINE a == View(n).assigned
<1>1. Total /\ Shape(n)
  BY Zenon DEF IInv, Types
<1>2. LogStep /\ TellsTruly /\ View(n)' = View(n)
  BY QuietLog, Zenon DEF Delete
<1>3. /\ addr' = [addr EXCEPT ![n] = FALSE] /\ stuck' = [stuck EXCEPT ![n] = FALSE]
      /\ over' = [over EXCEPT ![n] = 0]
      /\ work' = [work EXCEPT ![n] =
             IF Owes(n, a) THEN [NoWork EXCEPT !.phase = "publish", !.for = a] ELSE @]
      /\ work[n].phase = "idle"
      /\ UNCHANGED <<delayed, request, proof, waiting>>
  BY Zenon DEF Delete, publication, Idle
<1>4. Total' /\ \A m \in Nodes \ {n} : Untouched(m)
  BY <1>1, <1>3, Zenon DEF Total, Untouched
<1>5. ~addr'[n] /\ addr'[n] \in BOOLEAN /\ stuck'[n] \in BOOLEAN /\ over'[n] = 0
  BY <1>1, <1>3, Zenon DEF Total
<1>6. ViewOK(View(n))
  BY MembersRead, Zenon DEF IInv
<1> HIDE DEF a
<1>7. /\ Works(n)'
      /\ work'[n].phase # "idle" => Assigned(work'[n].for)
      /\ work'[n].left <= work[n].left /\ work'[n].phase \in {"idle", "publish"}
      /\ work'[n].phase = "publish" => Owes(n, a) /\ work'[n].for = a
  <2>1. CASE Owes(n, a)
    <3>1. work'[n] = [NoWork EXCEPT !.phase = "publish", !.for = a]
      BY <1>1, <1>3, <2>1, Zenon DEF Total
    <3>2. work'[n] = [phase |-> "publish", for |-> a, tick |-> 0, left |-> 0, ok |-> FALSE]
      BY <3>1, Zenon DEF NoWork
    <3>3. /\ work'[n].phase = "publish" /\ work'[n].for = a /\ work'[n].left = 0
          /\ Works(n)'
      BY <3>2, TimeAssumption DEF Works
    <3>. QED
      BY <1>1, <1>6, <2>1, <3>3 DEF Shape, Works, ViewOK, a
  <2>2. CASE ~Owes(n, a)
    <3>1. work'[n] = work[n]
      BY <1>1, <1>3, <2>2, Zenon DEF Total
    <3>2. Works(n)
      BY <1>1, Zenon DEF Shape
    <3>3. Works(n)' /\ work'[n].left <= work[n].left
      BY <3>1, <3>2 DEF Works
    <3>. QED
      BY <1>3, <3>1, <3>3, Zenon
  <2>. QED
    BY <2>1, <2>2, Zenon
<1>8. Shape(n)'
  <2>1. Delays(n)' /\ over'[n] \in 0 .. Cleanup - 1
    BY <1>1, <1>3, <1>5, TimeAssumption DEF Shape, Delays
  <2>. QED
    BY <1>1, <1>3, <1>5, <1>7, <2>1, Zenon DEF Shape
<1>9. ReleasesTruly(n)
  <2>1. Owes(n, a) => View(n)'.generation = a.generation
    BY <1>2, <1>6, Zenon DEF Owes, ViewOK, a
  <2>. QED
    BY <1>3, <1>5, <1>7, <2>1, Zenon DEF ReleasesTruly, Gone
<1>10. AddsWithAuthority(n) /\ KeepsDue(n) /\ WaitsFromZero(n) /\ BindsAfterWait(n)
  BY <1>3, <1>5, <1>7, Zenon DEF AddsWithAuthority, KeepsDue, WaitsFromZero, BindsAfterWait
<1>11. RenewsByReport(n)
  BY <1>1, <1>3, <1>7 DEF RenewsByReport, Shape, Proofs
<1>. QED
  BY <1>2, <1>4, <1>8, <1>9, <1>10, <1>11, OneMember, Zenon DEF Keeps

LEMMA AddAddressKeeps ==
    ASSUME IInv, NEW n \in Nodes, AddAddress(n)
    PROVE  MemberStep
<1>1. Total /\ Shape(n)
  BY Zenon DEF IInv, Types
<1>2. LogStep /\ TellsTruly /\ View(n)' = View(n)
  BY QuietLog, Zenon DEF AddAddress
<1>3. /\ addr' = [addr EXCEPT ![n] = TRUE] /\ work' = [work EXCEPT ![n].phase = "added"]
      /\ work[n].phase = "bind" /\ work[n].left > 0 /\ View(n).assigned.holder = n
      /\ UNCHANGED <<delayed, request, proof, waiting, stuck, over>>
  BY Zenon DEF AddAddress, Authorized, IntentHolds, MayBind, publication
<1>4. Total' /\ \A m \in Nodes \ {n} : Untouched(m)
  BY <1>1, <1>3, Zenon DEF Total, Untouched
<1>5. addr'[n] \in BOOLEAN
  BY <1>1, <1>3, Zenon DEF Total
<1>6. /\ Works(n)' /\ work'[n].phase = "added"
      /\ work'[n].for = work[n].for /\ work'[n].left = work[n].left
  <2>1. work'[n] = [work[n] EXCEPT !.phase = "added"]
    BY <1>1, <1>3, Zenon DEF Total
  <2>2. Works(n)
    BY <1>1, Zenon DEF Shape
  <2>. QED
    BY <2>1, <2>2, Zenon DEF Works
<1>7. Shape(n)'
  BY <1>1, <1>3, <1>5, <1>6, Zenon DEF Shape, Delays
<1>8. AddsWithAuthority(n) /\ KeepsDue(n) /\ WaitsFromZero(n)
  BY <1>2, <1>3, Zenon DEF AddsWithAuthority, KeepsDue, WaitsFromZero
<1>9. ReleasesTruly(n) /\ BindsAfterWait(n)
  BY <1>3, <1>6, Zenon DEF ReleasesTruly, BindsAfterWait
<1>10. RenewsByReport(n)
  BY <1>1, <1>3, <1>6 DEF RenewsByReport, Shape, Proofs, Works
<1>. QED
  BY <1>2, <1>4, <1>7, <1>8, <1>9, <1>10, OneMember, Zenon DEF Keeps

LEMMA AcquireKeeps ==
    ASSUME IInv, NEW n \in Nodes, Acquire(n)
    PROVE  MemberStep
<1> DEFINE t == View(n)
           a == t.assigned
           new == [generation |-> a.generation, tick |-> TickOf(t, a.previous_holder),
                   waited |-> 0]
           w == IF Waits(t, n) THEN WaitAfter(t, waiting[n]) ELSE NoWait
           ready == \/ a.holder = n /\ NeedsNoWait(a)
                    \/ Waits(t, n) /\ w.waited >= TakeoverLifetime
           bind == [phase |-> "bind", for |-> a, left |-> proof[n].left,
                    tick |-> TickOf(t, a.previous_holder), ok |-> TRUE]
<1>1. Total /\ Shape(n)
  BY Zenon DEF IInv, Types
<1>2. LogStep /\ TellsTruly /\ View(n)' = t
  BY QuietLog, Zenon DEF Acquire
<1>3. /\ waiting' = [waiting EXCEPT ![n] = w]
      /\ work' = IF MayBind(t, n) /\ ready THEN [work EXCEPT ![n] = bind] ELSE work
      /\ work[n].phase = "idle"
      /\ UNCHANGED <<delayed, request, proof, kernel>>
  BY Zenon DEF Acquire, MayAcquire, Idle, publication
<1>4. ViewOK(t) /\ Assigned(a) /\ a.generation \in Nat
  BY MembersRead, Zenon DEF IInv, ViewOK, Assigned
<1>5. TakeoverLifetime \in Nat \ {0}
  BY TimeAssumption DEF TakeoverLifetime
<1>6. \/ w = NoWait /\ ~Waits(t, n)
      \/ Waits(t, n) /\ w = waiting[n] /\ w.generation = a.generation
      \/ Waits(t, n) /\ w = new
  BY Zenon DEF WaitAfter
<1>7. NoWait.waited = 0 /\ NoWait.generation = 0 /\ NoWait.tick = 0
  BY Zenon DEF NoWait
<1>8. Waits(t, n) => a.holder = n
  BY Zenon DEF Waits
<1>9. (a.previous_holder # NoNode /\ ~a.previous_holder_released) => ~NeedsNoWait(a)
  BY Zenon DEF NeedsNoWait
<1>10. waiting'[n] = w
  BY <1>1, <1>3, Zenon DEF Total
<1>11. /\ new.generation = a.generation /\ new.waited = 0
       /\ new \in [generation : Nat, tick : {new.tick}, waited : 0 .. TakeoverLifetime]
       /\ NoWait \in [generation : Nat, tick : {NoWait.tick}, waited : 0 .. TakeoverLifetime]
  BY <1>4, <1>5 DEF NoWait
<1>12. bind.phase = "bind" /\ bind.for = a /\ bind.left = proof[n].left
  BY Zenon
<1>13. bind \in [phase : {"idle", "publish", "bind", "added"}, for : {bind.for},
                 tick : {bind.tick}, left : 0 .. Lifetime, ok : BOOLEAN]
  BY <1>1, Zenon DEF Shape, Proofs
<1> HIDE DEF w, new, bind
<1>14. Total' /\ \A m \in Nodes \ {n} : Untouched(m)
  BY <1>1, <1>3, Zenon DEF Total, Untouched, kernel
<1>15. Delays(n)'
  BY <1>1, <1>6, <1>10, <1>11, Zenon DEF Shape, Delays
<1>16. WaitsFromZero(n)
  BY <1>2, <1>4, <1>6, <1>8, <1>10, <1>11, NodesAssumption, Zenon DEF WaitsFromZero, ViewOK, NoNode
<1>17. CASE MayBind(t, n) /\ ready
  <2>1. work'[n] = bind
    BY <1>1, <1>3, <1>17, Zenon DEF Total
  <2>2. Shape(n)'
    BY <1>1, <1>3, <1>4, <1>12, <1>13, <1>15, <2>1, Zenon DEF Shape, Works, kernel
  <2>3. Binding(n)'
    <3>1. ASSUME a.previous_holder # NoNode, ~a.previous_holder_released
          PROVE  w.generation = a.generation /\ w.waited = TakeoverLifetime
      <4>1. Waits(t, n) /\ w.waited >= TakeoverLifetime
        BY <1>9, <1>17, <3>1, Zenon
      <4>2. w = waiting[n] /\ w.generation = a.generation
        BY <1>5, <1>6, <1>11, <4>1
      <4>3. w.waited \in 0 .. TakeoverLifetime
        BY <1>1, <4>2, Zenon DEF Shape, Delays
      <4>. QED
        BY <1>5, <4>1, <4>2, <4>3
    <3>. QED
      BY <1>10, <1>12, <2>1, <3>1, Zenon DEF Binding
  <2>4. AddsWithAuthority(n) /\ KeepsDue(n) /\ ReleasesTruly(n) /\ BindsAfterWait(n)
    BY <1>3, <1>12, <2>1, <2>3, Zenon
    DEF AddsWithAuthority, KeepsDue, ReleasesTruly, BindsAfterWait, kernel
  <2>5. RenewsByReport(n)
    BY <1>1, <1>3, <1>12, <2>1 DEF RenewsByReport, Shape, Proofs
  <2>. QED
    BY <1>2, <1>14, <1>16, <2>2, <2>4, <2>5, OneMember, Zenon DEF Keeps
<1>18. CASE ~(MayBind(t, n) /\ ready)
  <2>1. work' = work
    BY <1>3, <1>18, Zenon
  <2>2. Shape(n)'
    BY <1>1, <1>3, <1>15, <2>1, Zenon DEF Shape, Works, kernel
  <2>3. AddsWithAuthority(n) /\ KeepsDue(n) /\ ReleasesTruly(n) /\ BindsAfterWait(n)
    BY <1>3, <2>1, Zenon DEF AddsWithAuthority, KeepsDue, ReleasesTruly, BindsAfterWait, kernel
  <2>4. RenewsByReport(n)
    BY <1>1, <1>3, <2>1 DEF RenewsByReport, Shape, Proofs, Works
  <2>. QED
    BY <1>2, <1>14, <1>16, <2>2, <2>3, <2>4, OneMember, Zenon DEF Keeps
<1>. QED
  BY <1>17, <1>18, Zenon

\* What the passing of time does at a member: to its proofs of freshness, ...
Burns(m) ==
    /\ proof'[m].left = IF proof[m].left <= 1 THEN 0 ELSE proof[m].left - 1
    /\ work'[m].left = IF work[m].left <= 1 THEN 0 ELSE work[m].left - 1

\* ... to what it is doing, ...
Proceeds(m) ==
    /\ work'[m].phase = work[m].phase /\ work'[m].for = work[m].for
    /\ delayed'[m] = delayed[m]

\* ... to its request, ...
Lingers(m) ==
    /\ request'[m].phase = request[m].phase /\ request'[m].up = request[m].up
    /\ request'[m].tick = request[m].tick
    /\ request[m].up =>
           request'[m].age = IF request[m].age < Lifetime THEN request[m].age + 1
                             ELSE request[m].age

\* ... to its wait, ...
WaitsOn(m) ==
    /\ waiting'[m] # NoWait =>
           /\ waiting[m] # NoWait /\ waiting'[m].generation = waiting[m].generation
           /\ waiting'[m].waited <= waiting[m].waited + 1
    /\ waiting[m].waited = TakeoverLifetime => waiting'[m] = waiting[m]

\* ... and to an address that it has to remove.
LateBy(m) ==
    /\ addr'[m] = addr[m] /\ stuck'[m] = stuck[m]
    /\ over'[m] = IF Overdue(m) /\ ~stuck[m] THEN over[m] + 1 ELSE 0

Ages(m) == Burns(m) /\ Proceeds(m) /\ Lingers(m) /\ WaitsOn(m) /\ LateBy(m)

LEMMA TickAges ==
    ASSUME IInv, Tick, NEW m \in Nodes
    PROVE  Ages(m) /\ Shape(m)'
<1>1. Total /\ Shape(m)
  BY Zenon DEF IInv, Types
<1>2. /\ proof'[m].left = IF proof[m].left <= 1 THEN 0 ELSE proof[m].left - 1
      /\ proof'[m] \in Proofs
  <2>1. proof'[m] = IF proof[m].left <= 1 THEN NoProof ELSE [proof[m] EXCEPT !.left = @ - 1]
    BY Zenon DEF Tick
  <2>2. proof[m] \in Proofs
    BY <1>1, Zenon DEF Shape
  <2>. QED
    BY <2>1, <2>2, TimeAssumption DEF Proofs, NoProof
<1>3. /\ work'[m].left = IF work[m].left <= 1 THEN 0 ELSE work[m].left - 1
      /\ work'[m].phase = work[m].phase /\ work'[m].for = work[m].for /\ Works(m)'
  <2>1. work'[m] = IF work[m].left <= 1 THEN [Break(work[m]) EXCEPT !.left = 0]
                   ELSE [work[m] EXCEPT !.left = @ - 1]
    BY Zenon DEF Tick
  <2>2. Works(m)
    BY <1>1, Zenon DEF Shape
  <2>3. CASE work[m].left <= 1
    <3>1. work'[m] = [work[m] EXCEPT !.ok = FALSE, !.left = 0]
      BY <2>1, <2>2, <2>3, Zenon DEF Break, Works
    <3>2. work'[m] = [phase |-> work[m].phase, for |-> work[m].for, tick |-> work[m].tick,
                      left |-> 0, ok |-> FALSE]
      BY <2>2, <3>1, Zenon DEF Works
    <3>3. work[m].phase \in {"idle", "publish", "bind", "added"}
      BY <2>2, Zenon DEF Works
    <3>. QED
      BY <2>3, <3>2, <3>3, TimeAssumption DEF Works
  <2>4. CASE ~(work[m].left <= 1)
    <3>1. work'[m] = [work[m] EXCEPT !.left = @ - 1]
      BY <2>1, <2>4, Zenon
    <3>. QED
      BY <2>2, <2>4, <3>1, TimeAssumption DEF Works
  <2>. QED
    BY <2>3, <2>4, Zenon
<1>4. /\ request'[m].phase = request[m].phase /\ request'[m].up = request[m].up
      /\ request'[m].tick = request[m].tick /\ request'[m] \in Requests
      /\ request[m].up =>
             request'[m].age = IF request[m].age < Lifetime THEN request[m].age + 1
                               ELSE request[m].age
  <2>1. request'[m] = IF ~request[m].up THEN request[m]
                      ELSE [request[m] EXCEPT !.age = IF @ < Lifetime THEN @ + 1 ELSE @]
    BY Zenon DEF Tick
  <2>2. request[m] \in Requests
    BY <1>1, Zenon DEF Shape
  <2>3. CASE ~request[m].up
    BY <2>1, <2>2, <2>3, Zenon
  <2>4. CASE request[m].up
    <3>1. request'[m] = [request[m] EXCEPT !.age = IF @ < Lifetime THEN @ + 1 ELSE @]
      BY <2>1, <2>4, Zenon
    <3>. QED
      BY <2>2, <3>1, TimeAssumption DEF Requests
  <2>. QED
    BY <2>3, <2>4, Zenon
<1>5. /\ waiting'[m] # NoWait =>
             /\ waiting[m] # NoWait /\ waiting'[m].generation = waiting[m].generation
             /\ waiting'[m].waited <= waiting[m].waited + 1
      /\ waiting[m].waited = TakeoverLifetime => waiting'[m] = waiting[m]
      /\ Delays(m)'
  <2>1. waiting'[m] = IF waiting[m] = NoWait THEN NoWait
                      ELSE [waiting[m] EXCEPT
                               !.waited = IF @ < TakeoverLifetime THEN @ + 1 ELSE @]
    BY Zenon DEF Tick
  <2>2. Delays(m)
    BY <1>1, Zenon DEF Shape
  <2>3. TakeoverLifetime \in Nat
    BY TimeAssumption DEF TakeoverLifetime
  <2>4. CASE waiting[m] = NoWait
    BY <2>1, <2>2, <2>4, Zenon DEF Delays
  <2>5. CASE waiting[m] # NoWait
    <3>1. waiting'[m] = [waiting[m] EXCEPT !.waited = IF @ < TakeoverLifetime THEN @ + 1 ELSE @]
      BY <2>1, <2>5, Zenon
    <3>2. Delays(m)' /\ waiting'[m].generation = waiting[m].generation
          /\ waiting'[m].waited <= waiting[m].waited + 1
      BY <2>2, <2>3, <3>1 DEF Delays
    <3>3. waiting[m].waited = TakeoverLifetime => waiting'[m] = waiting[m]
      BY <2>2, <2>3, <3>1 DEF Delays
    <3>. QED
      BY <2>5, <3>2, <3>3, Zenon
  <2>. QED
    BY <2>4, <2>5, Zenon
<1>6. /\ addr'[m] = addr[m] /\ stuck'[m] = stuck[m] /\ delayed'[m] = delayed[m]
      /\ over'[m] = IF Overdue(m) /\ ~stuck[m] THEN over[m] + 1 ELSE 0
      /\ Overdue(m) /\ ~stuck[m] => over[m] + 1 < Cleanup
  BY Zenon DEF Tick
<1>7. over'[m] \in 0 .. Cleanup - 1
  BY <1>1, <1>6, TimeAssumption DEF Shape
<1>8. Shape(m)'
  BY <1>1, <1>2, <1>3, <1>4, <1>5, <1>6, <1>7, Zenon DEF Shape
<1>. QED
  <2>1. Burns(m) /\ Proceeds(m)
    BY <1>2, <1>3, <1>6, Zenon DEF Burns, Proceeds
  <2>2. Lingers(m)
    BY <1>4, Zenon DEF Lingers
  <2>3. WaitsOn(m)
    BY <1>5, Zenon DEF WaitsOn
  <2>4. LateBy(m)
    BY <1>6, Zenon DEF LateBy
  <2>. QED
    BY <1>8, <2>1, <2>2, <2>3, <2>4, Zenon DEF Ages

LEMMA TickKeeps ==
    ASSUME IInv, Tick
    PROVE  IInv'
<1>0. UNCHANGED replica
  BY Zenon DEF Tick
<1>1. /\ LogStep /\ \A m \in Nodes : View(m)' = View(m)
      /\ Recorded' = Recorded /\ store' = store
  BY <1>0, QuietLog, Zenon DEF replica, Recorded
<1>6. \A m \in Nodes : Ages(m)
  BY TickAges, Zenon
<1>2. Types'
  <2>1. Total'
    BY Zenon DEF Tick, Total, IInv, Types
  <2>. QED
    BY <2>1, TickAges, Zenon DEF Types
<1>3. Releases'
  <2> SUFFICES ASSUME NEW m \in Nodes
               PROVE  /\ work'[m].phase = "publish" => Gone(m, work[m].for.generation)'
                      /\ delayed'[m].kind = "released" => Gone(m, delayed[m].generation)'
                      /\ \A w \in Recorded' :
                             SaysReleased(w.assigned, m) => Gone(m, w.assigned.generation)'
    BY Zenon DEF Releases
  <2>1. \A g : Gone(m, g)' <=> Gone(m, g)
    <3>1. addr'[m] = addr[m] /\ View(m)' = View(m)
      BY <1>1, <1>6, Zenon DEF Ages, LateBy
    <3>. QED
      BY <3>1, Zenon DEF Gone
  <2>2. Proceeds(m) /\ Releases
    BY <1>6, Zenon DEF Ages, IInv
  <2>. QED
    BY <1>1, <2>1, <2>2 DEF Releases, Proceeds
<1>4. Waited'
  <2> SUFFICES ASSUME NEW m \in Nodes
               PROVE  Waiting(m)' /\ Binding(m)'
    BY Zenon DEF Waited
  <2>1. Waiting(m) /\ Binding(m) /\ WaitsOn(m) /\ Proceeds(m) /\ View(m)' = View(m)
    BY <1>1, <1>6, Zenon DEF IInv, Waited, Ages
  <2>2. Waiting(m)'
    BY <2>1, Zenon DEF Waiting, WaitsOn, NoWait
  <2>3. Binding(m)'
    BY <2>1, Zenon DEF Binding, WaitsOn, Proceeds
  <2>. QED
    BY <2>2, <2>3, Zenon
<1>5. Expiring'
  <2> SUFFICES ASSUME NEW n \in Nodes, Current(n)', NEW m \in Nodes \ {n}
               PROVE  /\ Spent(m, waiting[n].generation, waiting[n].waited)'
                      /\ Removing(m, waiting[n].waited)'
    BY Zenon DEF Expiring
  <2> DEFINE g == waiting[n].generation
             k == waiting[n].waited
             kk == waiting'[n].waited
  <2>0. WaitsOn(n) /\ Burns(m) /\ Lingers(m) /\ LateBy(m)
    BY <1>6, Zenon DEF Ages
  <2>1. Shape(n) /\ Shape(m) /\ Shape(n)'
    <3>1. Shape(n) /\ Shape(m)
      BY Zenon DEF IInv, Types
    <3>. QED
      BY <1>2, <3>1, Zenon DEF Types
  <2>2. Current(n) /\ waiting'[n].generation = g /\ kk <= k + 1
    <3>1. waiting'[n] # NoWait /\ waiting'[n].generation = store.vip_generation[Vip]
      BY <1>1, Zenon DEF Current
    <3>2. waiting[n] # NoWait /\ waiting'[n].generation = g /\ kk <= k + 1
      BY <2>0, <3>1, Zenon DEF WaitsOn
    <3>. QED
      BY <3>1, <3>2, Zenon DEF Current
  <2>3. k \in Nat /\ kk \in Nat /\ g \in Nat /\ Lifetime \in Nat
    BY <2>1, TimeAssumption DEF Shape, Delays
  <2>4. Spent(m, g, k) /\ Removing(m, k)
    BY <2>2, Zenon DEF IInv, Expiring
  <2>5. View(m).assigned.holder = m => View(m).generation < g
    BY <2>2, OthersAreBehind, Zenon
  <2>6. /\ proof[m].left \in 0 .. Lifetime /\ work[m].left \in 0 .. Lifetime
        /\ request[m].age \in 0 .. Lifetime /\ over[m] \in Nat
    BY <2>1, TimeAssumption DEF Shape, Proofs, Works, Requests
  <2> HIDE DEF g, k, kk
  <2>7. ASSUME View(m).generation < g
        PROVE  /\ proof'[m].left = 0 \/ proof'[m].left + kk <= Lifetime
               /\ work'[m].left = 0 \/ work'[m].left + kk <= Lifetime
    <3>1. /\ proof[m].left = 0 \/ proof[m].left + k <= Lifetime
          /\ work[m].left = 0 \/ work[m].left + k <= Lifetime
      BY <2>4, <2>7, Zenon DEF Spent
    <3>2. /\ proof'[m].left = IF proof[m].left <= 1 THEN 0 ELSE proof[m].left - 1
          /\ work'[m].left = IF work[m].left <= 1 THEN 0 ELSE work[m].left - 1
      BY <2>0, Zenon DEF Burns
    <3>. QED
      BY <2>2, <2>3, <2>6, <3>1, <3>2
  <2>8. ASSUME View(m).generation < g, request'[m].phase = "committed", request'[m].up
        PROVE  \/ request'[m].age >= kk \/ request'[m].age = Lifetime
               \/ Unseen(m, waiting[n].generation)'
    <3>1. request[m].age >= k \/ request[m].age = Lifetime \/ Unseen(m, g)
      BY <2>0, <2>4, <2>8, Zenon DEF Spent, Lingers
    <3>2. request'[m].age = IF request[m].age < Lifetime THEN request[m].age + 1
                            ELSE request[m].age
      BY <2>0, <2>8, Zenon DEF Lingers
    <3>3. Unseen(m, g) => Unseen(m, waiting[n].generation)'
      BY <1>1, <2>0, <2>2, Zenon DEF Unseen, Lingers
    <3>. QED
      BY <2>2, <2>3, <2>6, <3>1, <3>2, <3>3
  <2>9. ASSUME addr'[m], ~stuck'[m] PROVE over'[m] + Lifetime >= kk
    <3>0. addr[m] /\ ~stuck[m] /\ over'[m] = IF Overdue(m) THEN over[m] + 1 ELSE 0
      BY <2>0, <2>9 DEF LateBy
    <3>1. over[m] + Lifetime >= k
      BY <2>4, <3>0, Zenon DEF Removing
    <3>2. CASE Overdue(m)
      <4>1. over'[m] = over[m] + 1
        BY <3>0, <3>2
      <4>. QED
        BY <2>2, <2>3, <2>6, <3>1, <4>1
    <3>3. CASE ~Overdue(m)
      <4>1. over'[m] = 0 /\ Entitled(m)
        BY <3>0, <3>3, Zenon DEF Overdue
      <4>2. View(m).assigned.holder = m /\ (proof[m].left > 0 \/ work[m].left > 0)
        BY <4>1, Zenon DEF Entitled, Retained, Matches, Authorized, IntentHolds, MayBind
      <4>3. \/ proof[m].left > 0 /\ proof[m].left + k <= Lifetime
            \/ work[m].left > 0 /\ work[m].left + k <= Lifetime
        BY <2>4, <2>5, <2>6, <4>2 DEF Spent
      <4>. QED
        BY <2>2, <2>3, <2>6, <4>1, <4>3
    <3>. QED
      BY <3>2, <3>3, Zenon
  <2>10. Spent(m, waiting[n].generation, waiting[n].waited)'
    BY <1>1, <2>2, <2>7, <2>8, Zenon DEF Spent, kk, g
  <2>11. Removing(m, waiting[n].waited)'
    BY <2>9, Zenon DEF Removing, kk
  <2>. QED
    BY <2>10, <2>11, Zenon
<1>. QED
  BY <1>1, <1>2, <1>3, <1>4, <1>5, Zenon DEF IInv, LogStep

=============================================================================
