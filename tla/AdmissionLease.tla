--------------------------- MODULE AdmissionLease ---------------------------
(***************************************************************************)
(* Runtime admission: restart quarantine, physical-roster reservations and *)
(* process-local permission (raft/admission/controller.rs,                 *)
(* raft/admission/runtime/*.rs, runtime_permission.rs and its timing.rs).  *)
(*                                                                         *)
(* Every deadline is kept as the local time that is left until it.  Clocks *)
(* drift: in one Tick the clock of each member advances by 1 .. Ratio.  A  *)
(* genesis is its set of cold voters, because cohort_genesis derives the   *)
(* epoch from exactly that set.  A member that stops or is stopped comes   *)
(* back as a new boot and has forgotten everything.                        *)
(*                                                                         *)
(* Consensus is abstract: what a leader commits (the join preparation, the *)
(* renewal challenge) takes a round from phase "begun" to "bound", which   *)
(* needs one live runtime of that genesis.                                 *)
(***************************************************************************)
EXTENDS Integers, FiniteSets

CONSTANTS
    Nodes,         \* configured physical members
    Ratio,         \* CLOCK_RATE_RATIO
    ConsumerUse,   \* LeaseTiming::consumer_use, in ticks of the slowest clock
    Cohorts,       \* bound: the geneses a discovery may yield
    MaxRestarts,   \* bound: restarts of all members together
    MaxRounds      \* bound: rounds outstanding at a time

ASSUME NodesFinite == IsFiniteSet(Nodes)
ASSUME RatioAssumption == Ratio \in Nat \ {0}
ASSUME ConsumerUseAssumption == ConsumerUse \in Nat \ {0}
ASSUME BoundsAssumption == MaxRestarts \in Nat /\ MaxRounds \in Nat

IssuerReservation == ConsumerUse * Ratio
RestartQuarantine == IssuerReservation * Ratio

IsMajority(S) == 2 * Cardinality(S) > Cardinality(Nodes)

Replicas == Nodes \X (Nat \ {0})
NoGenesis == {}

Physical(voters) == {r[1] : r \in voters}

\* Genesis::validate_roster
Geneses ==
    {g \in SUBSET Replicas : /\ \A q, r \in g : q[1] = r[1] => q = r
                             /\ IsMajority(Physical(g))}

ASSUME CohortsAssumption == Cohorts \subseteq Geneses

VARIABLES
    boot,          \* current boot of a member
    restarts,      \* counts restarts, for the bound
    quarantine,    \* AdmissionController::quarantine_until
    reservation,   \* AdmissionController::reservation, [genesis, left]
    permission,    \* RuntimePermission, [stage, genesis, left, by]
    round,         \* the outstanding AdmissionRound
    applied        \* KafStorageState::genesis

vars == <<boot, restarts, quarantine, reservation, permission, round, applied>>

Local(n) == <<n, boot[n]>>

NoReservation == [genesis |-> NoGenesis, left |-> 0]

\* `by` is history: the physical issuers behind the current deadline.
Quarantined == [stage |-> "quarantined", genesis |-> NoGenesis, left |-> 0, by |-> {}]

Sealed == [stage |-> "sealed", genesis |-> NoGenesis, left |-> 0, by |-> {}]

NoRound ==
    [mode |-> "none", phase |-> "none", genesis |-> NoGenesis, left |-> 0, grants |-> {}]

Init ==
    /\ boot = [n \in Nodes |-> 1]
    /\ restarts = 0
    /\ quarantine = [n \in Nodes |-> RestartQuarantine]
    /\ reservation = [n \in Nodes |-> NoReservation]
    /\ permission = [n \in Nodes |-> Quarantined]
    /\ round = [n \in Nodes |-> NoRound]
    /\ applied = [n \in Nodes |-> NoGenesis]

\* AdmissionSession::check: active and before the deadline.
Live(n) == permission[n].stage \in {"joining", "voting"} /\ permission[n].left > 0

Authority(n, g) == Live(n) /\ permission[n].genesis = g

-----------------------------------------------------------------------------
(* Rounds of the consumer.  The answers a discovery gathers are of different *)
(* moments, so it can yield any genesis of boots that exist or existed.      *)

Proposable == {g \in Cohorts : \A r \in g : r[2] <= boot[r[1]]}

\* AdmissionController::begin
MayBegin(n) == quarantine[n] = 0

\* A new round drops the one before it: the round mutex allows one at a time.
Begin(n, mode, phase, g) ==
    /\ MayBegin(n)
    /\ Cardinality({m \in Nodes \ {n} : round[m] # NoRound}) < MaxRounds
    /\ round' = [round EXCEPT ![n] =
                    [mode |-> mode, phase |-> phase, genesis |-> g, left |-> ConsumerUse,
                     grants |-> {}]]

\* RuntimeDriver::enter
Enter(n) ==
    /\ permission[n].stage = "quarantined"
    /\ \E g \in Proposable :
           \/ Local(n) \in g /\ Begin(n, "cold", "bound", g)
           \/ Local(n) \notin g /\ Begin(n, "join", "begun", g)
    /\ UNCHANGED <<boot, restarts, quarantine, reservation, permission, applied>>

\* RuntimeDriver::extend_join reuses the preparation of the first round,
\* RuntimeDriver::renew has a new challenge committed.
Renew(n) ==
    /\ Live(n)
    /\ \/ /\ permission[n].stage = "joining"
          /\ Begin(n, "join", "bound", permission[n].genesis)
       \/ /\ permission[n].stage = "voting"
          /\ Begin(n, "renew", "begun", permission[n].genesis)
    /\ UNCHANGED <<boot, restarts, quarantine, reservation, permission, applied>>

\* bind_prepared, bind_progress: a leader of that genesis committed the
\* evidence, and renewing members have applied it themselves.
Bind(n) ==
    /\ round[n].phase = "begun"
    /\ round[n].mode = "renew" => applied[n] = round[n].genesis
    /\ \E leader \in Nodes :
           Authority(leader, round[n].genesis) /\ applied[leader] = round[n].genesis
    /\ round' = [round EXCEPT ![n].phase = "bound"]
    /\ UNCHANGED <<boot, restarts, quarantine, reservation, permission, applied>>

-----------------------------------------------------------------------------
(* Reservations of the issuer.                                             *)

\* A plausible slip: a live reservation does not exclude another genesis.
FreeForAny(i, g) == TRUE

FreeFor(i, g) == reservation[i].left = 0 \/ reservation[i].genesis = g

\* A plausible slip: the reservation is as short as the consumer's use.
ReservedShort(i, g) == [genesis |-> g, left |-> ConsumerUse]

\* An earlier deadline for the same genesis is never shortened.
Reserved(i, g) ==
    [genesis |-> g,
     left |-> IF reservation[i].genesis = g /\ reservation[i].left > IssuerReservation
              THEN reservation[i].left ELSE IssuerReservation]

\* The cold checks of AdmissionController::reserve.
ColdConsent(i, g) ==
    /\ Local(i) \in g
    /\ permission[i].stage # "sealed"
    /\ permission[i].stage = "quarantined" => applied[i] = NoGenesis
    /\ permission[i].stage # "quarantined" =>
           Authority(i, g) /\ applied[i] \in {NoGenesis, g}

\* The join and renew checks: continuing authority over committed history.
ContinuingConsent(i, g) == Authority(i, g) /\ applied[i] = g

Reserve(i, g) ==
    /\ quarantine[i] = 0
    /\ FreeFor(i, g)
    /\ reservation' = [reservation EXCEPT ![i] = Reserved(i, g)]

\* The issuer answers the outstanding round of consumer c.
Grant(i, c) ==
    /\ round[c].phase = "bound"
    /\ \/ round[c].mode = "cold" /\ ColdConsent(i, round[c].genesis)
       \/ round[c].mode # "cold" /\ ContinuingConsent(i, round[c].genesis)
    /\ Reserve(i, round[c].genesis)
    /\ round' = [round EXCEPT ![c].grants = @ \cup {Local(i)}]
    /\ UNCHANGED <<boot, restarts, quarantine, permission, applied>>

\* The round is over when the request arrives, or the answer is lost; the
\* reservation is made all the same.
LateGrant(i) ==
    /\ \/ \E g \in Proposable : ColdConsent(i, g) /\ Reserve(i, g)
       \/ ContinuingConsent(i, applied[i]) /\ Reserve(i, applied[i])
    /\ UNCHANGED <<boot, restarts, quarantine, permission, round, applied>>

-----------------------------------------------------------------------------
(* Verification and installation.                                          *)

\* Two boots of one physical issuer void the round.
QuorumOfGrants(n) ==
    /\ \A q, r \in round[n].grants : q[1] = r[1] => q = r
    /\ IsMajority(Physical(round[n].grants))
    /\ round[n].mode = "cold" => round[n].grants = round[n].genesis

\* AdmissionController::complete
Complete(n) ==
    /\ round[n].phase = "bound"
    /\ round[n].left > 0
    /\ QuorumOfGrants(n)
    /\ round' = [round EXCEPT ![n].phase = "verified"]
    /\ UNCHANGED <<boot, restarts, quarantine, reservation, permission, applied>>

\* The deadline counts from before the challenge was sent.
Deadline(n) == round[n].left

Activate(n, stage) ==
    permission' = [permission EXCEPT ![n] =
        [stage |-> stage, genesis |-> round[n].genesis, left |-> Deadline(n),
         by |-> Physical(round[n].grants)]]

\* A plausible slip: a sealed runtime is admitted again.
MayAdmitSealed(n) == permission[n].stage \in {"quarantined", "sealed"}

\* RuntimePermission::admit and the first join: once, after the quarantine.
MayAdmit(n) == permission[n].stage = "quarantined" /\ quarantine[n] = 0

\* The later joins and RuntimePermission::renew.
MayExtend(n) ==
    /\ Authority(n, round[n].genesis)
    /\ \/ /\ permission[n].stage = "joining" /\ round[n].mode = "join"
          /\ round[n].left > permission[n].left
       \/ /\ permission[n].stage = "voting" /\ round[n].mode = "renew"
          /\ round[n].left >= permission[n].left

\* RuntimeAuthority::accept, after the state lock was awaited.
Accept(n) ==
    /\ round[n].phase = "verified"
    /\ round[n].left > 0
    /\ \/ /\ MayAdmit(n)
          /\ round[n].mode \in {"cold", "join"}
          /\ Activate(n, IF round[n].mode = "cold" THEN "voting" ELSE "joining")
       \/ /\ MayExtend(n)
          /\ Activate(n, permission[n].stage)
    /\ round' = [round EXCEPT ![n] = NoRound]
    /\ UNCHANGED <<boot, restarts, quarantine, reservation, applied>>

\* RuntimePermission::mark_promoted
MarkPromoted(n) ==
    /\ Live(n)
    /\ permission[n].stage = "joining"
    /\ applied[n] = permission[n].genesis
    /\ permission' = [permission EXCEPT ![n].stage = "voting"]
    /\ UNCHANGED <<boot, restarts, quarantine, reservation, round, applied>>

\* RuntimePermission::seal, on shutdown.
Seal(n) ==
    /\ permission[n].stage # "sealed"
    /\ permission' = [permission EXCEPT ![n] = Sealed]
    /\ UNCHANGED <<boot, restarts, quarantine, reservation, round, applied>>

\* An AdmissionGenesis entry or a snapshot, behind check_mutation.
ApplyGenesis(n) ==
    /\ Live(n)
    /\ applied[n] = NoGenesis
    /\ applied' = [applied EXCEPT ![n] = permission[n].genesis]
    /\ UNCHANGED <<boot, restarts, quarantine, reservation, permission, round>>

\* The process stops, by itself or not, and its successor starts.
Restart(n) ==
    /\ restarts < MaxRestarts
    /\ restarts' = restarts + 1
    /\ boot' = [boot EXCEPT ![n] = @ + 1]
    /\ quarantine' = [quarantine EXCEPT ![n] = RestartQuarantine]
    /\ reservation' = [reservation EXCEPT ![n] = NoReservation]
    /\ permission' = [permission EXCEPT ![n] = Quarantined]
    /\ round' = [round EXCEPT ![n] = NoRound]
    /\ applied' = [applied EXCEPT ![n] = NoGenesis]

Elapsed(left, d) == IF left > d THEN left - d ELSE 0

\* An expired reservation is like none.
ReservationAfter(r, d) ==
    IF r.left > d THEN [r EXCEPT !.left = @ - d] ELSE NoReservation

\* State::seal_expired: whoever looks at an expired permission seals it.
PermissionAfter(p, d) ==
    IF p.left > d THEN [p EXCEPT !.left = @ - d]
    ELSE IF p.stage \in {"joining", "voting"} THEN Sealed
    ELSE p

\* The timeouts around a round drop it at its deadline at the latest.
RoundAfter(r, d) == IF r.left > d THEN [r EXCEPT !.left = @ - d] ELSE NoRound

\* Time passes; clocks run at rates within the supported ratio.
Tick ==
    /\ \E d \in [Nodes -> 1 .. Ratio] :
        /\ quarantine' = [n \in Nodes |-> Elapsed(quarantine[n], d[n])]
        /\ reservation' = [n \in Nodes |-> ReservationAfter(reservation[n], d[n])]
        /\ permission' = [n \in Nodes |-> PermissionAfter(permission[n], d[n])]
        /\ round' = [n \in Nodes |-> RoundAfter(round[n], d[n])]
    /\ UNCHANGED <<boot, restarts, applied>>

Next ==
    \/ \E n \in Nodes : \/ Enter(n) \/ Renew(n) \/ Bind(n)
                        \/ LateGrant(n) \/ Complete(n) \/ Accept(n)
                        \/ MarkPromoted(n) \/ Seal(n) \/ ApplyGenesis(n) \/ Restart(n)
    \/ \E i, c \in Nodes : Grant(i, c)
    \/ Tick

Spec == Init /\ [][Next]_vars

-----------------------------------------------------------------------------

Reservations == [genesis : Geneses \cup {NoGenesis}, left : Nat]

Permissions ==
    [stage : {"quarantined", "joining", "voting", "sealed"},
     genesis : Geneses \cup {NoGenesis}, left : Nat, by : SUBSET Nodes]

Rounds ==
    [mode : {"none", "cold", "join", "renew"}, phase : {"none", "begun", "bound", "verified"},
     genesis : Geneses \cup {NoGenesis}, left : Nat, grants : SUBSET Replicas]

TypeOK ==
    /\ boot \in [Nodes -> Nat \ {0}]
    /\ restarts \in 0 .. MaxRestarts
    /\ quarantine \in [Nodes -> Nat]
    /\ reservation \in [Nodes -> Reservations]
    /\ permission \in [Nodes -> Permissions]
    /\ round \in [Nodes -> Rounds]
    /\ applied \in [Nodes -> Geneses \cup {NoGenesis}]

\* At no instant do two runtimes hold unexpired authority for different
\* geneses, whatever restarts, late answers and clock drift within the ratio
\* did before: there is one cluster history at a time.
OneGenesisAtATime ==
    \A m, n \in Nodes : (Live(m) /\ Live(n)) => permission[m].genesis = permission[n].genesis

\* What a member may claim: its permission, and the round that may become one.
Claims == Nodes \X {"permission", "round"}

Left(c) == IF c[2] = "permission" THEN permission[c[1]].left ELSE round[c[1]].left

Gen(c) == IF c[2] = "permission" THEN permission[c[1]].genesis ELSE round[c[1]].genesis

By(c) == IF c[2] = "permission" THEN permission[c[1]].by ELSE Physical(round[c[1]].grants)

Backed(i, g, left) ==
    \/ reservation[i].genesis = g /\ Ratio * left <= reservation[i].left
    \/ Ratio * left <= quarantine[i]

\* Whoever granted an unexpired claim either still reserves its genesis for as
\* long as the claim can last on the slowest clock, or has restarted and is
\* quarantined for as long; and no member ever stands behind two claims of
\* different geneses: the lease argument of runtime_permission/timing.rs:10-68.
AuthorityIsBacked ==
    /\ \A c \in Claims : Left(c) > 0 => \A i \in By(c) : Backed(i, Gen(c), Left(c))
    /\ \A c, e \in Claims :
           (Left(c) > 0 /\ Left(e) > 0 /\ By(c) \cap By(e) # {}) => Gen(c) = Gen(e)

\* What one step does to the permission of a boot that goes on.
KeepsAuthority(n) ==
    /\ permission[n].stage = "sealed" => permission'[n].stage = "sealed"
    /\ (Live(n) /\ permission'[n].stage # "sealed") =>
           /\ permission'[n].genesis = permission[n].genesis
           /\ permission[n].stage = "voting" => permission'[n].stage = "voting"

\* Sealing is terminal for a boot: neither a late grant nor a round that was
\* verified before the expiry brings authority back, and unexpired authority
\* never moves to another genesis or from voting back to joining
\* (runtime_permission.rs:59-172).
PermissionIsTerminal ==
    [][\A n \in Nodes : boot'[n] = boot[n] => KeepsAuthority(n)]_vars

=============================================================================
