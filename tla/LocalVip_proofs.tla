--------------------------- MODULE LocalVip_proofs --------------------------
(***************************************************************************)
(* What LocalVip's worker promises about the kernel, proved for any number *)
(* of generations and of killed children.                                  *)
(*                                                                         *)
(* A killed child that was given up (`lost`) stays counted for good, so    *)
(* nothing is Settled again and the tracking claims are void from then on: *)
(* most of the invariant is stated under ~Stuck.                           *)
(***************************************************************************)
EXTENDS LocalVip, TLAPS

Binding == {"claim", "mark", "add", "undo"}
Unbinding == {"unbind", "delete", "unmark", "unbound"}
Quiet == {"top", "decide", "claim", "unbind", "unbound", "publish", "settling",
          "handoff", "stopped"}

Commands ==
    [kind : Kinds \cup {"none"}, phase : Results \cup {"running", "none"}, done : BOOLEAN]
Orphans == [id : Nat, kind : Kinds, lost : BOOLEAN, done : BOOLEAN]

\* The variables keep their types.
Numbers ==
    /\ gen \in Nat /\ seen \in Nat /\ late \in Nat
    /\ captured \in Nat /\ intent \in Nat /\ witness \in Nat /\ acked \in Nat

Flags ==
    /\ released \in BOOLEAN /\ addr \in BOOLEAN
    /\ bound \in BOOLEAN /\ pending \in BOOLEAN /\ recleanup \in BOOLEAN
    /\ settled \in BOOLEAN /\ before \in BOOLEAN
    /\ first \in BOOLEAN /\ wasPending \in BOOLEAN
    /\ cleanup \in BOOLEAN /\ faulty \in BOOLEAN /\ stopping \in BOOLEAN

Shapes ==
    /\ cmd \in Commands /\ orphans \in SUBSET Orphans /\ unsettled \in Nat
    /\ pc \in Quiet \cup {"mark", "add", "undo", "delete", "unmark"}

TypeOK == Numbers /\ Flags /\ Shapes

\* The tracker's counter is the number of killed children (process.rs).
Counted ==
    /\ IsFiniteSet(orphans)
    /\ unsettled = Cardinality(orphans)
    /\ \A o, p \in orphans : o.id = p.id => o = p

Stuck == \E o \in orphans : o.lost

\* The awaited child belongs to the worker's place.
CommandAt ==
    /\ pc \in Quiet => cmd = NoCommand
    /\ pc \in {"mark", "undo", "unmark"} => cmd.kind = "marker"
    /\ pc = "add" => cmd.kind = "add"
    /\ pc = "delete" => cmd.kind = "del"
    /\ cmd.phase = "ok" => cmd.done
    /\ stopping => pc \in Unbinding \cup {"settling", "handoff", "publish", "stopped"}
    /\ pc \in {"settling", "handoff", "stopped"} => stopping

\* The replica never runs ahead of the log, nor a capture of the replica.
Ordered == captured <= seen /\ late <= seen /\ seen <= gen

RunningWriter == cmd.phase = "running" /\ Writer(cmd)

Clean == ~addr /\ Killed = {} /\ ~RunningWriter

\* A release in any stage of its way is true.
Truthful ==
    /\ pc = "publish" => captured > 0 /\ ~Mine(captured)
    /\ late # 0 => ~Mine(late)
    /\ (released \/ (late # 0 /\ late = gen) \/ (pc = "publish" /\ captured = gen))
           => seen = gen /\ ~Mine(gen) /\ Clean
    /\ pc = "handoff" => Clean

\* What a cleanup may conclude from the samples it took.
Sampled ==
    /\ (pc \in Unbinding /\ before) => Killed = {}
    /\ (pc \in {"delete", "unmark"} /\ settled) => Killed = {}
    /\ (pc = "delete" /\ (before \/ settled) /\ cmd.done) => ~addr
    /\ (pc = "unmark" /\ (before \/ settled)) => ~addr
    /\ (pc = "unbound" /\ before) => ~addr \/ (~bound /\ ~recleanup)
    /\ pc = "unbound" => ~bound

\* While every killed child may still be reaped, what is on the kernel or on
\* its way there is tracked, and a killed writer keeps a cleanup pending
\* unless a completed binding stands.
Tracked ==
    ~Stuck =>
        /\ ~Clean => bound \/ recleanup
        /\ (~stopping /\ Killed # {} /\ ~recleanup) => cleanup \/ (bound /\ ~pending)
        /\ (pc \in Binding /\ first /\ ~recleanup) => Killed = {}
        /\ (pc \in {"claim", "mark"} /\ first /\ ~wasPending /\ ~recleanup) => ~addr
        /\ (pc = "undo" /\ ~recleanup) => ~addr

\* The worker's own bookkeeping.
Worked ==
    /\ pc \in Binding => bound
    /\ pc \in Binding \cup {"decide"} => ~cleanup
    /\ (pc \in Unbinding /\ ~stopping) => witness = 0
    /\ (~stopping /\ witness # 0) => bound /\ ~pending
    /\ (pc \in Binding /\ first) => witness = 0
    /\ pc = "undo" => first

IInv ==
    /\ TypeOK
    /\ Counted
    /\ CommandAt
    /\ Ordered
    /\ Truthful
    /\ Sampled
    /\ Tracked
    /\ Worked

-----------------------------------------------------------------------------
(* Every action preserves the invariant, one lemma per action.  What it   
   does to the killed children is an assumption here (Counted, Killed and
   Stuck stay opaque); LocalVip_proofs discharges it.                     *)

\* A spawned child runs and has not acted.
LEMMA SpawnIsCommand ==
    ASSUME NEW kind \in Kinds
    PROVE  /\ Spawn(kind) \in Commands /\ Spawn(kind).kind = kind
           /\ Spawn(kind).phase = "running" /\ ~Spawn(kind).done
BY Zenon DEF Spawn, Commands

\* Nothing awaited is neither running nor a writer.
LEMMA NoCommandIsCommand ==
    /\ NoCommand \in Commands /\ NoCommand.kind = "none"
    /\ NoCommand.phase = "none" /\ ~NoCommand.done
BY Zenon DEF NoCommand, Commands

\* A new generation clears the release, and an earlier one in flight no
\* longer counts.
LEMMA ReassignStep ==
    ASSUME IInv, Reassign, Counted', Killed' = Killed, Stuck' = Stuck,
           Settled => Killed = {} /\ ~Stuck
    PROVE  IInv'
<1> USE DEF Reassign, store, tracking, children, sampled, memory, Settled
<1>0. /\ Numbers /\ Flags /\ Shapes
      /\ CommandAt /\ Ordered /\ Truthful /\ Sampled /\ Tracked /\ Worked
    BY Zenon DEF IInv, TypeOK
<1>1. Numbers' /\ Ordered'
    BY <1>0 DEF Numbers, Ordered
<1>2. Flags'
    BY <1>0, ZenonT(30) DEF Flags
<1>3. Shapes'
    BY <1>0 DEF Shapes, Commands, Kinds, Results, Quiet
<1>4. CommandAt' /\ Worked' /\ Sampled' /\ Tracked'
    BY <1>0 DEF Numbers, Flags, Shapes, CommandAt, Worked, Sampled, Tracked, Clean,
       RunningWriter,
       Writer, Binding, Unbinding, Quiet, Commands, Kinds, Results, NoCommand
<1>5. Truthful'
    BY <1>0 DEF Numbers, Flags, Shapes, CommandAt, Ordered, Truthful, Clean, RunningWriter,
       Writer,
       Quiet, Commands, Kinds, Results, NoCommand
<1> QED BY <1>1, <1>2, <1>3, <1>4, <1>5, Zenon DEF IInv, TypeOK

\* The replica catches up; a capture never gets ahead of it.
LEMMA ApplyStep ==
    ASSUME IInv, Apply, Counted', Killed' = Killed, Stuck' = Stuck,
           Settled => Killed = {} /\ ~Stuck
    PROVE  IInv'
<1> USE DEF Apply, store, tracking, children, sampled, memory, Settled
<1>0. /\ Numbers /\ Flags /\ Shapes
      /\ CommandAt /\ Ordered /\ Truthful /\ Sampled /\ Tracked /\ Worked
    BY Zenon DEF IInv, TypeOK
<1>1. Numbers' /\ Ordered'
    BY <1>0 DEF Numbers, Ordered
<1>2. Flags'
    BY <1>0 DEF Flags
<1>3. Shapes'
    BY <1>0, Zenon DEF Shapes, Commands, Kinds, Results, Quiet
<1>4. CommandAt' /\ Worked' /\ Sampled' /\ Tracked'
    BY <1>0 DEF Numbers, Flags, Shapes, CommandAt, Worked, Sampled, Tracked, Clean,
       RunningWriter,
       Writer, Binding, Unbinding, Quiet, Commands, Kinds, Results, NoCommand
<1>5. Truthful'
    BY <1>0 DEF Numbers, Flags, Shapes, CommandAt, Ordered, Truthful, Clean, RunningWriter,
       Writer,
       Quiet, Commands, Kinds, Results, NoCommand
<1> QED BY <1>1, <1>2, <1>3, <1>4, <1>5, Zenon DEF IInv, TypeOK

\* A late release is accepted only for the generation it was true of.
LEMMA LateReleaseStep ==
    ASSUME IInv, LateRelease, Counted', Killed' = Killed, Stuck' = Stuck,
           Settled => Killed = {} /\ ~Stuck
    PROVE  IInv'
<1> USE DEF LateRelease, store, tracking, children, sampled, memory, Settled, Released
<1>0. /\ Numbers /\ Flags /\ Shapes
      /\ CommandAt /\ Ordered /\ Truthful /\ Sampled /\ Tracked /\ Worked
    BY Zenon DEF IInv, TypeOK
<1>1. Numbers' /\ Ordered'
    BY <1>0 DEF Numbers, Ordered
<1>2. Flags'
    BY <1>0 DEF Flags
<1>3. Shapes'
    BY <1>0 DEF Shapes, Commands, Kinds, Results, Quiet
<1>4. CommandAt' /\ Worked' /\ Sampled' /\ Tracked'
    BY <1>0 DEF Numbers, Flags, Shapes, CommandAt, Worked, Sampled, Tracked, Clean,
       RunningWriter,
       Writer, Binding, Unbinding, Quiet, Commands, Kinds, Results, NoCommand
<1>5. Truthful'
    BY <1>0, Zenon DEF Numbers, Flags, Shapes, CommandAt, Ordered, Truthful, Clean,
       RunningWriter, Writer,
       Quiet, Commands, Kinds, Results, NoCommand
<1> QED BY <1>1, <1>2, <1>3, <1>4, <1>5, Zenon DEF IInv, TypeOK

\* An awaited child acts: only a running writer adds the address, and it is
\* tracked.
LEMMA CommandActsStep ==
    ASSUME IInv, CommandActs, Counted', Killed' = Killed, Stuck' = Stuck,
           Settled => Killed = {} /\ ~Stuck
    PROVE  IInv'
<1> USE DEF CommandActs, store, tracking, children, sampled, memory, Settled, EffectOn
<1>0. /\ Numbers /\ Flags /\ Shapes
      /\ CommandAt /\ Ordered /\ Truthful /\ Sampled /\ Tracked /\ Worked
    BY Zenon DEF IInv, TypeOK
<1>1. cmd' \in Commands /\ cmd'.kind = cmd.kind /\ cmd'.phase = cmd.phase /\ cmd'.done
    BY <1>0, Zenon DEF Shapes, Commands, CommandActs
<1>2. addr' \in BOOLEAN
    BY <1>0, Zenon DEF Flags, EffectOn
<1>3. Numbers' /\ Ordered'
    BY <1>0, <1>1, <1>2, Zenon DEF Numbers, Ordered
<1>4. Flags'
    BY <1>0, <1>1, <1>2, ZenonT(30) DEF Flags
<1>5. Shapes'
    BY <1>0, <1>1, <1>2, Zenon DEF Shapes, Commands, Kinds, Results, Quiet
<1>6. CommandAt' /\ Worked' /\ Sampled' /\ Tracked'
    BY <1>0, <1>1, <1>2 DEF Numbers, Flags, Shapes, CommandAt, Worked, Sampled, Tracked, Clean,
       RunningWriter,
       Writer, Binding, Unbinding, Quiet, Commands, Kinds, Results, NoCommand
<1>7. Truthful'
    BY <1>0, <1>1, <1>2, Zenon DEF Numbers, Flags, Shapes, CommandAt, Ordered, Truthful, Clean,
       RunningWriter, Writer,
       Quiet, Commands, Kinds, Results, NoCommand
<1> QED BY <1>3, <1>4, <1>5, <1>6, <1>7, Zenon DEF IInv, TypeOK

\* An awaited child ends; success implies its effect.
LEMMA CommandEndsStep ==
    ASSUME IInv, CommandEnds, Counted', Killed' = Killed, Stuck' = Stuck,
           Settled => Killed = {} /\ ~Stuck
    PROVE  IInv'
<1> USE DEF CommandEnds, store, tracking, children, sampled, memory, Settled
<1>0. /\ Numbers /\ Flags /\ Shapes
      /\ CommandAt /\ Ordered /\ Truthful /\ Sampled /\ Tracked /\ Worked
    BY Zenon DEF IInv, TypeOK
<1>1. Numbers' /\ Ordered'
    BY <1>0, Zenon DEF Numbers, Ordered
<1>2. Flags'
    BY <1>0 DEF Flags
<1>3. Shapes'
    BY <1>0, Zenon DEF Shapes, Commands, Kinds, Results, Quiet
<1>4. CommandAt' /\ Worked' /\ Sampled' /\ Tracked'
    BY <1>0 DEF Numbers, Flags, Shapes, CommandAt, Worked, Sampled, Tracked, Clean,
       RunningWriter,
       Writer, Binding, Unbinding, Quiet, Commands, Kinds, Results, NoCommand
<1>5. Truthful'
    BY <1>0, Zenon DEF Numbers, Flags, Shapes, CommandAt, Ordered, Truthful, Clean,
       RunningWriter, Writer,
       Quiet, Commands, Kinds, Results, NoCommand
<1> QED BY <1>1, <1>2, <1>3, <1>4, <1>5, Zenon DEF IInv, TypeOK

\* An iteration without an operation: a cleanup may be scheduled.
LEMMA IdleStep ==
    ASSUME IInv, Idle, Counted', Killed' = Killed, Stuck' = Stuck,
           Settled => Killed = {} /\ ~Stuck
    PROVE  IInv'
<1> USE DEF Idle, store, tracking, children, sampled, memory, Settled
<1>0. /\ Numbers /\ Flags /\ Shapes
      /\ CommandAt /\ Ordered /\ Truthful /\ Sampled /\ Tracked /\ Worked
    BY Zenon DEF IInv, TypeOK
<1>1. cleanup' \in BOOLEAN
    BY Zenon DEF Owes
<1>2. cleanup' => witness = 0
    BY Zenon DEF Owes
<1>3. Numbers' /\ Ordered'
    BY <1>0, <1>1, <1>2, Zenon DEF Numbers, Ordered
<1>4. Flags'
    BY <1>0, <1>1, <1>2 DEF Flags
<1>5. Shapes'
    BY <1>0, <1>1, <1>2, Zenon DEF Shapes, Commands, Kinds, Results, Quiet
<1>6. CommandAt' /\ Worked' /\ Sampled' /\ Tracked'
    BY <1>0, <1>1, <1>2 DEF Numbers, Flags, Shapes, CommandAt, Worked, Sampled, Tracked, Clean,
       RunningWriter,
       Writer, Binding, Unbinding, Quiet, Commands, Kinds, Results, NoCommand
<1>7. Truthful'
    BY <1>0, <1>1, <1>2, Zenon DEF Numbers, Flags, Shapes, CommandAt, Ordered, Truthful, Clean,
       RunningWriter, Writer,
       Quiet, Commands, Kinds, Results, NoCommand
<1> QED BY <1>3, <1>4, <1>5, <1>6, <1>7, Zenon DEF IInv, TypeOK

\* bind_kernel tracks the address before the first command.
LEMMA ClaimStep ==
    ASSUME IInv, Claim, Counted', Killed' = Killed, Stuck' = Stuck,
           Settled => Killed = {} /\ ~Stuck
    PROVE  IInv'
<1> USE DEF Claim, store, tracking, children, sampled, memory, Settled
<1>0. /\ Numbers /\ Flags /\ Shapes
      /\ CommandAt /\ Ordered /\ Truthful /\ Sampled /\ Tracked /\ Worked
    BY Zenon DEF IInv, TypeOK
<1>1. Numbers' /\ Ordered'
    BY <1>0, Zenon DEF Numbers, Ordered
<1>2. Flags'
    BY <1>0, ZenonT(30) DEF Flags
<1>3. Shapes'
    BY <1>0, Zenon DEF Shapes, Commands, Kinds, Results, Quiet
<1>4. CommandAt' /\ Worked' /\ Sampled' /\ Tracked'
    BY <1>0, Zenon DEF Numbers, Flags, Shapes, CommandAt, Worked, Sampled, Tracked, Clean,
       RunningWriter,
       Writer, Binding, Unbinding, Quiet, Commands, Kinds, Results, NoCommand
<1>5. Truthful'
    BY <1>0, Zenon DEF Numbers, Flags, Shapes, CommandAt, Ordered, Truthful, Clean,
       RunningWriter, Writer,
       Quiet, Commands, Kinds, Results, NoCommand
<1> QED BY <1>1, <1>2, <1>3, <1>4, <1>5, Zenon DEF IInv, TypeOK

\* The marker command does not touch the address.
LEMMA MarkAddressStep ==
    ASSUME IInv, MarkAddress, Counted', Killed' = Killed, Stuck' = Stuck,
           Settled => Killed = {} /\ ~Stuck
    PROVE  IInv'
<1> USE DEF MarkAddress, store, tracking, children, sampled, memory, Settled, Authorized, Spawn
<1>0. /\ Numbers /\ Flags /\ Shapes
      /\ CommandAt /\ Ordered /\ Truthful /\ Sampled /\ Tracked /\ Worked
    BY Zenon DEF IInv, TypeOK
<1>1. Numbers' /\ Ordered'
    BY <1>0, Zenon DEF Numbers, Ordered
<1>2. Flags'
    BY <1>0 DEF Flags
<1>3. Shapes'
    BY <1>0, Zenon DEF Shapes, Commands, Kinds, Results, Quiet
<1>4. CommandAt' /\ Worked' /\ Sampled' /\ Tracked'
    BY <1>0, Zenon DEF Numbers, Flags, Shapes, CommandAt, Worked, Sampled, Tracked, Clean,
       RunningWriter,
       Writer, Binding, Unbinding, Quiet, Commands, Kinds, Results, NoCommand
<1>5. Truthful'
    BY <1>0, Zenon DEF Numbers, Flags, Shapes, CommandAt, Ordered, Truthful, Clean,
       RunningWriter, Writer,
       Quiet, Commands, Kinds, Results, NoCommand
<1> QED BY <1>1, <1>2, <1>3, <1>4, <1>5, Zenon DEF IInv, TypeOK

\* The add command starts only for an assignment of this member.
LEMMA AddAddressStep ==
    ASSUME IInv, AddAddress, Counted', Killed' = Killed, Stuck' = Stuck,
           Settled => Killed = {} /\ ~Stuck
    PROVE  IInv'
<1> USE DEF AddAddress, store, tracking, children, sampled, memory, Settled, Authorized, Spawn
<1>0. /\ Numbers /\ Flags /\ Shapes
      /\ CommandAt /\ Ordered /\ Truthful /\ Sampled /\ Tracked /\ Worked
    BY Zenon DEF IInv, TypeOK
<1>1. Numbers' /\ Ordered'
    BY <1>0, Zenon DEF Numbers, Ordered
<1>2. Flags'
    BY <1>0 DEF Flags
<1>3. Shapes'
    BY <1>0, Zenon DEF Shapes, Commands, Kinds, Results, Quiet
<1>4. CommandAt' /\ Worked' /\ Sampled' /\ Tracked'
    BY <1>0, Zenon DEF Numbers, Flags, Shapes, CommandAt, Worked, Sampled, Tracked, Clean,
       RunningWriter,
       Writer, Binding, Unbinding, Quiet, Commands, Kinds, Results, NoCommand
<1>5. Truthful'
    BY <1>0, Zenon DEF Numbers, Flags, Shapes, CommandAt, Ordered, Truthful, Clean,
       RunningWriter, Writer,
       Quiet, Commands, Kinds, Results, NoCommand
<1> QED BY <1>1, <1>2, <1>3, <1>4, <1>5, Zenon DEF IInv, TypeOK

\* A failed marker untracks only what the claim itself tracked.
LEMMA MarkFailsStep ==
    ASSUME IInv, MarkFails, Counted', Killed' = Killed, Stuck' = Stuck,
           Settled => Killed = {} /\ ~Stuck
    PROVE  IInv'
<1> USE DEF MarkFails, store, tracking, children, sampled, memory, Settled, Untrack, BindFails,
       NoCommand
<1>0. /\ Numbers /\ Flags /\ Shapes
      /\ CommandAt /\ Ordered /\ Truthful /\ Sampled /\ Tracked /\ Worked
    BY Zenon DEF IInv, TypeOK
<1>1. /\ witness' = witness /\ acked' = acked /\ faulty' \in {faulty, TRUE}
      /\ cleanup' = TRUE \/ cleanup' = (witness = 0)
    BY Zenon DEF MarkFails, BindFails, Lose
<1>2. cleanup' \in BOOLEAN /\ faulty' \in BOOLEAN /\ bound' \in BOOLEAN /\ pending' \in BOOLEAN
    BY <1>0, <1>1, Zenon DEF Flags
<1>3. Numbers' /\ Ordered'
    BY <1>0, <1>1, <1>2, Zenon DEF Numbers, Ordered
<1>4. Flags'
    BY <1>0, <1>1, <1>2, ZenonT(30) DEF Flags
<1>5. Shapes'
    BY <1>0, <1>1, <1>2, Zenon DEF Shapes, Commands, Kinds, Results, Quiet
<1>6. CommandAt' /\ Worked' /\ Sampled' /\ Tracked'
    BY <1>0, <1>1, <1>2, Zenon DEF Numbers, Flags, Shapes, CommandAt, Worked, Sampled, Tracked,
       Clean, RunningWriter,
       Writer, Binding, Unbinding, Quiet, Commands, Kinds, Results, NoCommand
<1>7. Truthful'
    BY <1>0, <1>1, <1>2, Zenon DEF Numbers, Flags, Shapes, CommandAt, Ordered, Truthful, Clean,
       RunningWriter, Writer,
       Quiet, Commands, Kinds, Results, NoCommand
<1> QED BY <1>3, <1>4, <1>5, <1>6, <1>7, Zenon DEF IInv, TypeOK

\* A failed add keeps the address tracked and a cleanup pending.
LEMMA AddFailsStep ==
    ASSUME IInv, AddFails, Counted', Killed' = Killed, Stuck' = Stuck,
           Settled => Killed = {} /\ ~Stuck
    PROVE  IInv'
<1> USE DEF AddFails, store, tracking, children, sampled, memory, Settled, BindFails, NoCommand
<1>0. /\ Numbers /\ Flags /\ Shapes
      /\ CommandAt /\ Ordered /\ Truthful /\ Sampled /\ Tracked /\ Worked
    BY Zenon DEF IInv, TypeOK
<1>1. /\ witness' = witness /\ acked' = acked /\ faulty' \in {faulty, TRUE}
      /\ cleanup' = TRUE \/ cleanup' = (witness = 0)
    BY Zenon DEF AddFails, BindFails, Lose
<1>2. cleanup' \in BOOLEAN /\ faulty' \in BOOLEAN /\ bound' \in BOOLEAN /\ pending' \in BOOLEAN
    BY <1>0, <1>1, Zenon DEF Flags
<1>3. Numbers' /\ Ordered'
    BY <1>0, <1>1, <1>2, Zenon DEF Numbers, Ordered
<1>4. Flags'
    BY <1>0, <1>1, <1>2, ZenonT(30) DEF Flags
<1>5. Shapes'
    BY <1>0, <1>1, <1>2, Zenon DEF Shapes, Commands, Kinds, Results, Quiet
<1>6. CommandAt' /\ Worked' /\ Sampled' /\ Tracked'
    BY <1>0, <1>1, <1>2, Zenon DEF Numbers, Flags, Shapes, CommandAt, Worked, Sampled, Tracked,
       Clean, RunningWriter,
       Writer, Binding, Unbinding, Quiet, Commands, Kinds, Results, NoCommand
<1>7. Truthful'
    BY <1>0, <1>1, <1>2, Zenon DEF Numbers, Flags, Shapes, CommandAt, Ordered, Truthful, Clean,
       RunningWriter, Writer,
       Quiet, Commands, Kinds, Results, NoCommand
<1> QED BY <1>3, <1>4, <1>5, <1>6, <1>7, Zenon DEF IInv, TypeOK

\* A first bind is undone only when the address is absent.
LEMMA UndoFirstBindStep ==
    ASSUME IInv, UndoFirstBind, Counted', Killed' = Killed, Stuck' = Stuck,
           Settled => Killed = {} /\ ~Stuck
    PROVE  IInv'
<1> USE DEF UndoFirstBind, store, tracking, children, sampled, memory, Settled, Spawn
<1>0. /\ Numbers /\ Flags /\ Shapes
      /\ CommandAt /\ Ordered /\ Truthful /\ Sampled /\ Tracked /\ Worked
    BY Zenon DEF IInv, TypeOK
<1>1. Numbers' /\ Ordered'
    BY <1>0, Zenon DEF Numbers, Ordered
<1>2. Flags'
    BY <1>0, ZenonT(30) DEF Flags
<1>3. Shapes'
    BY <1>0, Zenon DEF Shapes, Commands, Kinds, Results, Quiet
<1>4. CommandAt' /\ Worked' /\ Sampled' /\ Tracked'
    BY <1>0, Zenon DEF Numbers, Flags, Shapes, CommandAt, Worked, Sampled, Tracked, Clean,
       RunningWriter,
       Writer, Binding, Unbinding, Quiet, Commands, Kinds, Results, NoCommand
<1>5. Truthful'
    BY <1>0, Zenon DEF Numbers, Flags, Shapes, CommandAt, Ordered, Truthful, Clean,
       RunningWriter, Writer,
       Quiet, Commands, Kinds, Results, NoCommand
<1> QED BY <1>1, <1>2, <1>3, <1>4, <1>5, Zenon DEF IInv, TypeOK

\* An undone first bind leaves nothing on the kernel, or a recleanup.
LEMMA UndoEndsStep ==
    ASSUME IInv, UndoEnds, Counted', Killed' = Killed, Stuck' = Stuck,
           Settled => Killed = {} /\ ~Stuck
    PROVE  IInv'
<1> USE DEF UndoEnds, store, tracking, children, sampled, memory, Settled, Untrack, BindFails,
       NoCommand
<1>0. /\ Numbers /\ Flags /\ Shapes
      /\ CommandAt /\ Ordered /\ Truthful /\ Sampled /\ Tracked /\ Worked
    BY Zenon DEF IInv, TypeOK
<1>1. /\ witness' = witness /\ acked' = acked /\ faulty' \in {faulty, TRUE}
      /\ cleanup' = TRUE \/ cleanup' = (witness = 0)
    BY Zenon DEF UndoEnds, BindFails, Lose
<1>2. cleanup' \in BOOLEAN /\ faulty' \in BOOLEAN /\ bound' \in BOOLEAN /\ pending' \in BOOLEAN
    BY <1>0, <1>1, Zenon DEF Flags
<1>3. Numbers' /\ Ordered'
    BY <1>0, <1>1, <1>2, Zenon DEF Numbers, Ordered
<1>4. Flags'
    BY <1>0, <1>1, <1>2, ZenonT(30) DEF Flags
<1>5. Shapes'
    BY <1>0, <1>1, <1>2, Zenon DEF Shapes, Commands, Kinds, Results, Quiet
<1>6. CommandAt' /\ Worked' /\ Sampled' /\ Tracked'
    BY <1>0, <1>1, <1>2, Zenon DEF Numbers, Flags, Shapes, CommandAt, Worked, Sampled, Tracked,
       Clean, RunningWriter,
       Writer, Binding, Unbinding, Quiet, Commands, Kinds, Results, NoCommand
<1>7. Truthful'
    BY <1>0, <1>1, <1>2, Zenon DEF Numbers, Flags, Shapes, CommandAt, Ordered, Truthful, Clean,
       RunningWriter, Writer,
       Quiet, Commands, Kinds, Results, NoCommand
<1> QED BY <1>3, <1>4, <1>5, <1>6, <1>7, Zenon DEF IInv, TypeOK

\* A completed binding is tracked and no longer pending.
LEMMA BindDoneStep ==
    ASSUME IInv, BindDone, Counted', Killed' = Killed, Stuck' = Stuck,
           Settled => Killed = {} /\ ~Stuck
    PROVE  IInv'
<1> USE DEF BindDone, store, tracking, children, sampled, memory, Settled, Authorized, NoCommand
<1>0. /\ Numbers /\ Flags /\ Shapes
      /\ CommandAt /\ Ordered /\ Truthful /\ Sampled /\ Tracked /\ Worked
    BY Zenon DEF IInv, TypeOK
<1>1. \/ witness' = intent /\ acked' = 0 /\ cleanup' = cleanup /\ faulty' = faulty
      \/ /\ witness' = witness /\ acked' = acked /\ faulty' = faulty
         /\ cleanup' = TRUE \/ cleanup' = (witness = 0)
    BY Zenon DEF BindDone, Lose
<1>2. cleanup' \in BOOLEAN
    BY <1>0, <1>1, Zenon DEF Flags
<1>3. Numbers'
    BY <1>0, <1>1, <1>2 DEF Numbers
<1>4. Ordered'
    BY <1>0, <1>1, <1>2, Zenon DEF Numbers, Ordered
<1>5. Flags'
    BY <1>0, <1>1, <1>2, ZenonT(30) DEF Flags
<1>6. Shapes'
    BY <1>0, <1>1, <1>2, Zenon DEF Shapes, Commands, Kinds, Results, Quiet
<1>7. CommandAt' /\ Worked' /\ Sampled' /\ Tracked'
    BY <1>0, <1>1, <1>2, Zenon DEF Numbers, Flags, Shapes, CommandAt, Worked, Sampled, Tracked,
       Clean, RunningWriter,
       Writer, Binding, Unbinding, Quiet, Commands, Kinds, Results, NoCommand
<1>8. Truthful'
    BY <1>0, <1>1, <1>2, Zenon DEF Numbers, Flags, Shapes, CommandAt, Ordered, Truthful, Clean,
       RunningWriter, Writer,
       Quiet, Commands, Kinds, Results, NoCommand
<1> QED BY <1>3, <1>4, <1>5, <1>6, <1>7, <1>8, Zenon DEF IInv, TypeOK

\* An attempt samples the tracker before it deletes.
LEMMA UnbindStep ==
    ASSUME IInv, Unbind, Counted', Killed' = Killed, Stuck' = Stuck,
           Settled => Killed = {} /\ ~Stuck
    PROVE  IInv'
<1> USE DEF Unbind, store, tracking, children, sampled, memory, Settled, NothingToDelete
<1>0. /\ Numbers /\ Flags /\ Shapes
      /\ CommandAt /\ Ordered /\ Truthful /\ Sampled /\ Tracked /\ Worked
    BY Zenon DEF IInv, TypeOK
<1>1. \/ NothingToDelete /\ pc' = "unbound" /\ cmd' = cmd
      \/ ~NothingToDelete /\ pc' = "delete" /\ cmd' = Spawn("del")
    BY Zenon DEF Unbind
<1>2. Spawn("del") \in Commands /\ Spawn("del").kind = "del" /\ Spawn("del").phase = "running" /\ ~Spawn("del").done
    BY SpawnIsCommand, Zenon DEF Kinds
<1>3. Numbers' /\ Ordered'
    BY <1>0, <1>1, <1>2, Zenon DEF Numbers, Ordered
<1>4. Flags'
    BY <1>0, <1>1, <1>2, ZenonT(30) DEF Flags
<1>5. Shapes'
    BY <1>0, <1>1, <1>2, Zenon DEF Shapes, Commands, Kinds, Results, Quiet
<1>6. CommandAt' /\ Worked'
    BY <1>0, <1>1, <1>2, Zenon DEF Numbers, Flags, Shapes, CommandAt, Worked, Binding,
       Unbinding, Quiet,
       Commands, Kinds, Results, NoCommand
<1>7. Sampled' /\ Tracked'
    BY <1>0, <1>1, <1>2, Zenon DEF Numbers, Flags, Shapes, CommandAt, Worked, Sampled, Tracked,
       Clean, RunningWriter,
       Writer, Binding, Unbinding, Quiet, Commands, Kinds, Results, NoCommand
<1>8. Truthful'
    BY <1>0, <1>1, <1>2, Zenon DEF Numbers, Flags, Shapes, CommandAt, Ordered, Truthful, Clean,
       RunningWriter, Writer,
       Quiet, Commands, Kinds, Results, NoCommand
<1> QED BY <1>3, <1>4, <1>5, <1>6, <1>7, <1>8, Zenon DEF IInv, TypeOK

\* A release is owed only after a settled, completed cleanup.
LEMMA UnboundStep ==
    ASSUME IInv, Unbound, Counted', Killed' = Killed, Stuck' = Stuck,
           Settled => Killed = {} /\ ~Stuck
    PROVE  IInv'
<1> USE DEF Unbound, store, tracking, children, sampled, memory, Settled
<1>0. /\ Numbers /\ Flags /\ Shapes
      /\ CommandAt /\ Ordered /\ Truthful /\ Sampled /\ Tracked /\ Worked
    BY Zenon DEF IInv, TypeOK
<1>1. MayAcknowledge => Clean
    BY <1>0 DEF MayAcknowledge, Sampled, Tracked, Clean, RunningWriter, CommandAt, NoCommand,
       Quiet, Unbinding
<1>2. pc' = "publish" => Clean /\ captured > 0 /\ ~Mine(captured)
    BY <1>1, Zenon DEF Owes
<1>3. captured = gen => seen = gen
    BY <1>0 DEF Ordered, Numbers
<1>4. Numbers' /\ Ordered'
    BY <1>0, <1>1, <1>2, <1>3, Zenon DEF Numbers, Ordered
<1>5. Flags'
    BY <1>0, <1>1, <1>2, <1>3 DEF Flags
<1>6. Shapes'
    BY <1>0, <1>1, <1>2, <1>3, Zenon DEF Shapes, Commands, Kinds, Results, Quiet
<1>7. CommandAt' /\ Worked'
    BY <1>0, <1>1, <1>2, <1>3, Zenon DEF Numbers, Flags, Shapes, CommandAt, Worked, Binding,
       Unbinding, Quiet,
       Commands, Kinds, Results, NoCommand
<1>8. Sampled' /\ Tracked'
    BY <1>0, <1>1, <1>2, <1>3, Zenon DEF Numbers, Flags, Shapes, CommandAt, Worked, Sampled,
       Tracked, Clean, RunningWriter,
       Writer, Binding, Unbinding, Quiet, Commands, Kinds, Results, NoCommand
<1>9. Truthful'
    BY <1>0, <1>1, <1>2, <1>3, Zenon DEF Numbers, Flags, Shapes, CommandAt, Ordered, Truthful,
       Clean, RunningWriter, Writer,
       Quiet, Commands, Kinds, Results, NoCommand
<1> QED BY <1>4, <1>5, <1>6, <1>7, <1>8, <1>9, Zenon DEF IInv, TypeOK

\* A release is acknowledged for the captured generation.
LEMMA PublishStep ==
    ASSUME IInv, Publish, Counted', Killed' = Killed, Stuck' = Stuck,
           Settled => Killed = {} /\ ~Stuck
    PROVE  IInv'
<1> USE DEF Publish, store, tracking, children, sampled, memory, Settled, Released, AfterPublish
<1>0. /\ Numbers /\ Flags /\ Shapes
      /\ CommandAt /\ Ordered /\ Truthful /\ Sampled /\ Tracked /\ Worked
    BY Zenon DEF IInv, TypeOK
<1>1. Numbers' /\ Ordered'
    BY <1>0, Zenon DEF Numbers, Ordered
<1>2. Flags'
    BY <1>0 DEF Flags
<1>3. Shapes'
    BY <1>0, Zenon DEF Shapes, Commands, Kinds, Results, Quiet
<1>4. CommandAt' /\ Worked'
    BY <1>0, Zenon DEF Numbers, Flags, Shapes, CommandAt, Worked, Binding, Unbinding, Quiet,
       Commands, Kinds, Results, NoCommand
<1>5. Sampled' /\ Tracked'
    BY <1>0, Zenon DEF Numbers, Flags, Shapes, CommandAt, Worked, Sampled, Tracked, Clean,
       RunningWriter,
       Writer, Binding, Unbinding, Quiet, Commands, Kinds, Results, NoCommand
<1>6. Truthful'
    BY <1>0, Zenon DEF Numbers, Flags, Shapes, CommandAt, Ordered, Truthful, Clean,
       RunningWriter, Writer,
       Quiet, Commands, Kinds, Results, NoCommand
<1> QED BY <1>1, <1>2, <1>3, <1>4, <1>5, <1>6, Zenon DEF IInv, TypeOK

\* A failed submission keeps the release in flight.
LEMMA PublishFailsStep ==
    ASSUME IInv, PublishFails, Counted', Killed' = Killed, Stuck' = Stuck,
           Settled => Killed = {} /\ ~Stuck
    PROVE  IInv'
<1> USE DEF PublishFails, store, tracking, children, sampled, memory, Settled, AfterPublish
<1>0. /\ Numbers /\ Flags /\ Shapes
      /\ CommandAt /\ Ordered /\ Truthful /\ Sampled /\ Tracked /\ Worked
    BY Zenon DEF IInv, TypeOK
<1>1. Numbers' /\ Ordered'
    BY <1>0, Zenon DEF Numbers, Ordered
<1>2. Flags'
    BY <1>0 DEF Flags
<1>3. Shapes'
    BY <1>0, Zenon DEF Shapes, Commands, Kinds, Results, Quiet
<1>4. CommandAt' /\ Worked'
    BY <1>0, Zenon DEF Numbers, Flags, Shapes, CommandAt, Worked, Binding, Unbinding, Quiet,
       Commands, Kinds, Results, NoCommand
<1>5. Sampled' /\ Tracked'
    BY <1>0, Zenon DEF Numbers, Flags, Shapes, CommandAt, Worked, Sampled, Tracked, Clean,
       RunningWriter,
       Writer, Binding, Unbinding, Quiet, Commands, Kinds, Results, NoCommand
<1>6. Truthful'
    BY <1>0, Zenon DEF Numbers, Flags, Shapes, CommandAt, Ordered, Truthful, Clean,
       RunningWriter, Writer,
       Quiet, Commands, Kinds, Results, NoCommand
<1> QED BY <1>1, <1>2, <1>3, <1>4, <1>5, <1>6, Zenon DEF IInv, TypeOK

\* The stop cleanup samples the tracker first.
LEMMA StopCleanupStep ==
    ASSUME IInv, StopCleanup, Counted', Killed' = Killed, Stuck' = Stuck,
           Settled => Killed = {} /\ ~Stuck
    PROVE  IInv'
<1> USE DEF StopCleanup, store, tracking, children, sampled, memory, Settled
<1>0. /\ Numbers /\ Flags /\ Shapes
      /\ CommandAt /\ Ordered /\ Truthful /\ Sampled /\ Tracked /\ Worked
    BY Zenon DEF IInv, TypeOK
<1>1. Numbers' /\ Ordered'
    BY <1>0, Zenon DEF Numbers, Ordered
<1>2. Flags'
    BY <1>0 DEF Flags
<1>3. Shapes'
    BY <1>0, Zenon DEF Shapes, Commands, Kinds, Results, Quiet
<1>4. CommandAt' /\ Worked'
    BY <1>0, Zenon DEF Numbers, Flags, Shapes, CommandAt, Worked, Binding, Unbinding, Quiet,
       Commands, Kinds, Results, NoCommand
<1>5. Sampled' /\ Tracked'
    BY <1>0, Zenon DEF Numbers, Flags, Shapes, CommandAt, Worked, Sampled, Tracked, Clean,
       RunningWriter,
       Writer, Binding, Unbinding, Quiet, Commands, Kinds, Results, NoCommand
<1>6. Truthful'
    BY <1>0, Zenon DEF Numbers, Flags, Shapes, CommandAt, Ordered, Truthful, Clean,
       RunningWriter, Writer,
       Quiet, Commands, Kinds, Results, NoCommand
<1> QED BY <1>1, <1>2, <1>3, <1>4, <1>5, <1>6, Zenon DEF IInv, TypeOK

\* The handoff starts only from a settled, completed cleanup.
LEMMA StopUnboundStep ==
    ASSUME IInv, StopUnbound, Counted', Killed' = Killed, Stuck' = Stuck,
           Settled => Killed = {} /\ ~Stuck
    PROVE  IInv'
<1> USE DEF StopUnbound, store, tracking, children, sampled, memory, Settled
<1>0. /\ Numbers /\ Flags /\ Shapes
      /\ CommandAt /\ Ordered /\ Truthful /\ Sampled /\ Tracked /\ Worked
    BY Zenon DEF IInv, TypeOK
<1>1. MayAcknowledge => Clean
    BY <1>0 DEF MayAcknowledge, Sampled, Tracked, Clean, RunningWriter, CommandAt, NoCommand,
       Quiet, Unbinding
<1>2. Numbers' /\ Ordered'
    BY <1>0, <1>1, Zenon DEF Numbers, Ordered
<1>3. Flags'
    BY <1>0, <1>1 DEF Flags
<1>4. Shapes'
    BY <1>0, <1>1, Zenon DEF Shapes, Commands, Kinds, Results, Quiet
<1>5. CommandAt' /\ Worked'
    BY <1>0, <1>1, Zenon DEF Numbers, Flags, Shapes, CommandAt, Worked, Binding, Unbinding,
       Quiet,
       Commands, Kinds, Results, NoCommand
<1>6. Sampled' /\ Tracked'
    BY <1>0, <1>1, Zenon DEF Numbers, Flags, Shapes, CommandAt, Worked, Sampled, Tracked,
       Clean, RunningWriter,
       Writer, Binding, Unbinding, Quiet, Commands, Kinds, Results, NoCommand
<1>7. Truthful'
    BY <1>0, <1>1, Zenon DEF Numbers, Flags, Shapes, CommandAt, Ordered, Truthful, Clean,
       RunningWriter, Writer,
       Quiet, Commands, Kinds, Results, NoCommand
<1> QED BY <1>2, <1>3, <1>4, <1>5, <1>6, <1>7, Zenon DEF IInv, TypeOK

\* The handoff reads the assignment after the kernel is clean for good.
LEMMA HandoffStep ==
    ASSUME IInv, Handoff, Counted', Killed' = Killed, Stuck' = Stuck,
           Settled => Killed = {} /\ ~Stuck
    PROVE  IInv'
<1> USE DEF Handoff, store, tracking, children, sampled, memory, Settled
<1>0. /\ Numbers /\ Flags /\ Shapes
      /\ CommandAt /\ Ordered /\ Truthful /\ Sampled /\ Tracked /\ Worked
    BY Zenon DEF IInv, TypeOK
<1>1. Numbers'
    BY <1>0, Zenon DEF Numbers
<1>2. Ordered'
    BY <1>0 DEF Numbers, Ordered
<1>3. Flags'
    BY <1>0 DEF Flags
<1>4. Shapes'
    BY <1>0, Zenon DEF Shapes, Commands, Kinds, Results, Quiet
<1>5. CommandAt' /\ Worked'
    BY <1>0, Zenon DEF Numbers, Flags, Shapes, CommandAt, Worked, Binding, Unbinding, Quiet,
       Commands, Kinds, Results, NoCommand
<1>6. Sampled' /\ Tracked'
    BY <1>0, Zenon DEF Numbers, Flags, Shapes, CommandAt, Worked, Sampled, Tracked, Clean,
       RunningWriter,
       Writer, Binding, Unbinding, Quiet, Commands, Kinds, Results, NoCommand
<1>7. Truthful'
    BY <1>0, Zenon DEF Numbers, Flags, Shapes, CommandAt, Ordered, Truthful, Clean,
       RunningWriter, Writer,
       Quiet, Commands, Kinds, Results, NoCommand
<1> QED BY <1>1, <1>2, <1>3, <1>4, <1>5, <1>6, <1>7, Zenon DEF IInv, TypeOK

\* An iteration starts: a cleanup is never forgotten.
LEMMA ObserveStep ==
    ASSUME IInv, NEW read \in BOOLEAN, Observe(read), Counted', Killed' = Killed, Stuck' = Stuck,
           Settled => Killed = {} /\ ~Stuck
    PROVE  IInv'
<1> USE DEF Observe, store, tracking, children, sampled, memory, Settled
<1>0. /\ Numbers /\ Flags /\ Shapes
      /\ CommandAt /\ Ordered /\ Truthful /\ Sampled /\ Tracked /\ Worked
    BY Zenon DEF IInv, TypeOK
<1>1. captured' = captured \/ captured' = seen
    BY Zenon DEF Observe
<1>2. \/ pc' = "unbind" /\ cleanup' = TRUE /\ witness' = 0 /\ before' = Settled
      \/ /\ pc' = "decide" /\ cleanup' = FALSE /\ cleanup = FALSE
         /\ witness' = witness /\ before' = FALSE
    BY <1>0, Zenon DEF Observe, Flags
<1>3. cleanup' \in BOOLEAN /\ before' \in BOOLEAN
    BY <1>2, Zenon
<1>4. Numbers'
    BY <1>0, <1>1, <1>2, <1>3 DEF Numbers
<1>5. Ordered'
    BY <1>0, <1>1, <1>2, <1>3 DEF Numbers, Ordered
<1>6. Flags'
    BY <1>0, <1>1, <1>2, <1>3, ZenonT(30) DEF Flags
<1>7. Shapes'
    BY <1>0, <1>1, <1>2, <1>3 DEF Shapes, Commands, Kinds, Results, Quiet
<1>8. CommandAt' /\ Worked'
    BY <1>0, <1>1, <1>2, <1>3, Zenon DEF Numbers, Flags, Shapes, CommandAt, Worked, Binding,
       Unbinding, Quiet,
       Commands, Kinds, Results, NoCommand
<1>9. Sampled' /\ Tracked'
    BY <1>0, <1>1, <1>2, <1>3, Zenon DEF Numbers, Flags, Shapes, CommandAt, Worked, Sampled,
       Tracked, Clean, RunningWriter,
       Writer, Binding, Unbinding, Quiet, Commands, Kinds, Results, NoCommand
<1>10. Truthful'
    BY <1>0, <1>1, <1>2, <1>3, Zenon DEF Numbers, Flags, Shapes, CommandAt, Ordered, Truthful,
       Clean, RunningWriter, Writer,
       Quiet, Commands, Kinds, Results, NoCommand
<1> QED BY <1>4, <1>5, <1>6, <1>7, <1>8, <1>9, <1>10, Zenon DEF IInv, TypeOK

\* A failed attempt changes no tracking.
LEMMA UnbindFailsStep ==
    ASSUME IInv, pc \in {"delete", "unmark"}, UnbindFails, Counted', Killed' = Killed, Stuck' = Stuck,
           Settled => Killed = {} /\ ~Stuck
    PROVE  IInv'
<1> USE DEF UnbindFails, store, tracking, children, sampled, memory, Settled, NoCommand
<1>0. /\ Numbers /\ Flags /\ Shapes
      /\ CommandAt /\ Ordered /\ Truthful /\ Sampled /\ Tracked /\ Worked
    BY Zenon DEF IInv, TypeOK
<1>1. Numbers' /\ Ordered'
    BY <1>0, Zenon DEF Numbers, Ordered
<1>2. Flags'
    BY <1>0 DEF Flags
<1>3. Shapes'
    BY <1>0, Zenon DEF Shapes, Commands, Kinds, Results, Quiet
<1>4. CommandAt' /\ Worked'
    BY <1>0, Zenon DEF Numbers, Flags, Shapes, CommandAt, Worked, Binding, Unbinding, Quiet,
       Commands, Kinds, Results, NoCommand
<1>5. Sampled' /\ Tracked'
    BY <1>0, Zenon DEF Numbers, Flags, Shapes, CommandAt, Worked, Sampled, Tracked, Clean,
       RunningWriter,
       Writer, Binding, Unbinding, Quiet, Commands, Kinds, Results, NoCommand
<1>6. Truthful'
    BY <1>0, Zenon DEF Numbers, Flags, Shapes, CommandAt, Ordered, Truthful, Clean,
       RunningWriter, Writer,
       Quiet, Commands, Kinds, Results, NoCommand
<1> QED BY <1>1, <1>2, <1>3, <1>4, <1>5, <1>6, Zenon DEF IInv, TypeOK

\* A verified delete: the address is absent unless a killed writer is left.
LEMMA DeleteSucceedsStep ==
    ASSUME IInv, pc = "delete", cmd.phase = "ok" \/ (cmd.phase = "failed" /\ ~addr),
           cmd' = Spawn("marker"), pc' = "unmark",
           UNCHANGED <<store, addr, tracking, orphans, unsettled, tries, sampled, memory>>, Counted', Killed' = Killed, Stuck' = Stuck,
           Settled => Killed = {} /\ ~Stuck
    PROVE  IInv'
<1> USE DEF store, tracking, children, sampled, memory, Settled, Spawn
<1>0. /\ Numbers /\ Flags /\ Shapes
      /\ CommandAt /\ Ordered /\ Truthful /\ Sampled /\ Tracked /\ Worked
    BY Zenon DEF IInv, TypeOK
<1>1. Numbers' /\ Ordered'
    BY <1>0, Zenon DEF Numbers, Ordered
<1>2. Flags'
    BY <1>0 DEF Flags
<1>3. Shapes'
    BY <1>0, Zenon DEF Shapes, Commands, Kinds, Results, Quiet
<1>4. CommandAt' /\ Worked' /\ Sampled' /\ Tracked'
    BY <1>0, Zenon DEF Numbers, Flags, Shapes, CommandAt, Worked, Sampled, Tracked, Clean,
       RunningWriter,
       Writer, Binding, Unbinding, Quiet, Commands, Kinds, Results, NoCommand
<1>5. Truthful'
    BY <1>0, Zenon DEF Numbers, Flags, Shapes, CommandAt, Ordered, Truthful, Clean,
       RunningWriter, Writer,
       Quiet, Commands, Kinds, Results, NoCommand
<1> QED BY <1>1, <1>2, <1>3, <1>4, <1>5, Zenon DEF IInv, TypeOK

\* Untracking after an unsettled delete asks for another cleanup.
LEMMA UnmarkSucceedsStep ==
    ASSUME IInv, pc = "unmark", UntrackDeleted, cmd' = NoCommand, pc' = "unbound",
           UNCHANGED <<store, addr, orphans, unsettled, tries, sampled, memory>>, Counted', Killed' = Killed, Stuck' = Stuck,
           Settled => Killed = {} /\ ~Stuck
    PROVE  IInv'
<1> USE DEF store, tracking, children, sampled, memory, Settled, UntrackDeleted, Untrack,
       NoCommand
<1>0. /\ Numbers /\ Flags /\ Shapes
      /\ CommandAt /\ Ordered /\ Truthful /\ Sampled /\ Tracked /\ Worked
    BY Zenon DEF IInv, TypeOK
<1>1. Numbers' /\ Ordered'
    BY <1>0, Zenon DEF Numbers, Ordered
<1>2. Flags'
    BY <1>0, ZenonT(30) DEF Flags
<1>3. Shapes'
    BY <1>0, Zenon DEF Shapes, Commands, Kinds, Results, Quiet
<1>4. CommandAt' /\ Worked' /\ Sampled' /\ Tracked'
    BY <1>0, Zenon DEF Numbers, Flags, Shapes, CommandAt, Worked, Sampled, Tracked, Clean,
       RunningWriter,
       Writer, Binding, Unbinding, Quiet, Commands, Kinds, Results, NoCommand
<1>5. Truthful'
    BY <1>0, Zenon DEF Numbers, Flags, Shapes, CommandAt, Ordered, Truthful, Clean,
       RunningWriter, Writer,
       Quiet, Commands, Kinds, Results, NoCommand
<1> QED BY <1>1, <1>2, <1>3, <1>4, <1>5, Zenon DEF IInv, TypeOK

-----------------------------------------------------------------------------
(* The actions that change the killed children.                            *)

\* A killed child acts.
LEMMA OrphanActsStep ==
    ASSUME IInv, Counted', orphans' \in SUBSET Orphans,
           addr' \in BOOLEAN, Killed = {} => Killed' = {} /\ (addr' => addr), Stuck' <=> Stuck,
           UNCHANGED <<store, tracking, cmd, unsettled, pc, tries, sampled, memory>>
    PROVE  IInv'
<1> USE DEF store, tracking, sampled, memory
<1>0. /\ Numbers /\ Flags /\ Shapes
      /\ CommandAt /\ Ordered /\ Truthful /\ Sampled /\ Tracked /\ Worked
    BY Zenon DEF IInv, TypeOK
<1>1. Numbers' /\ Ordered'
    BY <1>0, Zenon DEF Numbers, Ordered
<1>2. Flags'
    BY <1>0 DEF Flags
<1>3. Shapes'
    BY <1>0, Zenon DEF Shapes
<1>4. CommandAt' /\ Worked'
    BY <1>0 DEF CommandAt, Worked
<1>5. Sampled' /\ Tracked'
    BY <1>0, Zenon DEF Flags, Sampled, Tracked, Worked, Binding, Unbinding, Clean,
                    RunningWriter, Writer
<1>6. Truthful'
    BY <1>0, Zenon DEF Flags, Truthful, Clean, RunningWriter, Writer
<1> QED BY <1>1, <1>2, <1>3, <1>4, <1>5, <1>6, Zenon DEF IInv, TypeOK

\* A killed child is reaped.
LEMMA OrphanReapedStep ==
    ASSUME IInv, Counted', orphans' \in SUBSET Orphans,
           unsettled' \in Nat, Killed = {} => Killed' = {}, Stuck' <=> Stuck,
           UNCHANGED <<store, addr, tracking, cmd, pc, tries, sampled, memory>>
    PROVE  IInv'
<1> USE DEF store, tracking, sampled, memory
<1>0. /\ Numbers /\ Flags /\ Shapes
      /\ CommandAt /\ Ordered /\ Truthful /\ Sampled /\ Tracked /\ Worked
    BY Zenon DEF IInv, TypeOK
<1>1. Numbers' /\ Ordered'
    BY <1>0, Zenon DEF Numbers, Ordered
<1>2. Flags'
    BY <1>0 DEF Flags
<1>3. Shapes'
    BY <1>0, Zenon DEF Shapes
<1>4. CommandAt' /\ Worked'
    BY <1>0 DEF CommandAt, Worked
<1>5. Sampled' /\ Tracked'
    BY <1>0, Zenon DEF Flags, Sampled, Tracked, Worked, Binding, Unbinding, Clean,
                    RunningWriter, Writer
<1>6. Truthful'
    BY <1>0, Zenon DEF Flags, Truthful, Clean, RunningWriter, Writer
<1> QED BY <1>1, <1>2, <1>3, <1>4, <1>5, <1>6, Zenon DEF IInv, TypeOK

\* A killed child is given up.
LEMMA OrphanLostStep ==
    ASSUME IInv, Counted', orphans' \in SUBSET Orphans,
           Killed = {} => Killed' = {}, Stuck',
           UNCHANGED <<store, addr, tracking, cmd, unsettled, pc, tries, sampled, memory>>
    PROVE  IInv'
<1> USE DEF store, tracking, sampled, memory
<1>0. /\ Numbers /\ Flags /\ Shapes
      /\ CommandAt /\ Ordered /\ Truthful /\ Sampled /\ Tracked /\ Worked
    BY Zenon DEF IInv, TypeOK
<1>1. Numbers' /\ Ordered'
    BY <1>0, Zenon DEF Numbers, Ordered
<1>2. Flags'
    BY <1>0 DEF Flags
<1>3. Shapes'
    BY <1>0, Zenon DEF Shapes
<1>4. CommandAt' /\ Worked'
    BY <1>0 DEF CommandAt, Worked
<1>5. Sampled' /\ Tracked'
    BY <1>0, Zenon DEF Flags, Sampled, Tracked, Worked, Binding, Unbinding, Clean,
                    RunningWriter, Writer
<1>6. Truthful'
    BY <1>0, Zenon DEF Flags, Truthful, Clean, RunningWriter, Writer
<1> QED BY <1>1, <1>2, <1>3, <1>4, <1>5, <1>6, Zenon DEF IInv, TypeOK

\* An awaited child is given up: it may still act, and nothing settles
\* again.
LEMMA CommandLostStep ==
    ASSUME IInv, CommandLost, Counted', orphans' \in SUBSET Orphans,
           (Killed' = {}) <=> (Killed = {} /\ ~Writer(cmd)), Stuck'
    PROVE  IInv'
<1> USE DEF CommandLost, store, tracking, sampled, memory
<1>0. /\ Numbers /\ Flags /\ Shapes
      /\ CommandAt /\ Ordered /\ Truthful /\ Sampled /\ Tracked /\ Worked
    BY Zenon DEF IInv, TypeOK
<1>1. cmd' \in Commands /\ cmd'.kind = cmd.kind /\ cmd'.phase = "timedout" /\ cmd'.done = cmd.done
    BY <1>0, Zenon DEF Shapes, Commands, Results
<1>2. Numbers' /\ Ordered'
    BY <1>0, Zenon DEF Numbers, Ordered
<1>3. Flags'
    BY <1>0 DEF Flags
<1>4. Shapes'
    <2>1. unsettled' \in Nat
        BY <1>0 DEF Shapes
    <2> QED BY <1>0, <1>1, <2>1, Zenon DEF Shapes
<1>5. CommandAt' /\ Worked'
    BY <1>0, <1>1 DEF CommandAt, Worked, NoCommand
<1>6. Sampled' /\ Tracked'
    <2>1. pc \in Unbinding => ~Writer(cmd)
        BY <1>0 DEF CommandAt, Unbinding, Quiet, NoCommand, Writer
    <2>2. pc \in {"delete", "unmark"} => pc \in Unbinding
        BY DEF Unbinding
    <2> QED BY <1>0, <1>1, <2>1, <2>2, Zenon DEF Sampled, Tracked
<1>7. Truthful'
    BY <1>0, <1>1, Zenon DEF Truthful, Clean, RunningWriter, CommandAt, Quiet, NoCommand, Writer
<1> QED BY <1>2, <1>3, <1>4, <1>5, <1>6, <1>7, Zenon DEF IInv, TypeOK

\* An awaited child that runs has one of the three kinds.
LEMMA RunningKind ==
    ASSUME IInv, cmd.phase = "running"
    PROVE  cmd.kind \in Kinds /\ cmd.done \in BOOLEAN
BY DEF IInv, TypeOK, Shapes, CommandAt, Quiet, NoCommand, Kinds, Commands

\* Dropping the caller of a command, in whatever phase it is.
AbandonedChild ==
    /\ Counted' /\ orphans' \in SUBSET Orphans /\ unsettled' \in Nat
    /\ (Killed' = {}) <=> (Killed = {} /\ ~RunningWriter)
    /\ Stuck' <=> Stuck

\* A dropped operation keeps a cleanup pending or a completed binding.
LEMMA CancelStep ==
    ASSUME IInv, Cancel, AbandonedChild
    PROVE  IInv'
<1> USE DEF Cancel, Abandon, AbandonedChild, store, tracking, sampled
<1>0. /\ Numbers /\ Flags /\ Shapes
      /\ CommandAt /\ Ordered /\ Truthful /\ Sampled /\ Tracked /\ Worked
    BY Zenon DEF IInv, TypeOK
<1>1. /\ cleanup' = TRUE \/ cleanup' = (witness = 0)
      /\ UNCHANGED <<witness, acked, faulty>>
    BY Zenon DEF Lose
<1>2. cleanup' \in BOOLEAN
    BY <1>1, Zenon
<1>3. Numbers' /\ Ordered'
    BY <1>0, <1>1, Zenon DEF Numbers, Ordered
<1>4. Flags'
    BY <1>0, <1>1, <1>2 DEF Flags
<1>5. Shapes'
    BY <1>0, NoCommandIsCommand, Zenon DEF Shapes, Quiet
<1>6. CommandAt' /\ Worked'
    BY <1>0, <1>1, NoCommandIsCommand, Zenon DEF CommandAt, Worked, Quiet, Binding, Unbinding
<1>7. Sampled' /\ Tracked'
    BY <1>0, <1>1, NoCommandIsCommand, Zenon DEF Flags, Sampled, Tracked, Worked, Clean,
       RunningWriter, Binding, Unbinding
<1>8. Truthful'
    BY <1>0, <1>1, NoCommandIsCommand, ZenonT(30) DEF Truthful, Clean, RunningWriter
<1> QED BY <1>3, <1>4, <1>5, <1>6, <1>7, <1>8, Zenon DEF IInv, TypeOK

\* The worker is aborted wherever it is.
LEMMA StopStep ==
    ASSUME IInv, Stop, AbandonedChild
    PROVE  IInv'
<1> USE DEF Stop, Abandon, AbandonedChild, store, tracking, sampled
<1>0. /\ Numbers /\ Flags /\ Shapes
      /\ CommandAt /\ Ordered /\ Truthful /\ Sampled /\ Tracked /\ Worked
    BY Zenon DEF IInv, TypeOK
<1>1. Numbers' /\ Ordered'
    BY <1>0, Zenon DEF Numbers, Ordered
<1>2. Flags'
    BY <1>0 DEF Flags
<1>3. Shapes'
    BY <1>0, NoCommandIsCommand, Zenon DEF Shapes, Quiet
<1>4. CommandAt' /\ Worked'
    BY <1>0, NoCommandIsCommand, Zenon DEF CommandAt, Worked, Quiet, Binding, Unbinding
<1>5. Sampled' /\ Tracked'
    BY <1>0, NoCommandIsCommand, Zenon DEF Sampled, Tracked, Clean, RunningWriter, Binding,
       Unbinding
<1>6. Truthful'
    BY <1>0, NoCommandIsCommand, ZenonT(30) DEF Truthful, Clean, RunningWriter
<1> QED BY <1>1, <1>2, <1>3, <1>4, <1>5, <1>6, Zenon DEF IInv, TypeOK

-----------------------------------------------------------------------------
INSTANCE FiniteSetTheorems

(* The killed children.                                                    *)

\* A settled tracker has no killed child.
LEMMA SettledIsEmpty ==
    ASSUME Counted, Settled
    PROVE  Killed = {} /\ ~Stuck
<1>1. orphans = {}
    BY FS_EmptySet, Zenon DEF Counted, Settled
<1> QED BY <1>1, Zenon DEF Killed, Stuck

\* Below the bound there is a fresh name for the next killed child.
LEMMA FreshOrphan ==
    ASSUME Counted, RoomForOrphan
    PROVE  \E i \in 1 .. MaxOrphans : \A o \in orphans : o.id # i
<1> SUFFICES ASSUME \A i \in 1 .. MaxOrphans : \E o \in orphans : o.id = i
             PROVE  FALSE
    BY Zenon
<1> DEFINE S == 1 .. MaxOrphans
           f == [i \in S |-> CHOOSE o \in orphans : o.id = i]
<1>1. \A i \in S : f[i] \in orphans /\ f[i].id = i
    BY Zenon
<1>2. Cardinality(orphans) \in Nat
    BY FS_CardinalityType, Zenon DEF Counted
<1>3. IsFiniteSet(S) /\ Cardinality(S) = MaxOrphans
    BY <1>2, FS_Interval, BoundsAssumption DEF RoomForOrphan
<1>4. f \in [S -> orphans]
    BY <1>1, Zenon
<1> HIDE DEF f, S
<1>5. \E x, y \in S : x # y /\ f[x] = f[y]
    BY <1>3, <1>4, FS_PigeonHole DEF Counted, RoomForOrphan
<1> QED BY <1>1, <1>5, Zenon

\* A step that leaves the killed children alone.
LEMMA ChildrenStay ==
    ASSUME Counted, UNCHANGED <<orphans, unsettled>>
    PROVE  Counted' /\ Killed' = Killed /\ Stuck' = Stuck
BY Zenon DEF Counted, Killed, Stuck, Writer

\* Another child is killed.
LEMMA ChildIsKilled ==
    ASSUME TypeOK, Counted, RoomForOrphan,
           NEW kind \in Kinds, NEW gone \in BOOLEAN, NEW done \in BOOLEAN,
           orphans' = Orphan(kind, gone, done), unsettled' = unsettled + 1
    PROVE  /\ Counted' /\ orphans' \in SUBSET Orphans
           /\ (Killed' = {}) <=> (Killed = {} /\ ~(kind = "add" /\ ~done))
           /\ Stuck' <=> Stuck \/ gone
<1>1. PICK i \in 1 .. MaxOrphans : \A o \in orphans : o.id # i
    BY FreshOrphan, Zenon
<1> DEFINE id == CHOOSE j \in 1 .. MaxOrphans : \A o \in orphans : o.id # j
           new == [id |-> id, kind |-> kind, lost |-> gone, done |-> done]
<1>2. id \in 1 .. MaxOrphans /\ \A o \in orphans : o.id # id
    BY <1>1, Zenon
<1>3. orphans' = orphans \cup {new}
    BY Zenon DEF Orphan
<1>4. new.id = id /\ new.kind = kind /\ new.lost = gone /\ new.done = done
    BY Zenon
<1> HIDE DEF id
<1>5. new \in Orphans
    BY <1>2, BoundsAssumption DEF Orphans
<1> HIDE DEF new
<1>6. new \notin orphans
    BY <1>2, <1>4, Zenon
<1>7. Counted'
    <2>1. IsFiniteSet(orphans') /\ Cardinality(orphans') = Cardinality(orphans) + 1
        BY <1>3, <1>6, FS_AddElement DEF Counted
    <2>2. \A o, p \in orphans' : o.id = p.id => o = p
        BY <1>2, <1>3, <1>4, Zenon DEF Counted
    <2> QED BY <2>1, <2>2, Zenon DEF Counted
<1>8. orphans' \in SUBSET Orphans
    BY <1>3, <1>5, Zenon DEF TypeOK, Shapes
<1>9. (Killed' = {}) <=> (Killed = {} /\ ~(kind = "add" /\ ~done))
    BY <1>3, <1>4, Zenon DEF Killed, Writer
<1>10. Stuck' <=> Stuck \/ gone
    BY <1>3, <1>4, Zenon DEF Stuck
<1> QED BY <1>7, <1>8, <1>9, <1>10, Zenon

\* A killed child acts: only a writer can bring the address back.
LEMMA KilledChildActs ==
    ASSUME TypeOK, Counted, OrphanActs
    PROVE  /\ Counted' /\ orphans' \in SUBSET Orphans /\ addr' \in BOOLEAN
           /\ Killed = {} => Killed' = {} /\ (addr' => addr)
           /\ Stuck' <=> Stuck
<1>1. PICK o \in orphans : /\ ~o.done
                           /\ orphans' = (orphans \ {o}) \cup {[o EXCEPT !.done = TRUE]}
                           /\ addr' = EffectOn(o.kind)
                           /\ unsettled' = unsettled
    BY Zenon DEF OrphanActs
<1> DEFINE new == [o EXCEPT !.done = TRUE]
<1>2. o \in Orphans
    BY Zenon DEF TypeOK, Shapes
<1>3. new \in Orphans /\ new.id = o.id /\ new.kind = o.kind /\ new.lost = o.lost /\ new.done
    BY <1>2, Zenon DEF Orphans
<1>4. orphans' = (orphans \ {o}) \cup {new}
    BY <1>1, Zenon
<1> HIDE DEF new
<1>5. new \notin orphans \ {o}
    BY <1>3, Zenon DEF Counted
<1>6. Counted'
    <2>1. IsFiniteSet(orphans \ {o}) /\ Cardinality(orphans \ {o}) = Cardinality(orphans) - 1
        BY FS_RemoveElement, Zenon DEF Counted
    <2>2. IsFiniteSet(orphans') /\ Cardinality(orphans') = Cardinality(orphans \ {o}) + 1
        BY <1>4, <1>5, <2>1, FS_AddElement, Zenon
    <2>3. Cardinality(orphans) \in Nat
        BY FS_CardinalityType, Zenon DEF Counted
    <2>4. \A p, q \in orphans' : p.id = q.id => p = q
        BY <1>3, <1>4 DEF Counted
    <2> QED BY <1>1, <2>1, <2>2, <2>3, <2>4 DEF Counted
<1>7. orphans' \in SUBSET Orphans
    BY <1>3, <1>4, Zenon DEF TypeOK, Shapes
<1>8. Killed = {} => Killed' = {} /\ o.kind # "add"
    BY <1>1, <1>3, <1>4, Zenon DEF Killed, Writer
<1>9. Stuck' <=> Stuck
    BY <1>3, <1>4, Zenon DEF Stuck
<1>10. addr' \in BOOLEAN /\ (o.kind # "add" => (addr' => addr))
    BY <1>1, <1>2, Zenon DEF EffectOn, TypeOK, Flags, Orphans, Kinds
<1> QED BY <1>6, <1>7, <1>8, <1>9, <1>10, Zenon

\* A killed child is reaped: the count goes down with the set.
LEMMA KilledChildIsReaped ==
    ASSUME TypeOK, Counted, OrphanReaped
    PROVE  /\ Counted' /\ orphans' \in SUBSET Orphans /\ unsettled' \in Nat
           /\ Killed = {} => Killed' = {}
           /\ Stuck' <=> Stuck
<1>1. PICK o \in orphans : /\ ~o.lost
                           /\ orphans' = orphans \ {o}
                           /\ unsettled' = unsettled - 1
    BY Zenon DEF OrphanReaped
<1>2. IsFiniteSet(orphans') /\ Cardinality(orphans') = Cardinality(orphans) - 1
    BY <1>1, FS_RemoveElement, Zenon DEF Counted
<1>3. Cardinality(orphans') \in Nat
    BY <1>2, FS_CardinalityType, Zenon
<1>4. Counted' /\ unsettled' \in Nat
    BY <1>1, <1>2, <1>3, Zenon DEF Counted
<1> QED BY <1>1, <1>4, Zenon DEF Killed, Stuck, TypeOK, Shapes

\* A killed child is given up: it stays counted for good.
LEMMA KilledChildIsLost ==
    ASSUME TypeOK, Counted, OrphanLost
    PROVE  /\ Counted' /\ orphans' \in SUBSET Orphans
           /\ Killed = {} => Killed' = {}
           /\ Stuck'
<1>1. PICK o \in orphans : /\ ~o.lost
                           /\ orphans' = (orphans \ {o}) \cup {[o EXCEPT !.lost = TRUE]}
                           /\ unsettled' = unsettled
    BY Zenon DEF OrphanLost
<1> DEFINE new == [o EXCEPT !.lost = TRUE]
<1>2. o \in Orphans
    BY Zenon DEF TypeOK, Shapes
<1>3. new \in Orphans /\ new.id = o.id /\ new.kind = o.kind /\ new.lost /\ new.done = o.done
    BY <1>2, Zenon DEF Orphans
<1>4. orphans' = (orphans \ {o}) \cup {new}
    BY <1>1, Zenon
<1> HIDE DEF new
<1>5. new \notin orphans \ {o}
    BY <1>3, Zenon DEF Counted
<1>6. Counted'
    <2>1. IsFiniteSet(orphans \ {o}) /\ Cardinality(orphans \ {o}) = Cardinality(orphans) - 1
        BY FS_RemoveElement, Zenon DEF Counted
    <2>2. IsFiniteSet(orphans') /\ Cardinality(orphans') = Cardinality(orphans \ {o}) + 1
        BY <1>4, <1>5, <2>1, FS_AddElement, Zenon
    <2>3. Cardinality(orphans) \in Nat
        BY FS_CardinalityType, Zenon DEF Counted
    <2>4. \A p, q \in orphans' : p.id = q.id => p = q
        BY <1>3, <1>4 DEF Counted
    <2> QED BY <1>1, <2>1, <2>2, <2>3, <2>4 DEF Counted
<1>7. orphans' \in SUBSET Orphans
    BY <1>3, <1>4, Zenon DEF TypeOK, Shapes
<1>8. Killed = {} => Killed' = {}
    BY <1>3, <1>4, Zenon DEF Killed, Writer
<1>9. Stuck'
    BY <1>3, <1>4, Zenon DEF Stuck
<1> QED BY <1>6, <1>7, <1>8, <1>9, Zenon

-----------------------------------------------------------------------------
(* The induction.                                                          *)

\* The daemon starts with a clean kernel.
LEMMA Initially == Init => IInv
<1> SUFFICES ASSUME Init PROVE IInv
    BY Zenon
<1>1. orphans = {} /\ Killed = {} /\ ~Stuck
    BY Zenon DEF Init, Killed, Stuck
<1>2. Counted
    BY <1>1, FS_EmptySet, Zenon DEF Init, Counted
<1>3. TypeOK
    BY NoCommandIsCommand, Zenon DEF Init, TypeOK, Numbers, Flags, Shapes, Quiet
<1>4. Clean
    BY <1>1, NoCommandIsCommand, Zenon DEF Init, Clean, RunningWriter, Writer
<1>5. CommandAt
    BY NoCommandIsCommand, Zenon DEF Init, CommandAt, Quiet
<1>6. Ordered /\ Truthful /\ Sampled /\ Tracked /\ Worked
    BY <1>1, <1>4 DEF Init, Ordered, Truthful, Sampled, Tracked, Worked, Binding, Unbinding
<1> QED BY <1>2, <1>3, <1>5, <1>6, Zenon DEF IInv

\* Dropping the caller kills a running child and counts it.
LEMMA Abandoned ==
    ASSUME IInv, Abandon, cmd.phase = "running" => RoomForOrphan
    PROVE  AbandonedChild
<1>0. TypeOK /\ Counted
    BY Zenon DEF IInv
<1>1. CASE cmd.phase = "running"
    <2>1. orphans' = Orphan(cmd.kind, FALSE, cmd.done) /\ unsettled' = unsettled + 1
        BY <1>1, Zenon DEF Abandon
    <2>2. cmd.kind \in Kinds /\ cmd.done \in BOOLEAN /\ unsettled \in Nat
        BY <1>0, <1>1, RunningKind, Zenon DEF TypeOK, Shapes
    <2>3. /\ Counted' /\ orphans' \in SUBSET Orphans
          /\ (Killed' = {}) <=> (Killed = {} /\ ~(cmd.kind = "add" /\ ~cmd.done))
          /\ Stuck' <=> Stuck \/ FALSE
        BY <1>0, <1>1, <2>1, <2>2, ChildIsKilled, Zenon
    <2>4. unsettled' \in Nat
        BY <2>1, <2>2
    <2> QED BY <1>1, <2>3, <2>4, Zenon DEF AbandonedChild, RunningWriter, Writer
<1>2. CASE cmd.phase # "running"
    <2>1. orphans' = orphans /\ unsettled' = unsettled
        BY <1>2, Zenon DEF Abandon
    <2>2. Counted' /\ Killed' = Killed /\ Stuck' = Stuck
        BY <1>0, <2>1, ChildrenStay, Zenon
    <2>3. orphans' \in SUBSET Orphans /\ unsettled' \in Nat
        BY <1>0, <2>1 DEF TypeOK, Shapes
    <2> QED BY <1>2, <2>2, <2>3, Zenon DEF AbandonedChild, RunningWriter
<1> QED BY <1>1, <1>2, Zenon

\* The invariant depends on the variables only.
LEMMA StutterStep ==
    ASSUME IInv, UNCHANGED vars
    PROVE  IInv'
<1> USE DEF vars, store, tracking, children, sampled, memory
<1>0. /\ Counted /\ Numbers /\ Flags /\ Shapes
      /\ CommandAt /\ Ordered /\ Truthful /\ Sampled /\ Tracked /\ Worked
    BY Zenon DEF IInv, TypeOK
<1>1. Counted' /\ Killed' = Killed /\ Stuck' = Stuck
    BY <1>0, ChildrenStay, Zenon
<1>2. Clean' = Clean
    BY <1>1, Zenon DEF Clean, RunningWriter, Writer
<1>3. Numbers' /\ Ordered' /\ Shapes'
    BY <1>0, Zenon DEF Numbers, Ordered, Shapes
<1>4. Flags'
    BY <1>0 DEF Flags
<1>5. CommandAt'
    BY <1>0, Zenon DEF CommandAt
<1>6. Worked'
    BY <1>0, Zenon DEF Worked
<1>7. Sampled'
    BY <1>0, <1>1, Zenon DEF Sampled
<1>8. Tracked'
    BY <1>0, <1>1, <1>2, Zenon DEF Tracked
<1>9. Truthful'
    BY <1>0, <1>2, Zenon DEF Truthful
<1> QED BY <1>1, <1>3, <1>4, <1>5, <1>6, <1>7, <1>8, <1>9, Zenon DEF IInv, TypeOK

\* The actions that leave the killed children alone.
Calm ==
    \/ Cluster \/ CommandActs \/ CommandEnds
    \/ \E read \in BOOLEAN : Observe(read)
    \/ Idle \/ Claim \/ MarkAddress \/ AddAddress \/ MarkFails \/ AddFails
    \/ UndoFirstBind \/ UndoEnds \/ BindDone
    \/ Unbind \/ DeleteEnds \/ UnmarkEnds \/ Unbound \/ Publish \/ PublishFails
    \/ StopCleanup \/ StopUnbound \/ Handoff

\* Those actions do leave them alone.
LEMMA CalmChildren == Calm => UNCHANGED <<orphans, unsettled>>
BY Zenon DEF Calm, Cluster, Reassign, Apply, LateRelease, CommandActs, CommandEnds, Observe,
   Idle,
   Claim, MarkAddress, AddAddress, MarkFails, AddFails, UndoFirstBind, UndoEnds, BindFails,
   BindDone, Unbind, DeleteEnds, UnbindFails, UnmarkEnds, Unbound, Publish, PublishFails,
   StopCleanup, StopUnbound, Handoff, children

\* They preserve the invariant.
LEMMA CalmStep ==
    ASSUME IInv, Calm
    PROVE  IInv'
<1>1. Counted' /\ Killed' = Killed /\ Stuck' = Stuck
    BY CalmChildren, ChildrenStay, Zenon DEF IInv
<1>2. Settled => Killed = {} /\ ~Stuck
    BY SettledIsEmpty, Zenon DEF IInv
<1>3. CASE DeleteEnds
    BY <1>1, <1>2, <1>3, DeleteSucceedsStep, UnbindFailsStep, Zenon DEF DeleteEnds
<1>4. CASE UnmarkEnds
    BY <1>1, <1>2, <1>4, UnmarkSucceedsStep, UnbindFailsStep, Zenon DEF UnmarkEnds
<1>5. CASE Cluster \/ CommandActs \/ CommandEnds
    BY <1>1, <1>2, <1>5, ReassignStep, ApplyStep, LateReleaseStep, CommandActsStep,
       CommandEndsStep, Zenon DEF Cluster
<1>6. CASE (\E read \in BOOLEAN : Observe(read)) \/ Idle \/ Claim \/ MarkAddress \/ AddAddress
    BY <1>1, <1>2, <1>6, ObserveStep, IdleStep, ClaimStep, MarkAddressStep, AddAddressStep,
       Zenon
<1>7. CASE MarkFails \/ AddFails \/ UndoFirstBind \/ UndoEnds \/ BindDone \/ Unbind
    BY <1>1, <1>2, <1>7, MarkFailsStep, AddFailsStep, UndoFirstBindStep, UndoEndsStep,
       BindDoneStep, UnbindStep, Zenon
<1>8. CASE Unbound \/ Publish \/ PublishFails \/ StopCleanup \/ StopUnbound \/ Handoff
    BY <1>1, <1>2, <1>8, UnboundStep, PublishStep, PublishFailsStep, StopCleanupStep,
       StopUnboundStep, HandoffStep, Zenon
<1> QED BY <1>3, <1>4, <1>5, <1>6, <1>7, <1>8, Zenon DEF Calm

\* Every step preserves the invariant.
LEMMA Inductive == IInv /\ [Next]_vars => IInv'
<1> SUFFICES ASSUME IInv, [Next]_vars
             PROVE  IInv'
    BY Zenon
<1>0. TypeOK /\ Counted
    BY Zenon DEF IInv
<1>1. CASE Calm
    BY <1>1, CalmStep, Zenon
<1>2. CASE OrphanActs
    BY <1>0, <1>2, KilledChildActs, OrphanActsStep, Zenon DEF OrphanActs
<1>3. CASE OrphanReaped
    BY <1>0, <1>3, KilledChildIsReaped, OrphanReapedStep, Zenon DEF OrphanReaped
<1>4. CASE OrphanLost
    BY <1>0, <1>4, KilledChildIsLost, OrphanLostStep, Zenon DEF OrphanLost
<1>5. CASE CommandLost
    <2>1. cmd.phase = "running" /\ RoomForOrphan
          /\ orphans' = Orphan(cmd.kind, TRUE, cmd.done) /\ unsettled' = unsettled + 1
        BY <1>5, Zenon DEF CommandLost
    <2>2. /\ Counted' /\ orphans' \in SUBSET Orphans
          /\ (Killed' = {}) <=> (Killed = {} /\ ~(cmd.kind = "add" /\ ~cmd.done))
          /\ Stuck' <=> Stuck \/ TRUE
        BY <1>0, <2>1, RunningKind, ChildIsKilled, Zenon
    <2> QED BY <1>5, <2>2, CommandLostStep, Zenon DEF Writer
<1>6. CASE Cancel
    BY <1>6, Abandoned, RunningKind, CancelStep, ZenonT(30) DEF Cancel
<1>7. CASE Stop
    BY <1>7, Abandoned, RunningKind, StopStep, ZenonT(30) DEF Stop
<1>8. CASE UNCHANGED vars
    BY <1>8, StutterStep, Zenon
<1> QED BY <1>1, <1>2, <1>3, <1>4, <1>5, <1>6, <1>7, <1>8, Zenon DEF Next, Cluster, Child,
       Worker, Calm

-----------------------------------------------------------------------------
(* The theorems.                                                           *)

\* The inductive invariant holds in every reachable state.
THEOREM Invariance == Spec => []IInv
BY Initially, Inductive, PTL DEF Spec

\* An acknowledged release is true and stays true, for any number of
\* generations, killed children, cancellations and late submissions
\* (worker.rs:94-123, main.rs:127-149).
THEOREM ReleasesAreTruthful == Spec => []ReleaseIsTruthful
<1>1. IInv => ReleaseIsTruthful
    BY DEF IInv, Truthful, Clean, RunningWriter, ReleaseIsTruthful
<1> QED BY <1>1, Invariance, PTL

\* Once the killed commands are settled, every address on the kernel is one
\* the next cleanup deletes (vip.rs:249-256, 464-473).
THEOREM AddressesAreTracked == Spec => []AddressIsTracked
<1>1. IInv => AddressIsTracked
    BY SettledIsEmpty DEF IInv, Tracked, Clean, AddressIsTracked
<1> QED BY <1>1, Invariance, PTL

=============================================================================
