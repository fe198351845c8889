----------------------------- MODULE StoreReads -----------------------------
(***************************************************************************)
(* What the replicated state machine and the workers that read it have in  *)
(* common: the absent assignment and the freshness of a member's probes.   *)
(***************************************************************************)
EXTENDS Ids

CONSTANT StaleMissed   \* Config: stale_missed_probes

NoTick == -1

NoAssignment ==
    [holder |-> NoNode, generation |-> 0, previous_holder |-> NoNode,
     previous_holder_released |-> FALSE, activation_tick |-> 0]

SaturatingSub(a, b) == IF a > b THEN a - b ELSE 0

IsNodeProbeFresh(t, n) ==
    /\ t.node_probe_ticks[n] # NoTick
    /\ SaturatingSub(t.latest_probe_tick, t.node_probe_ticks[n]) <= StaleMissed

=============================================================================
