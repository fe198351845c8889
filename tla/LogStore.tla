------------------------------- MODULE LogStore -------------------------------
(***************************************************************************)
(* The two storage halves of one replica over one in-memory state: the log *)
(* (store/log.rs) and what the state machine does to it when it applies    *)
(* entries and installs a snapshot (store/state_machine.rs).               *)
(*                                                                         *)
(* OpenRaft is external.  Its core knows the last index it appended and    *)
(* the snapshot it handed over; it calls the log half and the state        *)
(* machine half from two tasks, so entries that follow a snapshot may be   *)
(* appended, and the log purged, before the snapshot is installed.         *)
(***************************************************************************)
EXTENDS Integers, FiniteSets

CONSTANTS Term,        \* terms of entries
          MaxIndex     \* bound on indices

ASSUME IndexAssumption == MaxIndex \in Nat /\ Term \subseteq Nat

VARIABLES
    log,           \* index -> term, for the entries held
    purged,        \* index of last_purged_log_id, 0 for none
    committed,     \* index of the saved committed id, 0 for none
    applied,       \* index of last_applied_log
    last,          \* the core's last log index
    arriving,      \* index of a snapshot handed over but not installed, or 0
    live           \* the admission session passes its check

vars == <<log, purged, committed, applied, last, arriving, live>>

\* new_store_inner, once a session is bound
Init ==
    /\ log = [i \in {} |-> 0]
    /\ purged = 0 /\ committed = 0 /\ applied = 0
    /\ last = 0 /\ arriving = 0
    /\ live = TRUE

\* What stays of a log up to an index, and beyond it.
UpTo(l, k) == [i \in {j \in DOMAIN l : j <= k} |-> l[i]]
Beyond(l, k) == [i \in {j \in DOMAIN l : j > k} |-> l[i]]

\* What the state machine stands on, or will once it installed the snapshot.
Done == IF arriving > applied THEN arriving ELSE applied

-----------------------------------------------------------------------------
(* KafLogStore.                                                            *)

\* append of one entry: dropped at or below the purge point, which is seeded
\* when the first entry of an empty log is not the first of all.  A plausible
\* slip: the entry after the purge point is dropped too.
AppendAbovePurge(t) ==
    LET i == last + 1
    IN /\ live /\ i <= MaxIndex
       /\ log' = IF purged > 0 /\ i <= purged + 1 THEN log
                 ELSE [j \in DOMAIN log \union {i} |-> IF j = i THEN t ELSE log[j]]
       /\ purged' = IF purged = 0 /\ DOMAIN log = {} /\ i > 1 THEN i - 1 ELSE purged
       /\ last' = i
       /\ UNCHANGED <<committed, applied, arriving, live>>

AppendEntry(t) ==
    LET i == last + 1
    IN /\ live /\ i <= MaxIndex
       /\ log' = IF purged > 0 /\ i <= purged THEN log
                 ELSE [j \in DOMAIN log \union {i} |-> IF j = i THEN t ELSE log[j]]
       /\ purged' = IF purged = 0 /\ DOMAIN log = {} /\ i > 1 THEN i - 1 ELSE purged
       /\ last' = i
       /\ UNCHANGED <<committed, applied, arriving, live>>

\* truncate_after: the core cuts off entries that are neither committed nor
\* covered by a snapshot.
TruncateAfter(k) ==
    /\ live /\ Done <= k /\ committed <= k /\ k < last
    /\ log' = UpTo(log, k)
    /\ purged' = IF purged > k THEN k ELSE purged
    /\ last' = k
    /\ UNCHANGED <<committed, applied, arriving, live>>

\* purge: the core purges what a snapshot covers.
Purge(k) ==
    /\ live /\ k <= Done /\ purged < k
    /\ log' = Beyond(log, k)
    /\ purged' = k
    /\ UNCHANGED <<committed, applied, last, arriving, live>>

\* save_committed
SaveCommitted(k) ==
    /\ live /\ committed < k /\ k <= last
    /\ committed' = k
    /\ UNCHANGED <<log, purged, applied, last, arriving, live>>

-----------------------------------------------------------------------------
(* KafStateMachine.                                                        *)

\* apply, one entry at a time, each under its own write lock.  A plausible
\* slip: one entry too many.
ApplyPastCommitted ==
    /\ live /\ arriving = 0 /\ applied <= committed /\ applied < MaxIndex
    /\ applied' = applied + 1
    /\ UNCHANGED <<log, purged, committed, last, arriving, live>>

Apply ==
    /\ live /\ arriving = 0 /\ applied < committed
    /\ applied' = applied + 1
    /\ UNCHANGED <<log, purged, committed, last, arriving, live>>

\* The core accepts a snapshot that is ahead of its commits: an entry at its
\* index may stay with those after it, or all that is not committed is cut.
AcceptSnapshot(n) ==
    /\ live /\ arriving = 0 /\ committed < n /\ n <= MaxIndex
    /\ arriving' = n /\ committed' = n
    /\ \/ n <= last /\ UNCHANGED <<log, last, purged>>
       \/ /\ log' = UpTo(log, committed)
          /\ purged' = IF purged > committed THEN committed ELSE purged
          /\ last' = n
    /\ UNCHANGED <<applied, live>>

\* install_snapshot: restore_into, then the entries it covers are removed.
InstallSnapshot ==
    /\ live /\ arriving > 0
    /\ applied' = arriving /\ arriving' = 0
    /\ log' = Beyond(log, arriving)
    /\ purged' = IF purged < arriving THEN arriving ELSE purged
    /\ UNCHANGED <<committed, last, live>>

\* check_mutation denies every call from here on.
Expire == live /\ live' = FALSE /\ UNCHANGED <<log, purged, committed, applied, last, arriving>>

Next ==
    \/ \E t \in Term : AppendEntry(t)
    \/ \E k \in 0 .. MaxIndex :
          TruncateAfter(k) \/ Purge(k) \/ SaveCommitted(k) \/ AcceptSnapshot(k)
    \/ Apply \/ InstallSnapshot \/ Expire

Spec == Init /\ [][Next]_vars

-----------------------------------------------------------------------------
(* What the log half reports.                                              *)

\* get_log_state: the last purged index, derived when the log starts late.
Lowest == CHOOSE i \in DOMAIN log : \A j \in DOMAIN log : i <= j
Highest == CHOOSE i \in DOMAIN log : \A j \in DOMAIN log : i >= j

LastPurged ==
    IF purged > 0 \/ DOMAIN log = {} THEN purged ELSE Lowest - 1

\* read_committed: the purge floor counts only where the log reaches it.
ReadCommitted ==
    LET best == IF committed < applied THEN applied ELSE committed
    IN IF DOMAIN log # {} /\ Highest >= purged /\ best < purged THEN purged ELSE best

\* try_get_log_entries of from .. upto
Entries(from, upto) == {i \in DOMAIN log : from <= i /\ i <= upto}

-----------------------------------------------------------------------------
(* Properties.                                                             *)

TypeOK ==
    /\ DOMAIN log \subseteq 1 .. MaxIndex
    /\ {purged, committed, applied, last, arriving} \subseteq 0 .. MaxIndex
    /\ live \in BOOLEAN

\* The core reads every entry it has yet to apply: whatever the two halves
\* interleave, nothing between the state machine and the last index is lost
\* to a purge, a dropped append or a snapshot (log.rs:171, log.rs:261,
\* state_machine.rs:363), and nothing is held beyond it.
HoldsWhatIsAhead ==
    /\ \A i \in 1 .. MaxIndex : Done < i /\ i <= last => i \in DOMAIN log
    /\ \A i \in DOMAIN log : i <= last
    /\ purged <= Done /\ Done <= committed /\ committed <= last
    /\ arriving > 0 => applied < arriving

\* A core that starts over this state is told of no purge that the state
\* machine has not covered, and asks for nothing that is not there: the
\* entries from the state machine to the reported commit are all served.
StartupReadsAreServed ==
    arriving = 0 =>
        /\ LastPurged <= applied
        /\ Entries(applied + 1, ReadCommitted) = applied + 1 .. ReadCommitted

\* The storage halves implement the log that the core relies on.
Abstract == INSTANCE AbstractLog WITH
    done <- Done,
    last <- last,
    term <- [i \in Done + 1 .. last |-> log[i]]

ImplementsAbstractLog == Abstract!Spec

=============================================================================
