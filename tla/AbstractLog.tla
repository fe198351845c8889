----------------------------- MODULE AbstractLog -----------------------------
(***************************************************************************)
(* What a replica's storage promises its Raft core: a position `done`, up  *)
(* to which the state machine stands, and after it, without a hole, the    *)
(* entries up to `last`, each with the term it was appended with.          *)
(***************************************************************************)
EXTENDS Integers

CONSTANTS Term,        \* terms of entries
          MaxIndex     \* bound on indices

VARIABLES done, last, term

vars == <<done, last, term>>

Init == done = 0 /\ last = 0 /\ term = [i \in 1 .. 0 |-> 0]

\* An entry is added at the end, and no other entry changes.
Extend(t) ==
    /\ last' = last + 1 /\ done' = done
    /\ term' = [i \in done + 1 .. last + 1 |-> IF i = last + 1 THEN t ELSE term[i]]

\* Entries that are not done may be cut off.
CutBack(k) ==
    /\ done <= k /\ k < last
    /\ last' = k /\ done' = done
    /\ term' = [i \in done + 1 .. k |-> term[i]]

\* The state machine passes over entries that are there.
Advance(k) ==
    /\ done < k /\ k <= last
    /\ done' = k /\ last' = last
    /\ term' = [i \in k + 1 .. last |-> term[i]]

\* A snapshot replaces all entries up to n, and all others unless it
\* continues them.
Replace(n) ==
    /\ done < n /\ last' = n /\ done' = n
    /\ term' = [i \in n + 1 .. n |-> 0]

Next ==
    \/ \E t \in Term : Extend(t)
    \/ \E k \in 0 .. MaxIndex : CutBack(k) \/ Advance(k) \/ Replace(k)

Spec == Init /\ [][Next]_vars

=============================================================================
