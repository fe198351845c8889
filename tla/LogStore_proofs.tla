---------------------------- MODULE LogStore_proofs ----------------------------
(***************************************************************************)
(* For every bound on indices: the storage halves hold what is ahead of    *)
(* the state machine, so a core that starts over them is served, and they  *)
(* implement the abstract log.                                             *)
(***************************************************************************)
EXTENDS LogStore, FiniteSetTheorems, WellFoundedInduction, TLAPS

\* The type and the bookkeeping of the indices are what makes
\* HoldsWhatIsAhead inductive.
IInv == TypeOK /\ HoldsWhatIsAhead

LEMMA InitIInv == Init => IInv
  BY IndexAssumption DEF Init, IInv, TypeOK, HoldsWhatIsAhead, Done

LEMMA NextIInv == IInv /\ [Next]_vars => IInv'
  <1> SUFFICES ASSUME IInv, [Next]_vars PROVE IInv'
    BY Zenon
  <1> USE IndexAssumption DEF IInv, TypeOK, HoldsWhatIsAhead, Done
  <1>1. ASSUME NEW t \in Term, AppendEntry(t) PROVE IInv'
    <2>1. DOMAIN log' \in {DOMAIN log, DOMAIN log \cup {last + 1}}
      BY <1>1, Zenon DEF AppendEntry
    <2>2. last + 1 > purged => last + 1 \in DOMAIN log'
      BY <1>1 DEF AppendEntry
    <2>3. TypeOK'
      BY <1>1, <2>1 DEF AppendEntry
    <2>4. HoldsWhatIsAhead'
      BY <1>1, <2>1, <2>2 DEF AppendEntry
    <2> QED
      BY <2>3, <2>4, Zenon
  <1>2. ASSUME NEW k \in 0 .. MaxIndex, TruncateAfter(k) PROVE IInv'
    BY <1>2 DEF TruncateAfter, UpTo
  <1>3. ASSUME NEW k \in 0 .. MaxIndex, Purge(k) PROVE IInv'
    BY <1>3 DEF Purge, Beyond
  <1>4. ASSUME NEW k \in 0 .. MaxIndex, SaveCommitted(k) PROVE IInv'
    BY <1>4 DEF SaveCommitted
  <1>5. ASSUME NEW k \in 0 .. MaxIndex, AcceptSnapshot(k) PROVE IInv'
    BY <1>5 DEF AcceptSnapshot, UpTo
  <1>6. CASE Apply
    BY <1>6 DEF Apply
  <1>7. CASE InstallSnapshot
    BY <1>7 DEF InstallSnapshot, Beyond
  <1>8. CASE Expire
    BY <1>8, Zenon DEF Expire
  <1>9. CASE UNCHANGED vars
    BY <1>9, Zenon DEF vars
  <1> QED
    BY <1>1, <1>2, <1>3, <1>4, <1>5, <1>6, <1>7, <1>8, <1>9, Zenon DEF Next

\* Whatever the log half and the state machine half interleave, the entries
\* that the core has yet to apply are in the log.
THEOREM AheadIsHeld == Spec => []HoldsWhatIsAhead
  <1>1. IInv => HoldsWhatIsAhead
    BY Zenon DEF IInv
  <1> QED
    BY InitIInv, NextIInv, <1>1, PTL DEF Spec

\* A nonempty set of indices has a least one: among the sets of the indices
\* below an index, one has no other strictly inside it.
LEMMA LeastIndex ==
  ASSUME NEW S \in SUBSET (1 .. MaxIndex), S # {}
  PROVE  \E i \in S : \A j \in S : i <= j
  <1> DEFINE Below(i) == {j \in S : j < i}
             T == {Below(i) : i \in S}
  <1>0. S \in SUBSET Nat /\ MaxIndex \in Nat /\ \A i \in S : i <= MaxIndex
    BY IndexAssumption
  <1>1. IsFiniteSet(S)
    BY <1>0, FS_BoundedSetOfNaturals, Zenon
  <1>2. IsWellFoundedOn(StrictSubsetOrdering(S), SUBSET S)
    BY <1>1, FS_StrictSubsetOrderingWellFounded, FS_FiniteSubsetsOfFinite, Zenon
  <1>3. T \subseteq SUBSET S /\ T # {}
    BY Zenon
  <1>4. \E x \in T : \A y \in T : ~(<<y, x>> \in StrictSubsetOrdering(S))
    <2> HIDE DEF T
    <2> QED
      BY <1>2, <1>3, WFMin, Zenon
  <1>5. PICK i \in S : \A j \in S : ~(<<Below(j), Below(i)>> \in StrictSubsetOrdering(S))
    BY <1>4, Zenon
  <1>6. ASSUME NEW j \in S, j < i PROVE FALSE
    <2>1. ASSUME NEW k \in S, k < j PROVE k < i
      BY <1>0, <1>6, <2>1
    <2>2. j \in Below(i) /\ j \notin Below(j)
      BY <1>0, <1>6
    <2>3. <<Below(j), Below(i)>> \in StrictSubsetOrdering(S)
      <3>1. Below(j) \subseteq Below(i)
        BY <2>1, Zenon
      <3> QED
        BY <2>2, <3>1, Zenon DEF StrictSubsetOrdering
    <2> QED
      BY <1>5, <2>3, Zenon
  <1> QED
    BY <1>0, <1>6

LEMMA LowestIsLeast ==
  ASSUME TypeOK, DOMAIN log # {}
  PROVE  Lowest \in DOMAIN log /\ \A j \in DOMAIN log : Lowest <= j
  BY LeastIndex, Zenon DEF TypeOK, Lowest

\* A core that starts over the storage is told of no purge beyond the state
\* machine, and is served every entry up to the reported commit.
THEOREM StartsAreServed == Spec => []StartupReadsAreServed
  <1>1. IInv => StartupReadsAreServed
    <2> SUFFICES ASSUME IInv, arriving = 0
                 PROVE  /\ LastPurged <= applied
                        /\ Entries(applied + 1, ReadCommitted) = applied + 1 .. ReadCommitted
      BY Zenon DEF StartupReadsAreServed
    <2> USE IndexAssumption DEF IInv, TypeOK, HoldsWhatIsAhead, Done
    <2>1. LastPurged <= applied
      <3>1. CASE purged > 0 \/ DOMAIN log = {}
        BY <3>1 DEF LastPurged
      <3>2. CASE ~(purged > 0 \/ DOMAIN log = {})
        <4>1. Lowest \in DOMAIN log /\ \A j \in DOMAIN log : Lowest <= j
          BY <3>2, LowestIsLeast, Zenon
        <4>2. applied < Lowest => applied + 1 \in DOMAIN log
          BY <4>1
        <4> QED
          BY <3>2, <4>1, <4>2 DEF LastPurged
      <3> QED
        BY <3>1, <3>2, Zenon
    <2>2. ReadCommitted = committed
      BY DEF ReadCommitted
    <2>3. Entries(applied + 1, committed) = applied + 1 .. committed
      BY DEF Entries
    <2> QED
      BY <2>1, <2>2, <2>3, Zenon
  <1> QED
    BY InitIInv, NextIInv, <1>1, PTL DEF Spec

-----------------------------------------------------------------------------
(* The refinement: each storage call is a step of the abstract log, or     *)
(* leaves it alone.                                                        *)

LEMMA InitAbstract == Init => Abstract!Init
  BY DEF Init, Done, Abstract!Init

LEMMA NextAbstract == IInv /\ [Next]_vars => [Abstract!Next]_Abstract!vars
  <1> SUFFICES ASSUME IInv, [Next]_vars PROVE [Abstract!Next]_Abstract!vars
    BY Zenon
  <1> USE IndexAssumption DEF IInv, TypeOK, HoldsWhatIsAhead, Done
  <1>1. ASSUME NEW t \in Term, AppendEntry(t) PROVE Abstract!Next
    <2>1. Abstract!Extend(t)
      BY <1>1 DEF AppendEntry, Abstract!Extend
    <2> QED
      BY <2>1, Zenon DEF Abstract!Next
  <1>2. ASSUME NEW k \in 0 .. MaxIndex, TruncateAfter(k) PROVE Abstract!Next
    <2>1. Abstract!CutBack(k)
      BY <1>2 DEF TruncateAfter, UpTo, Abstract!CutBack
    <2> QED
      BY <2>1, Zenon DEF Abstract!Next
  <1>3. ASSUME NEW k \in 0 .. MaxIndex, Purge(k) PROVE UNCHANGED Abstract!vars
    BY <1>3 DEF Purge, Beyond, Abstract!vars
  <1>4. ASSUME NEW k \in 0 .. MaxIndex, SaveCommitted(k) PROVE UNCHANGED Abstract!vars
    BY <1>4, Zenon DEF SaveCommitted, Abstract!vars
  <1>5. ASSUME NEW k \in 0 .. MaxIndex, AcceptSnapshot(k) PROVE Abstract!Next
    <2>1. CASE k <= last /\ UNCHANGED <<log, last, purged>>
      <3>1. Abstract!Advance(k)
        BY <1>5, <2>1 DEF AcceptSnapshot, Abstract!Advance
      <3> QED
        BY <3>1, Zenon DEF Abstract!Next
    <2>2. CASE log' = UpTo(log, committed) /\ last' = k
      <3>1. Abstract!Replace(k)
        BY <1>5, <2>2 DEF AcceptSnapshot, UpTo, Abstract!Replace
      <3> QED
        BY <3>1, Zenon DEF Abstract!Next
    <2> QED
      BY <1>5, <2>1, <2>2, Zenon DEF AcceptSnapshot
  <1>6. CASE Apply
    <2>1. PICK k \in 0 .. MaxIndex : k = applied + 1
      BY <1>6 DEF Apply
    <2>2. Abstract!Advance(k)
      BY <1>6, <2>1 DEF Apply, Abstract!Advance
    <2> QED
      BY <2>2, Zenon DEF Abstract!Next
  <1>7. CASE InstallSnapshot
    BY <1>7 DEF InstallSnapshot, Beyond, Abstract!vars
  <1>8. CASE Expire
    BY <1>8, Zenon DEF Expire, Abstract!vars
  <1>9. CASE UNCHANGED vars
    BY <1>9, Zenon DEF vars, Abstract!vars
  <1> QED
    BY <1>1, <1>2, <1>3, <1>4, <1>5, <1>6, <1>7, <1>8, <1>9, Zenon DEF Next

\* The log that the core relies on is what the storage halves implement.
THEOREM StorageImplementsAbstractLog == Spec => ImplementsAbstractLog
  BY InitIInv, NextIInv, InitAbstract, NextAbstract, PTL
     DEF Spec, ImplementsAbstractLog, Abstract!Spec

=============================================================================
