----------------------- MODULE AdmissionLease_proofs -----------------------
(***************************************************************************)
(* OneGenesisAtATime for any number of members, any lease length, any      *)
(* clock ratio, any number of restarts and of concurrent rounds.           *)
(***************************************************************************)
EXTENDS AdmissionLease, FiniteSetTheorems, TLAPS

\* What the lease argument needs besides the backing of claims: an unexpired
\* permission is active and granted by a majority, a verified round has one,
\* and neither outlives the consumer use it started from.
PermissionShape(p) ==
    /\ p.stage \in {"quarantined", "sealed"} => p.left = 0
    /\ p.left > 0 => IsMajority(p.by)
    /\ p.left <= ConsumerUse

RoundShape(r) ==
    /\ r.phase = "verified" => IsMajority(Physical(r.grants))
    /\ r.left <= ConsumerUse

LeaseShape == \A n \in Nodes : PermissionShape(permission[n]) /\ RoundShape(round[n])

LeaseInv == TypeOK /\ LeaseShape /\ AuthorityIsBacked

-----------------------------------------------------------------------------
(* Arithmetic of the deadlines.                                            *)

\* Multiplication by a natural number is monotone.
LEMMA TimesMonotone ==
    ASSUME NEW r \in Nat, NEW a \in Nat, NEW b \in Nat, a <= b
    PROVE  r * a <= r * b /\ r * a \in Nat /\ r * b \in Nat
  OBVIOUS

\* Positive factors have a positive product.
LEMMA TimesPositive ==
    ASSUME NEW r \in Nat \ {0}, NEW a \in Nat \ {0}
    PROVE  r * a > 0
  OBVIOUS

\* In one tick a claim loses at least 1 and its issuer's timer at most Ratio.
LEMMA TimesElapsed ==
    ASSUME NEW r \in Nat \ {0}, NEW a \in Nat, NEW e \in 1 .. r, NEW d \in 1 .. r,
           NEW t \in Nat, a > d, r * a <= t
    PROVE  t > e /\ r * (a - d) <= t - e
  OBVIOUS

\* The durations are positive, and the quarantine covers a reservation.
LEMMA Durations ==
    /\ IssuerReservation \in Nat /\ RestartQuarantine \in Nat
    /\ \A l \in 0 .. ConsumerUse :
         Ratio * l <= IssuerReservation /\ Ratio * l <= RestartQuarantine
  BY RatioAssumption, ConsumerUseAssumption DEF IssuerReservation, RestartQuarantine

-----------------------------------------------------------------------------
(* Claims.                                                                 *)

\* The components of a claim have their types.
LEMMA ClaimTypes ==
    ASSUME TypeOK, NEW c \in Claims
    PROVE  /\ Left(c) \in Nat
           /\ By(c) \subseteq Nodes
  BY DEF TypeOK, Permissions, Rounds, Claims, Left, By, Physical, Replicas

\* No claim lasts longer than one consumer use.
LEMMA ClaimBound ==
    ASSUME TypeOK, LeaseShape, NEW c \in Claims
    PROVE  Left(c) \in 0 .. ConsumerUse
  BY ConsumerUseAssumption DEF TypeOK, Permissions, Rounds, LeaseShape, PermissionShape, RoundShape, Claims, Left

\* Backed in the next state, for a genesis and a time of this one.
StaysBacked(i, g, left) ==
    \/ reservation'[i].genesis = g /\ Ratio * left <= reservation'[i].left
    \/ Ratio * left <= quarantine'[i]

\* A step in which every claim is new, expired or inherited, and in which what
\* was backed stays backed, keeps all claims backed.
LEMMA Inherit ==
    ASSUME TypeOK, LeaseShape, AuthorityIsBacked,
           \A c \in Claims : \/ Left(c)' = 0
                             \/ By(c)' = {}
                             \/ \E e \in Claims : /\ Left(c)' = Left(e)
                                                 /\ Gen(c)' = Gen(e)
                                                 /\ By(c)' = By(e),
           \A c \in Claims : \A i \in By(c) :
               (Left(c) > 0 /\ Backed(i, Gen(c), Left(c))) => StaysBacked(i, Gen(c), Left(c))
    PROVE  AuthorityIsBacked'
  <1>1. ASSUME NEW c \in Claims, Left(c)' > 0, By(c)' # {}
        PROVE  \E e \in Claims : /\ Left(c)' = Left(e) /\ Gen(c)' = Gen(e) /\ By(c)' = By(e)
    BY <1>1
  <1>2. ASSUME NEW c \in Claims, Left(c)' > 0, NEW i \in By(c)'
        PROVE  Backed(i, Gen(c), Left(c))'
    <2>1. PICK e \in Claims : Left(c)' = Left(e) /\ Gen(c)' = Gen(e) /\ By(c)' = By(e)
      BY <1>1, <1>2, Zenon
    <2>2. Backed(i, Gen(e), Left(e))
      BY <1>2, <2>1, Zenon DEF AuthorityIsBacked
    <2>3. StaysBacked(i, Gen(e), Left(e))
      BY <1>2, <2>1, <2>2, Zenon
    <2> QED
      BY <2>1, <2>3, Zenon DEF Backed, StaysBacked
  <1>3. ASSUME NEW c \in Claims, NEW e \in Claims,
               Left(c)' > 0, Left(e)' > 0, By(c)' \cap By(e)' # {}
        PROVE  Gen(c)' = Gen(e)'
    <2>1. PICK c0 \in Claims : Left(c)' = Left(c0) /\ Gen(c)' = Gen(c0) /\ By(c)' = By(c0)
      BY <1>1, <1>3, Zenon
    <2>2. PICK e0 \in Claims : Left(e)' = Left(e0) /\ Gen(e)' = Gen(e0) /\ By(e)' = By(e0)
      BY <1>1, <1>3, Zenon
    <2> QED
      BY <1>3, <2>1, <2>2, Zenon DEF AuthorityIsBacked
  <1> QED
    BY <1>2, <1>3, Zenon DEF AuthorityIsBacked, Claims

\* Making a reservation for g takes nothing from the unexpired claims the
\* issuer already stands behind: they are of g themselves.
LEMMA ReserveKeepsBacking ==
    ASSUME TypeOK, NEW i \in Nodes, NEW g, Reserve(i, g),
           UNCHANGED quarantine, NEW c \in Claims, NEW j \in By(c), Left(c) > 0,
           Backed(j, Gen(c), Left(c))
    PROVE  StaysBacked(j, Gen(c), Left(c)) /\ (j = i => Gen(c) = g)
  <1>1. Left(c) \in Nat \ {0} /\ j \in Nodes
    BY ClaimTypes
  <1>2. Ratio * Left(c) \in Nat \ {0}
    BY <1>1, TimesPositive, TimesMonotone, RatioAssumption
  <1>3. CASE j # i
    BY <1>1, <1>3, Zenon DEF Reserve, Backed, StaysBacked, TypeOK
  <1>4. CASE j = i
    <2>1. /\ quarantine[i] = 0
          /\ reservation[i].left = 0 \/ reservation[i].genesis = g
          /\ reservation'[i].genesis = g
          /\ reservation'[i].left >= reservation[i].left \/ reservation[i].genesis # g
      BY Durations DEF Reserve, FreeFor, Reserved, TypeOK, Reservations
    <2>2. reservation[i].left \in Nat /\ quarantine[i] \in Nat
          /\ reservation'[i].left \in Nat
      BY Durations, Zenon DEF TypeOK, Reservations, Reserve, Reserved
    <2> DEFINE x == Ratio * Left(c)
    <2>3. reservation[i].genesis = Gen(c) /\ x <= reservation[i].left
      BY <1>2, <1>4, <2>1, <2>2 DEF Backed
    <2>4. Gen(c) = g
      BY <1>2, <2>1, <2>2, <2>3
    <2>5. x \in Nat
      BY <1>2, Zenon
    <2>6. x <= reservation'[i].left
      <3> HIDE DEF x
      <3> QED BY <2>1, <2>2, <2>3, <2>4, <2>5
    <2> QED
      BY <1>4, <2>1, <2>4, <2>6, Zenon DEF StaysBacked
  <1> QED
    BY <1>3, <1>4, Zenon

-----------------------------------------------------------------------------
(* Types.                                                                  *)

\* The physical members of boots are members.
LEMMA PhysicalType == ASSUME NEW S \in SUBSET Replicas PROVE Physical(S) \in SUBSET Nodes
  BY Zenon DEF Physical, Replicas

\* The initial state is well typed.
LEMMA TypeInit == Init => TypeOK
  BY Durations, BoundsAssumption
  DEF Init, TypeOK, Reservations, Permissions, Rounds, NoReservation, Quarantined, NoRound

\* Replacing one field by a value of its type keeps the type of a record.
LEMMA RecordUpdates ==
    /\ \A r \in Rounds : \A ph \in {"bound", "verified"} : [r EXCEPT !.phase = ph] \in Rounds
    /\ \A r \in Rounds : \A g \in SUBSET Replicas : [r EXCEPT !.grants = g] \in Rounds
    /\ \A r \in Rounds : \A l \in Nat : [r EXCEPT !.left = l] \in Rounds
    /\ \A p \in Permissions : [p EXCEPT !.stage = "voting"] \in Permissions
    /\ \A p \in Permissions : \A l \in Nat : [p EXCEPT !.left = l] \in Permissions
    /\ \A r \in Reservations : \A l \in Nat : [r EXCEPT !.left = l] \in Reservations
  BY Zenon DEF Rounds, Permissions, Reservations

\* The fields of well-typed records.
LEMMA FieldTypes ==
    /\ \A r \in Reservations : r.left \in Nat /\ r.genesis \in Geneses \cup {NoGenesis}
    /\ \A p \in Permissions : /\ p.left \in Nat /\ p.genesis \in Geneses \cup {NoGenesis}
                             /\ p.by \in SUBSET Nodes
                             /\ p.stage \in {"quarantined", "joining", "voting", "sealed"}
    /\ \A r \in Rounds : /\ r.left \in Nat /\ r.genesis \in Geneses \cup {NoGenesis}
                        /\ r.grants \in SUBSET Replicas
  BY Zenon DEF Reservations, Permissions, Rounds

\* The constant records are well typed.
LEMMA EmptyRecords ==
    NoReservation \in Reservations /\ Quarantined \in Permissions /\ Sealed \in Permissions
    /\ NoRound \in Rounds
  BY Zenon DEF NoReservation, Quarantined, Sealed, NoRound, Reservations, Permissions, Rounds

\* A new round is well typed.
LEMMA BeginType ==
    ASSUME TypeOK, NEW n \in Nodes, NEW g \in Geneses \cup {NoGenesis},
           NEW mode \in {"cold", "join", "renew"}, NEW phase \in {"begun", "bound"},
           Begin(n, mode, phase, g)
    PROVE  round' \in [Nodes -> Rounds]
  <1>1. [mode |-> mode, phase |-> phase, genesis |-> g, left |-> ConsumerUse, grants |-> {}]
            \in Rounds
    BY ConsumerUseAssumption, Zenon DEF Rounds
  <1> QED
    BY <1>1, Zenon DEF Begin, TypeOK

\* Every step keeps the types; one case per action.
LEMMA TypeNext == TypeOK /\ [Next]_vars => TypeOK'
  <1> SUFFICES ASSUME TypeOK, [Next]_vars PROVE TypeOK'
    BY Zenon
  <1> USE DEF TypeOK
  <1>1. ASSUME NEW n \in Nodes, Enter(n) PROVE TypeOK'
    <2>1. PICK g \in Geneses : Begin(n, "cold", "bound", g) \/ Begin(n, "join", "begun", g)
      BY <1>1, CohortsAssumption, Zenon DEF Enter, Proposable
    <2>2. round' \in [Nodes -> Rounds]
      BY <2>1, BeginType, Zenon
    <2> QED
      BY <1>1, <2>2, Zenon DEF Enter
  <1>2. ASSUME NEW n \in Nodes, Renew(n) PROVE TypeOK'
    <2>1. permission[n].genesis \in Geneses \cup {NoGenesis}
      BY FieldTypes, Zenon
    <2>2. round' \in [Nodes -> Rounds]
      BY <1>2, <2>1, BeginType, Zenon DEF Renew
    <2> QED
      BY <1>2, <2>2, Zenon DEF Renew
  <1>3. ASSUME NEW n \in Nodes, Bind(n) PROVE TypeOK'
    <2>1. [round[n] EXCEPT !.phase = "bound"] \in Rounds
      BY RecordUpdates, Zenon DEF TypeOK
    <2> QED
      BY <1>3, <2>1, Zenon DEF Bind
  <1>4. ASSUME NEW n \in Nodes, NEW g \in Geneses \cup {NoGenesis}, Reserve(n, g)
        PROVE  reservation' \in [Nodes -> Reservations]
    BY <1>4, Durations, Zenon DEF Reserve, Reserved, Reservations
  <1>5. ASSUME NEW n \in Nodes, LateGrant(n) PROVE TypeOK'
    <2>1. PICK g \in Geneses \cup {NoGenesis} : Reserve(n, g)
      BY <1>5, CohortsAssumption, Zenon DEF LateGrant, Proposable
    <2> QED
      BY <1>4, <1>5, <2>1, Zenon DEF LateGrant
  <1>6. ASSUME NEW n \in Nodes, Complete(n) PROVE TypeOK'
    <2>1. [round[n] EXCEPT !.phase = "verified"] \in Rounds
      BY RecordUpdates, Zenon DEF TypeOK
    <2> QED
      BY <1>6, <2>1, Zenon DEF Complete
  <1>7. ASSUME NEW n \in Nodes, Accept(n) PROVE TypeOK'
    <2>1. Physical(round[n].grants) \in SUBSET Nodes
      BY PhysicalType, FieldTypes, Zenon
    <2>2. PICK stage \in {"quarantined", "joining", "voting", "sealed"} : Activate(n, stage)
      BY <1>7, FieldTypes, Zenon DEF Accept
    <2>3. [stage |-> stage, genesis |-> round[n].genesis, left |-> Deadline(n),
           by |-> Physical(round[n].grants)] \in Permissions
      BY <2>1, FieldTypes, Zenon DEF Permissions, Deadline
    <2> QED
      BY <1>7, <2>2, <2>3, EmptyRecords, Zenon DEF Accept, Activate
  <1>8. ASSUME NEW n \in Nodes, MarkPromoted(n) PROVE TypeOK'
    <2>1. [permission[n] EXCEPT !.stage = "voting"] \in Permissions
      BY RecordUpdates, Zenon DEF TypeOK
    <2> QED
      BY <1>8, <2>1, Zenon DEF MarkPromoted
  <1>9. ASSUME NEW n \in Nodes, Seal(n) PROVE TypeOK'
    BY <1>9, EmptyRecords, Zenon DEF Seal
  <1>10. ASSUME NEW n \in Nodes, ApplyGenesis(n) PROVE TypeOK'
    BY <1>10, FieldTypes, Zenon DEF ApplyGenesis
  <1>11. ASSUME NEW n \in Nodes, Restart(n) PROVE TypeOK'
    BY <1>11, Durations, BoundsAssumption, EmptyRecords DEF Restart
  <1>12. ASSUME NEW i \in Nodes, NEW c \in Nodes, Grant(i, c) PROVE TypeOK'
    <2>1. Local(i) \in Replicas
      BY Zenon DEF Local, Replicas
    <2>2. reservation' \in [Nodes -> Reservations]
      BY <1>4, <1>12, Zenon DEF Grant, Rounds
    <2>3. [round[c] EXCEPT !.grants = @ \cup {Local(i)}] \in Rounds
      <3>1. round[c].grants \cup {Local(i)} \in SUBSET Replicas
        BY <2>1, Zenon DEF TypeOK, Rounds
      <3> QED
        BY <3>1, RecordUpdates, Zenon DEF TypeOK
    <2> QED
      BY <1>12, <2>2, <2>3, Zenon DEF Grant
  <1>13. ASSUME Tick PROVE TypeOK'
    <2>1. PICK d \in [Nodes -> 1 .. Ratio] :
              /\ quarantine' = [n \in Nodes |-> Elapsed(quarantine[n], d[n])]
              /\ reservation' = [n \in Nodes |-> ReservationAfter(reservation[n], d[n])]
              /\ permission' = [n \in Nodes |-> PermissionAfter(permission[n], d[n])]
              /\ round' = [n \in Nodes |-> RoundAfter(round[n], d[n])]
      BY <1>13, Zenon DEF Tick
    <2>2. \A n \in Nodes : d[n] \in Nat
      BY RatioAssumption
    <2>3. \A n \in Nodes : Elapsed(quarantine[n], d[n]) \in Nat
      BY <2>2 DEF Elapsed
    <2>4. ASSUME NEW n \in Nodes PROVE ReservationAfter(reservation[n], d[n]) \in Reservations
      <3>1. /\ reservation[n] \in Reservations /\ d[n] \in Nat /\ reservation[n].left \in Nat
        BY <2>2, FieldTypes, Zenon
      <3>2. CASE reservation[n].left > d[n]
        <4>1. [reservation[n] EXCEPT !.left = reservation[n].left - d[n]] \in Reservations
          BY <3>1, <3>2 DEF Reservations
        <4> QED
          BY <3>2, <4>1, Zenon DEF ReservationAfter
      <3> QED
        BY <3>1, <3>2, EmptyRecords, Zenon DEF ReservationAfter
    <2>5. ASSUME NEW n \in Nodes PROVE PermissionAfter(permission[n], d[n]) \in Permissions
      <3>1. /\ permission[n] \in Permissions /\ d[n] \in Nat /\ permission[n].left \in Nat
        BY <2>2, FieldTypes, Zenon
      <3>2. CASE permission[n].left > d[n]
        <4> DEFINE x == permission[n].left - d[n]
        <4>1. x \in Nat
          BY <3>1, <3>2
        <4>2. [permission[n] EXCEPT !.left = x] \in Permissions
          <5> HIDE DEF x
          <5> QED BY <3>1, <4>1, RecordUpdates, Zenon
        <4> QED
          BY <3>2, <4>2, Zenon DEF PermissionAfter
      <3> QED
        BY <3>1, <3>2, EmptyRecords, Zenon DEF PermissionAfter
    <2>6. ASSUME NEW n \in Nodes PROVE RoundAfter(round[n], d[n]) \in Rounds
      <3>1. /\ round[n] \in Rounds /\ d[n] \in Nat /\ round[n].left \in Nat
        BY <2>2, FieldTypes, Zenon
      <3>2. CASE round[n].left > d[n]
        <4> DEFINE x == round[n].left - d[n]
        <4>1. x \in Nat
          BY <3>1, <3>2
        <4>2. [round[n] EXCEPT !.left = x] \in Rounds
          <5> HIDE DEF x
          <5> QED BY <3>1, <4>1, RecordUpdates, Zenon
        <4> QED
          BY <3>2, <4>2, Zenon DEF RoundAfter
      <3> QED
        BY <3>1, <3>2, EmptyRecords, Zenon DEF RoundAfter
    <2> QED
      BY <1>13, <2>1, <2>3, <2>4, <2>5, <2>6, Zenon DEF Tick
  <1>14. CASE UNCHANGED vars
    BY <1>14, Zenon DEF vars
  <1> QED
    BY <1>1, <1>2, <1>3, <1>5, <1>6, <1>7, <1>8, <1>9, <1>10, <1>11, <1>12, <1>13, <1>14, Zenon
    DEF Next

-----------------------------------------------------------------------------
(* The induction step.                                                     *)

\* One more grant adds one physical issuer.
LEMMA PhysicalUnion ==
    ASSUME NEW S, NEW r PROVE Physical(S \cup {r}) = Physical(S) \cup {r[1]}
  BY Zenon DEF Physical

\* No grants, no physical issuers.
LEMMA PhysicalEmpty == Physical({}) = {}
  BY Zenon DEF Physical

\* The empty records have their shape.
LEMMA EmptyShapes ==
    /\ PermissionShape(Quarantined) /\ PermissionShape(Sealed)
    /\ RoundShape(NoRound) /\ NoRound.left = 0
  <1>1. PermissionShape(Quarantined)
    BY ConsumerUseAssumption DEF PermissionShape, Quarantined
  <1>2. PermissionShape(Sealed)
    BY ConsumerUseAssumption DEF PermissionShape, Sealed
  <1>3. RoundShape(NoRound) /\ NoRound.left = 0
    BY ConsumerUseAssumption DEF RoundShape, NoRound
  <1> QED
    BY <1>1, <1>2, <1>3, Zenon

\* A step that changes one permission and one round has to keep their shape.
LEMMA ShapeStep ==
    ASSUME TypeOK, LeaseShape, NEW n \in Nodes, NEW p, NEW r,
           \/ permission' = [permission EXCEPT ![n] = p] /\ PermissionShape(p)
           \/ UNCHANGED permission,
           \/ round' = [round EXCEPT ![n] = r] /\ RoundShape(r)
           \/ UNCHANGED round
    PROVE  LeaseShape'
  <1>1. \A m \in Nodes : PermissionShape(permission'[m])
    BY Zenon DEF TypeOK, LeaseShape
  <1>2. \A m \in Nodes : RoundShape(round'[m])
    BY Zenon DEF TypeOK, LeaseShape
  <1> QED
    BY <1>1, <1>2, Zenon DEF LeaseShape, PermissionShape, RoundShape, IsMajority, Physical

\* Steps that leave the timers alone.
LEMMA UntimedStep ==
    ASSUME TypeOK, LeaseShape, AuthorityIsBacked, UNCHANGED <<quarantine, reservation>>,
           \A c \in Claims : \/ Left(c)' = 0
                             \/ By(c)' = {}
                             \/ \E e \in Claims : /\ Left(c)' = Left(e)
                                                  /\ Gen(c)' = Gen(e)
                                                  /\ By(c)' = By(e)
    PROVE  AuthorityIsBacked'
  <1>1. \A c \in Claims : \A i \in By(c) :
            (Left(c) > 0 /\ Backed(i, Gen(c), Left(c))) => StaysBacked(i, Gen(c), Left(c))
    BY Zenon DEF Backed, StaysBacked
  <1> QED
    BY <1>1, Inherit, Zenon

\* A new round starts without grants, so it claims nothing yet
\* (Enter, Renew).
LEMMA BeginStep ==
    ASSUME LeaseInv, NEW n \in Nodes, NEW mode, NEW phase \in {"begun", "bound"}, NEW g,
           Begin(n, mode, phase, g), UNCHANGED <<quarantine, reservation, permission>>
    PROVE  LeaseShape' /\ AuthorityIsBacked'
  <1> USE DEF LeaseInv
  <1>1. round' = [round EXCEPT ![n] = [mode |-> mode, phase |-> phase, genesis |-> g,
                                       left |-> ConsumerUse, grants |-> {}]]
    BY Zenon DEF Begin
  <1>2. LeaseShape'
    <2> DEFINE r == [mode |-> mode, phase |-> phase, genesis |-> g,
                     left |-> ConsumerUse, grants |-> {}]
    <2>1. RoundShape(r)
      BY ConsumerUseAssumption DEF RoundShape
    <2> QED
      BY <1>1, <2>1, ShapeStep, Zenon
  <1>3. ASSUME NEW c \in Claims
        PROVE  By(c)' = {} \/ (Left(c)' = Left(c) /\ Gen(c)' = Gen(c) /\ By(c)' = By(c))
    BY <1>1, <1>3, PhysicalEmpty, Zenon DEF Claims, Left, Gen, By, TypeOK
  <1> QED
    BY <1>2, <1>3, UntimedStep, Zenon

\* A grant is backed by the reservation made with it, and takes the
\* backing from no other claim (Grant).
LEMMA GrantStep ==
    ASSUME LeaseInv, NEW i \in Nodes, NEW c \in Nodes, Grant(i, c)
    PROVE  LeaseShape' /\ AuthorityIsBacked'
  <1> DEFINE g == round[c].genesis
             mine == <<c, "round">>
  <1> USE DEF LeaseInv
  <1>1. /\ Reserve(i, g)
        /\ round[c].phase = "bound"
        /\ round' = [round EXCEPT ![c].grants = @ \cup {Local(i)}]
        /\ UNCHANGED <<quarantine, permission>>
    BY Zenon DEF Grant
  <1>2. LeaseShape'
    BY <1>1 DEF LeaseShape, PermissionShape, RoundShape, TypeOK, Rounds
  <1>3. ASSUME NEW x \in Claims
        PROVE  /\ Left(x)' = Left(x) /\ Gen(x)' = Gen(x)
               /\ By(x)' = IF x = mine THEN By(x) \cup {i} ELSE By(x)
    <2>1. Physical(round[c].grants \cup {Local(i)}) = Physical(round[c].grants) \cup {i}
      BY PhysicalUnion, Zenon DEF Local
    <2>2. \A n \in Nodes :
              /\ round'[n].left = round[n].left /\ round'[n].genesis = round[n].genesis
              /\ round'[n].grants =
                     IF n = c THEN round[n].grants \cup {Local(i)} ELSE round[n].grants
      BY <1>1, Zenon DEF TypeOK, Rounds
    <2>3. PICK n \in Nodes, k \in {"permission", "round"} : x = <<n, k>>
      BY <1>3 DEF Claims
    <2>4. CASE k = "permission"
      BY <1>1, <2>3, <2>4, Zenon DEF Left, Gen, By
    <2>5. CASE k = "round" /\ n # c
      BY <2>2, <2>3, <2>5, Zenon DEF Left, Gen, By
    <2>6. CASE k = "round" /\ n = c
      <3>1. Physical(round'[c].grants) = Physical(round[c].grants) \cup {i}
        BY <2>1, <2>2, Zenon
      <3>2. x = mine /\ By(x)' = Physical(round'[c].grants) /\ By(x) = Physical(round[c].grants)
        BY <2>3, <2>6, Zenon DEF By
      <3>3. Left(x)' = Left(x) /\ Gen(x)' = Gen(x)
        BY <2>2, <2>3, <2>6, Zenon DEF Left, Gen
      <3>4. By(x)' = By(x) \cup {i}
        BY <3>1, <3>2, Zenon
      <3> QED
        BY <3>2, <3>3, <3>4, Zenon
    <2> QED
      BY <2>3, <2>4, <2>5, <2>6, Zenon
  <1>4. mine \in Claims /\ Gen(mine) = g
    BY Zenon DEF Claims, Gen
  <1>5. ASSUME NEW x \in Claims, Left(x) > 0, NEW j \in By(x)
        PROVE  StaysBacked(j, Gen(x), Left(x)) /\ (j = i => Gen(x) = g)
    <2>1. Backed(j, Gen(x), Left(x))
      BY <1>5, Zenon DEF AuthorityIsBacked
    <2> QED
      BY <1>1, <1>5, <2>1, ReserveKeepsBacking
  <1>6. ASSUME NEW l \in 0 .. ConsumerUse
        PROVE  StaysBacked(i, g, l)
    <2>1. reservation'[i].genesis = g /\ reservation'[i].left >= IssuerReservation
          /\ reservation'[i].left \in Nat
      BY <1>1, Durations, FieldTypes DEF Reserve, Reserved, TypeOK
    <2>2. Ratio * l <= IssuerReservation /\ Ratio * l \in Nat /\ IssuerReservation \in Nat
      BY Durations, RatioAssumption, TimesMonotone, ConsumerUseAssumption
    <2> DEFINE y == Ratio * l
    <2>3. y <= reservation'[i].left
      <3> HIDE DEF y
      <3>1. y <= IssuerReservation /\ y \in Nat /\ IssuerReservation \in Nat
        BY <2>2, Zenon DEF y
      <3> QED BY <2>1, <3>1
    <2> QED
      BY <2>1, <2>3, Zenon DEF StaysBacked
  <1>7. ASSUME NEW x \in Claims, Left(x)' > 0, NEW j \in By(x)'
        PROVE  Backed(j, Gen(x), Left(x))' /\ (j = i => Gen(x) = g)
    <2>1. Left(x) > 0 /\ Left(x) \in 0 .. ConsumerUse
      BY <1>3, <1>7, ClaimBound, Zenon
    <2>2. StaysBacked(j, Gen(x), Left(x)) /\ (j = i => Gen(x) = g)
      <3>1. CASE j \in By(x)
        BY <1>5, <2>1, <3>1, Zenon
      <3>2. CASE j \notin By(x)
        BY <1>3, <1>4, <1>6, <1>7, <2>1, <3>2, Zenon
      <3> QED
        BY <3>1, <3>2, Zenon
    <2> QED
      BY <1>3, <2>2, Zenon DEF Backed, StaysBacked
  <1>8. ASSUME NEW x \in Claims, NEW e \in Claims,
               Left(x)' > 0, Left(e)' > 0, NEW j \in By(x)' \cap By(e)'
        PROVE  Gen(x)' = Gen(e)'
    <2>1. Left(x) > 0 /\ Left(e) > 0 /\ Gen(x)' = Gen(x) /\ Gen(e)' = Gen(e)
      BY <1>3, <1>8, Zenon
    <2>2. CASE j = i
      BY <1>7, <1>8, <2>1, <2>2, Zenon
    <2>3. CASE j # i
      <3>1. j \in By(x) /\ j \in By(e)
        BY <1>3, <1>8, <2>3
      <3> QED
        BY <2>1, <3>1, Zenon DEF AuthorityIsBacked
    <2> QED
      BY <2>2, <2>3, Zenon
  <1>9. AuthorityIsBacked'
    BY <1>7, <1>8 DEF AuthorityIsBacked, Claims
  <1> QED
    BY <1>2, <1>9, Zenon

\* A claim loses at least one unit in a tick and what backs it at most
\* Ratio units, so backing outlasts the claim (Tick).
LEMMA TickStep ==
    ASSUME LeaseInv, Tick
    PROVE  LeaseShape' /\ AuthorityIsBacked'
  <1> USE DEF LeaseInv
  <1>1. PICK d \in [Nodes -> 1 .. Ratio] :
            /\ quarantine' = [n \in Nodes |-> Elapsed(quarantine[n], d[n])]
            /\ reservation' = [n \in Nodes |-> ReservationAfter(reservation[n], d[n])]
            /\ permission' = [n \in Nodes |-> PermissionAfter(permission[n], d[n])]
            /\ round' = [n \in Nodes |-> RoundAfter(round[n], d[n])]
    BY Zenon DEF Tick
  <1>2. \A n \in Nodes : d[n] \in 1 .. Ratio /\ d[n] \in Nat \ {0}
    BY RatioAssumption
  <1>3. ASSUME NEW n \in Nodes
        PROVE  \/ permission'[n].left = 0 /\ permission'[n].stage \in {"quarantined", "sealed"}
               \/ /\ permission[n].left > d[n]
                  /\ permission'[n].left = permission[n].left - d[n]
                  /\ permission'[n].genesis = permission[n].genesis
                  /\ permission'[n].by = permission[n].by
                  /\ permission'[n].stage = permission[n].stage
    BY <1>1, <1>2 DEF PermissionAfter, Sealed, TypeOK, Permissions, LeaseShape, PermissionShape
  <1>4. ASSUME NEW n \in Nodes
        PROVE  \/ round'[n] = NoRound
               \/ /\ round[n].left > d[n]
                  /\ round'[n].left = round[n].left - d[n]
                  /\ round'[n].genesis = round[n].genesis
                  /\ round'[n].grants = round[n].grants
                  /\ round'[n].phase = round[n].phase
    BY <1>1, <1>2 DEF RoundAfter, TypeOK, Rounds
  <1>5. ASSUME NEW n \in Nodes
        PROVE  /\ permission[n].left \in Nat /\ round[n].left \in Nat
               /\ permission[n].left <= ConsumerUse /\ round[n].left <= ConsumerUse
    BY FieldTypes, Zenon DEF TypeOK, LeaseShape, PermissionShape, RoundShape
  <1>6. LeaseShape'
    <2>1. ASSUME NEW n \in Nodes PROVE PermissionShape(permission'[n])
      <3>1. PermissionShape(permission[n]) /\ d[n] \in Nat
        BY <1>2, Zenon DEF LeaseShape
      <3>2. permission[n].left \in Nat /\ permission[n].left <= ConsumerUse
        BY <1>5, Zenon
      <3>3. CASE permission'[n].left = 0
        BY <3>3, ConsumerUseAssumption DEF PermissionShape
      <3>4. CASE permission'[n].left # 0
        <4>1. /\ permission[n].left > d[n]
              /\ permission'[n].left = permission[n].left - d[n]
              /\ permission'[n].by = permission[n].by
              /\ permission'[n].stage = permission[n].stage
          BY <1>3, <3>4, Zenon
        <4>2. permission'[n].left <= ConsumerUse /\ permission[n].left > 0
          BY <3>1, <3>2, <4>1, ConsumerUseAssumption
        <4> QED
          BY <3>1, <4>1, <4>2 DEF PermissionShape
      <3> QED
        BY <3>3, <3>4, Zenon
    <2>2. ASSUME NEW n \in Nodes PROVE RoundShape(round'[n])
      <3>1. RoundShape(round[n]) /\ d[n] \in Nat
        BY <1>2, Zenon DEF LeaseShape
      <3>2. CASE round'[n] = NoRound
        BY <3>2, EmptyShapes, Zenon
      <3>3. CASE round'[n] # NoRound
        BY <1>4, <1>5, <3>1, <3>3, ConsumerUseAssumption DEF RoundShape
      <3> QED
        BY <3>2, <3>3, Zenon
    <2> QED
      BY <2>1, <2>2, Zenon DEF LeaseShape, PermissionShape, RoundShape, IsMajority, Physical
  <1>7. ASSUME NEW c \in Claims, Left(c)' > 0
        PROVE  /\ Left(c) \in Nat /\ Left(c) > d[c[1]] /\ Left(c)' = Left(c) - d[c[1]]
               /\ Gen(c)' = Gen(c) /\ By(c)' = By(c) /\ c[1] \in Nodes
    <2>1. PICK n \in Nodes, k \in {"permission", "round"} : c = <<n, k>>
      BY DEF Claims
    <2>2. CASE k = "permission"
      <3>1. /\ Left(c) = permission[n].left /\ Left(c)' = permission'[n].left
            /\ Gen(c) = permission[n].genesis /\ Gen(c)' = permission'[n].genesis
            /\ By(c) = permission[n].by /\ By(c)' = permission'[n].by /\ c[1] = n
        BY <2>1, <2>2, Zenon DEF Left, Gen, By
      <3>2. permission[n].left \in Nat /\ permission'[n].left # 0
        BY <1>5, <1>7, <3>1
      <3>3. /\ permission[n].left > d[n]
            /\ permission'[n].left = permission[n].left - d[n]
            /\ permission'[n].genesis = permission[n].genesis
            /\ permission'[n].by = permission[n].by
        BY <1>3, <3>2, Zenon
      <3> QED
        BY <3>1, <3>2, <3>3, Zenon
    <2>3. CASE k = "round"
      <3>1. /\ Left(c) = round[n].left /\ Left(c)' = round'[n].left
            /\ Gen(c) = round[n].genesis /\ Gen(c)' = round'[n].genesis
            /\ By(c) = Physical(round[n].grants) /\ By(c)' = Physical(round'[n].grants)
            /\ c[1] = n
        BY <2>1, <2>3, Zenon DEF Left, Gen, By
      <3>2. round'[n] # NoRound
        <4>1. round'[n].left # 0
          BY <1>7, <3>1
        <4> QED
          BY <4>1, EmptyShapes, Zenon
      <3>3. /\ round[n].left > d[n]
            /\ round'[n].left = round[n].left - d[n]
            /\ round'[n].genesis = round[n].genesis
            /\ round'[n].grants = round[n].grants
        BY <1>4, <3>2, Zenon
      <3> QED
        BY <1>5, <3>1, <3>3, Zenon
    <2> QED
      BY <2>2, <2>3, Zenon
  <1>8. ASSUME NEW c \in Claims, Left(c)' > 0, NEW i \in By(c)'
        PROVE  Backed(i, Gen(c), Left(c))'
    <2>1. Backed(i, Gen(c), Left(c)) /\ i \in Nodes
      <3>1. Left(c) > 0
        BY <1>2, <1>7, <1>8
      <3> QED
        BY <1>7, <1>8, <3>1, ClaimTypes, Zenon DEF AuthorityIsBacked
    <2> DEFINE a == Left(c)
               e == d[i]
               f == d[c[1]]
    <2>2. a \in Nat /\ a > f /\ e \in 1 .. Ratio /\ f \in 1 .. Ratio /\ Left(c)' = a - f
      BY <1>2, <1>7, <1>8, <2>1, Zenon
    <2>3. CASE reservation[i].genesis = Gen(c) /\ Ratio * a <= reservation[i].left
      <3>1. reservation[i].left \in Nat
        BY <2>1, FieldTypes, Zenon DEF TypeOK
      <3>2. reservation[i].left > e /\ Ratio * (a - f) <= reservation[i].left - e
        BY <2>2, <2>3, <3>1, TimesElapsed, RatioAssumption, Zenon
      <3>3. reservation'[i].genesis = Gen(c) /\ reservation'[i].left = reservation[i].left - e
        BY <1>1, <2>1, <2>3, <3>2 DEF ReservationAfter, TypeOK, Reservations
      <3> QED
        BY <1>7, <1>8, <2>2, <3>2, <3>3, Zenon DEF Backed
    <2>4. CASE Ratio * a <= quarantine[i]
      <3>1. quarantine[i] \in Nat
        BY <2>1, Zenon DEF TypeOK
      <3>2. quarantine[i] > e /\ Ratio * (a - f) <= quarantine[i] - e
        BY <2>2, <2>4, <3>1, TimesElapsed, RatioAssumption, Zenon
      <3>3. quarantine'[i] = quarantine[i] - e
        BY <1>1, <2>1, <3>2, Zenon DEF Elapsed
      <3> QED
        BY <1>7, <1>8, <2>2, <3>2, <3>3, Zenon DEF Backed
    <2> QED
      BY <2>1, <2>3, <2>4, Zenon DEF Backed
  <1>9. ASSUME NEW c \in Claims, NEW e \in Claims,
               Left(c)' > 0, Left(e)' > 0, By(c)' \cap By(e)' # {}
        PROVE  Gen(c)' = Gen(e)'
    <2>1. Left(c) > 0 /\ Left(e) > 0
      BY <1>2, <1>7, <1>9
    <2> QED
      BY <1>7, <1>9, <2>1, Zenon DEF AuthorityIsBacked
  <1> QED
    BY <1>6, <1>8, <1>9, Zenon DEF AuthorityIsBacked, Claims

\* The permission takes over the claim of the verified round (Accept).
LEMMA AcceptStep ==
    ASSUME LeaseInv, NEW n \in Nodes, Accept(n)
    PROVE  LeaseShape' /\ AuthorityIsBacked'
  <1> USE DEF LeaseInv
  <1>1. /\ round[n].phase = "verified" /\ round[n].left > 0
        /\ round' = [round EXCEPT ![n] = NoRound]
        /\ UNCHANGED <<quarantine, reservation>>
    BY Zenon DEF Accept
  <1>2. PICK stage \in {"joining", "voting"} : Activate(n, stage)
    BY Zenon DEF Accept, MayExtend, Authority, Live
  <1>3. /\ permission'[n] = [stage |-> stage, genesis |-> round[n].genesis,
                             left |-> round[n].left, by |-> Physical(round[n].grants)]
        /\ \A m \in Nodes \ {n} : permission'[m] = permission[m]
        /\ \A m \in Nodes \ {n} : round'[m] = round[m]
        /\ round'[n] = NoRound
    BY <1>1, <1>2, Zenon DEF Activate, Deadline, TypeOK
  <1>4. LeaseShape'
    <2> DEFINE p == [stage |-> stage, genesis |-> round[n].genesis,
                     left |-> round[n].left, by |-> Physical(round[n].grants)]
    <2>1. RoundShape(round[n])
      BY Zenon DEF LeaseShape
    <2>2. PermissionShape(p)
      BY <1>1, <2>1, Zenon DEF RoundShape, PermissionShape
    <2>3. permission' = [permission EXCEPT ![n] = p]
      BY <1>2, Zenon DEF Activate, Deadline
    <2> QED
      BY <1>1, <2>2, <2>3, EmptyShapes, ShapeStep, Zenon
  <1>5. ASSUME NEW c \in Claims
        PROVE  Left(c)' = 0 \/ \E e \in Claims : /\ Left(c)' = Left(e) /\ Gen(c)' = Gen(e)
                                                 /\ By(c)' = By(e)
    <2>1. PICK m \in Nodes, k \in {"permission", "round"} : c = <<m, k>>
      BY DEF Claims
    <2>2. CASE m # n
      BY <1>3, <2>1, <2>2, Zenon DEF Left, Gen, By
    <2>3. CASE m = n /\ k = "round"
      <3>1. Left(c)' = round'[n].left
        BY <2>1, <2>3, Zenon DEF Left
      <3>2. round'[n] = NoRound
        BY <1>3, Zenon
      <3> QED
        BY <3>1, <3>2, EmptyShapes, Zenon
    <2>4. CASE m = n /\ k = "permission"
      <3>1. <<n, "round">> \in Claims
        BY Zenon DEF Claims
      <3>2. /\ Left(c)' = permission'[n].left /\ Gen(c)' = permission'[n].genesis
            /\ By(c)' = permission'[n].by
        BY <2>1, <2>4, Zenon DEF Left, Gen, By
      <3>3. /\ Left(<<n, "round">>) = round[n].left /\ Gen(<<n, "round">>) = round[n].genesis
            /\ By(<<n, "round">>) = Physical(round[n].grants)
        BY Zenon DEF Left, Gen, By
      <3>4. /\ permission'[n].left = round[n].left /\ permission'[n].genesis = round[n].genesis
            /\ permission'[n].by = Physical(round[n].grants)
        <4>1. permission'[n] = [stage |-> stage, genesis |-> round[n].genesis,
                                left |-> round[n].left, by |-> Physical(round[n].grants)]
          BY <1>3, Zenon
        <4> QED
          BY <4>1
      <3> DEFINE e == <<n, "round">>
      <3>5. Left(c)' = Left(e) /\ Gen(c)' = Gen(e) /\ By(c)' = By(e) /\ e \in Claims
        BY <3>1, <3>2, <3>3, <3>4, Zenon
      <3> HIDE DEF e
      <3> QED
        BY <3>5, Zenon
    <2> QED
      BY <2>2, <2>3, <2>4, Zenon
  <1> QED
    BY <1>1, <1>4, <1>5, UntimedStep, Zenon

\* A restarted issuer is quarantined for longer than what it granted
\* can last, and its own claims are gone (Restart).
LEMMA RestartStep ==
    ASSUME LeaseInv, NEW n \in Nodes, Restart(n)
    PROVE  LeaseShape' /\ AuthorityIsBacked'
  <1> USE DEF LeaseInv
  <1>1. LeaseShape'
    BY EmptyShapes, ShapeStep, Zenon DEF Restart
  <1>2. ASSUME NEW c \in Claims
        PROVE  Left(c)' = 0 \/ (Left(c)' = Left(c) /\ Gen(c)' = Gen(c) /\ By(c)' = By(c))
    BY Zenon DEF Restart, Claims, Left, Gen, By, Quarantined, NoRound, TypeOK
  <1>3. ASSUME NEW c \in Claims, NEW i \in By(c), Left(c) > 0, Backed(i, Gen(c), Left(c))
        PROVE  StaysBacked(i, Gen(c), Left(c))
    <2>1. i \in Nodes /\ Left(c) \in 0 .. ConsumerUse
      BY ClaimTypes, ClaimBound, Zenon
    <2>2. CASE i = n
      BY <2>1, <2>2, Durations, Zenon DEF Restart, StaysBacked, TypeOK
    <2>3. CASE i # n
      BY <1>3, <2>1, <2>3, Zenon DEF Restart, StaysBacked, Backed, TypeOK
    <2> QED
      BY <2>2, <2>3, Zenon
  <1> QED
    BY <1>1, <1>2, <1>3, Inherit, Zenon

\* The lease invariant is inductive; one case per action.
LEMMA LeaseInvNext == LeaseInv /\ [Next]_vars => LeaseInv'
  <1> SUFFICES ASSUME LeaseInv, [Next]_vars PROVE LeaseShape' /\ AuthorityIsBacked'
    BY TypeNext, Zenon DEF LeaseInv
  <1> USE DEF LeaseInv
  <1>0. ASSUME UNCHANGED <<permission, round>> PROVE LeaseShape'
    BY <1>0, Zenon DEF LeaseShape, PermissionShape, RoundShape
  <1>1. ASSUME NEW n \in Nodes, Enter(n) PROVE LeaseShape' /\ AuthorityIsBacked'
    BY <1>1, BeginStep, Zenon DEF Enter
  <1>2. ASSUME NEW n \in Nodes, Renew(n) PROVE LeaseShape' /\ AuthorityIsBacked'
    BY <1>2, BeginStep, Zenon DEF Renew
  <1>3. ASSUME NEW n \in Nodes, Bind(n) PROVE LeaseShape' /\ AuthorityIsBacked'
    <2>1. LeaseShape'
      BY <1>3 DEF Bind, LeaseShape, PermissionShape, RoundShape, TypeOK, Rounds
    <2>2. \A c \in Claims : Left(c)' = Left(c) /\ Gen(c)' = Gen(c) /\ By(c)' = By(c)
      BY <1>3 DEF Bind, Claims, Left, Gen, By, TypeOK, Rounds
    <2> QED
      BY <1>3, <2>1, <2>2, UntimedStep, Zenon DEF Bind
  <1>4. ASSUME NEW n \in Nodes, LateGrant(n) PROVE LeaseShape' /\ AuthorityIsBacked'
    <2>1. PICK g : Reserve(n, g)
      BY <1>4, Zenon DEF LateGrant
    <2>2. UNCHANGED <<quarantine, permission, round>>
      BY <1>4, Zenon DEF LateGrant
    <2>3. \A c \in Claims : Left(c)' = Left(c) /\ Gen(c)' = Gen(c) /\ By(c)' = By(c)
      BY <2>2, Zenon DEF Left, Gen, By
    <2>4. \A c \in Claims : \A i \in By(c) :
              (Left(c) > 0 /\ Backed(i, Gen(c), Left(c))) => StaysBacked(i, Gen(c), Left(c))
      BY <2>1, <2>2, ReserveKeepsBacking, Zenon
    <2> QED
      BY <1>0, <2>2, <2>3, <2>4, Inherit, Zenon
  <1>5. ASSUME NEW n \in Nodes, Complete(n) PROVE LeaseShape' /\ AuthorityIsBacked'
    <2>1. LeaseShape'
      BY <1>5 DEF Complete, QuorumOfGrants, LeaseShape, PermissionShape, RoundShape, TypeOK, Rounds
    <2>2. \A c \in Claims : Left(c)' = Left(c) /\ Gen(c)' = Gen(c) /\ By(c)' = By(c)
      BY <1>5 DEF Complete, Claims, Left, Gen, By, TypeOK, Rounds
    <2> QED
      BY <1>5, <2>1, <2>2, UntimedStep, Zenon DEF Complete
  <1>6. ASSUME NEW n \in Nodes, MarkPromoted(n) PROVE LeaseShape' /\ AuthorityIsBacked'
    <2>1. LeaseShape'
      BY <1>6 DEF MarkPromoted, LeaseShape, PermissionShape, RoundShape, TypeOK, Permissions
    <2>2. \A c \in Claims : Left(c)' = Left(c) /\ Gen(c)' = Gen(c) /\ By(c)' = By(c)
      BY <1>6 DEF MarkPromoted, Claims, Left, Gen, By, TypeOK, Permissions
    <2> QED
      BY <1>6, <2>1, <2>2, UntimedStep, Zenon DEF MarkPromoted
  <1>7. ASSUME NEW n \in Nodes, Seal(n) PROVE LeaseShape' /\ AuthorityIsBacked'
    <2>1. LeaseShape'
      BY <1>7, EmptyShapes, ShapeStep, Zenon DEF Seal
    <2>2. \A c \in Claims : \/ Left(c)' = 0
                            \/ Left(c)' = Left(c) /\ Gen(c)' = Gen(c) /\ By(c)' = By(c)
      BY <1>7, Zenon DEF Seal, Sealed, Claims, Left, Gen, By, TypeOK
    <2> QED
      BY <1>7, <2>1, <2>2, UntimedStep, Zenon DEF Seal
  <1>8. ASSUME UNCHANGED <<quarantine, reservation, permission, round>>
        PROVE  LeaseShape' /\ AuthorityIsBacked'
    <2>1. \A c \in Claims : Left(c)' = Left(c) /\ Gen(c)' = Gen(c) /\ By(c)' = By(c)
      BY <1>8, Zenon DEF Left, Gen, By
    <2> QED
      BY <1>0, <1>8, <2>1, UntimedStep, Zenon
  <1>9. ASSUME NEW n \in Nodes, ApplyGenesis(n) PROVE LeaseShape' /\ AuthorityIsBacked'
    BY <1>8, <1>9, Zenon DEF ApplyGenesis
  <1>10. CASE UNCHANGED vars
    BY <1>8, <1>10, Zenon DEF vars
  <1> QED
    BY <1>1, <1>2, <1>3, <1>4, <1>5, <1>6, <1>7, <1>9, <1>10, Zenon,
       AcceptStep, RestartStep, GrantStep, TickStep DEF Next

\* Initially nobody claims anything.
LEMMA LeaseInvInit == Init => LeaseInv
  <1> SUFFICES ASSUME Init PROVE LeaseInv
    BY Zenon
  <1>1. LeaseShape
    BY EmptyShapes, Zenon DEF Init, LeaseShape
  <1>2. \A c \in Claims : Left(c) = 0
    BY Zenon DEF Init, Claims, Left, Quarantined, NoRound
  <1> QED
    BY <1>1, <1>2, TypeInit DEF LeaseInv, AuthorityIsBacked

-----------------------------------------------------------------------------

\* Two live runtimes have majorities behind them, so a member stands behind
\* both and their geneses agree.
LEMMA LeaseInvImpliesOneGenesis == LeaseInv => OneGenesisAtATime
  <1> SUFFICES ASSUME LeaseInv, NEW m \in Nodes, NEW n \in Nodes, Live(m), Live(n)
               PROVE  permission[m].genesis = permission[n].genesis
    BY Zenon DEF OneGenesisAtATime
  <1> USE DEF LeaseInv
  <1>1. IsMajority(permission[m].by) /\ IsMajority(permission[n].by)
    BY Zenon DEF Live, LeaseShape, PermissionShape
  <1>2. permission[m].by \subseteq Nodes /\ permission[n].by \subseteq Nodes
    BY FieldTypes, Zenon DEF TypeOK
  <1>3. permission[m].by \cap permission[n].by # {}
    <2>1. /\ Cardinality(permission[m].by) \in Nat /\ Cardinality(permission[n].by) \in Nat
          /\ Cardinality(Nodes) \in Nat
      BY <1>2, NodesFinite, FS_Subset, FS_CardinalityType, Zenon
    <2>2. Cardinality(permission[m].by) + Cardinality(permission[n].by) > Cardinality(Nodes)
      BY <1>1, <2>1 DEF IsMajority
    <2> QED
      BY <1>2, <2>2, NodesFinite, FS_MajoritiesIntersect, Zenon
  <1>4. <<m, "permission">> \in Claims /\ <<n, "permission">> \in Claims
    BY Zenon DEF Claims
  <1> QED
    BY <1>3, <1>4, Zenon DEF AuthorityIsBacked, Left, Gen, By, Live

\* The variables keep their types along every behaviour.
THEOREM TypeCorrect == Spec => []TypeOK
  BY TypeInit, TypeNext, PTL DEF Spec

\* Every unexpired claim stays backed by its issuers: the inductive invariant.
THEOREM LeasesAreBacked == Spec => []AuthorityIsBacked
  <1>1. LeaseInv => AuthorityIsBacked
    BY Zenon DEF LeaseInv
  <1> QED
    BY <1>1, LeaseInvInit, LeaseInvNext, PTL DEF Spec

\* For every roster, lease length, clock ratio and number of restarts, two
\* runtimes never hold unexpired authority for different geneses.
THEOREM NeverTwoGeneses == Spec => []OneGenesisAtATime
  BY LeaseInvInit, LeaseInvNext, LeaseInvImpliesOneGenesis, PTL DEF Spec

\* No step revives or redirects the permission of a boot that goes on.
LEMMA TerminalStep ==
    ASSUME TypeOK, [Next]_vars, NEW n \in Nodes, boot'[n] = boot[n]
    PROVE  KeepsAuthority(n)
  <1>1. ASSUME permission'[n] = permission[n] PROVE KeepsAuthority(n)
    BY <1>1, Zenon DEF KeepsAuthority
  <1>2. ASSUME UNCHANGED permission PROVE KeepsAuthority(n)
    BY <1>1, <1>2, Zenon
  <1>3. ASSUME NEW m \in Nodes, Accept(m) PROVE KeepsAuthority(n)
    <2>1. CASE m # n
      BY <1>1, <1>3, <2>1, Zenon DEF Accept, Activate, TypeOK
    <2>2. CASE m = n
      <3>1. permission[n].stage # "sealed"
        BY <1>3, <2>2, Zenon DEF Accept, MayAdmit, MayExtend, Authority, Live
      <3>2. CASE MayAdmit(n)
        BY <3>1, <3>2, Zenon DEF MayAdmit, Live, KeepsAuthority
      <3>3. CASE ~MayAdmit(n)
        <4>1. permission[n].genesis = round[n].genesis /\ Activate(n, permission[n].stage)
          BY <1>3, <2>2, <3>3, Zenon DEF Accept, MayExtend, Authority
        <4>2. /\ permission'[n].genesis = permission[n].genesis
              /\ permission'[n].stage = permission[n].stage
          BY <4>1, Zenon DEF Activate, TypeOK
        <4> QED
          BY <3>1, <4>2, Zenon DEF KeepsAuthority
      <3> QED
        BY <3>2, <3>3, Zenon
    <2> QED
      BY <2>1, <2>2, Zenon
  <1>4. ASSUME NEW m \in Nodes, MarkPromoted(m) PROVE KeepsAuthority(n)
    BY <1>4, Zenon DEF MarkPromoted, KeepsAuthority, TypeOK, Permissions
  <1>5. ASSUME NEW m \in Nodes, Seal(m) PROVE KeepsAuthority(n)
    BY <1>5, Zenon DEF Seal, Sealed, KeepsAuthority, TypeOK
  <1>6. ASSUME NEW m \in Nodes, Restart(m) PROVE KeepsAuthority(n)
    <2>1. m # n
      BY <1>6 DEF Restart, TypeOK
    <2> QED
      BY <1>1, <1>6, <2>1, Zenon DEF Restart, TypeOK
  <1>7. ASSUME Tick PROVE KeepsAuthority(n)
    BY <1>7 DEF Tick, PermissionAfter, Sealed, Live, KeepsAuthority, TypeOK, Permissions
  <1> QED
    BY <1>2, <1>3, <1>4, <1>5, <1>6, <1>7, Zenon
    DEF Next, vars, Enter, Renew, Bind, LateGrant, Complete, ApplyGenesis, Grant

\* A sealed runtime never acts again, and live authority never changes hands.
THEOREM SealingIsTerminal == Spec => PermissionIsTerminal
  <1>1. TypeOK /\ [Next]_vars => [\A n \in Nodes : boot'[n] = boot[n] => KeepsAuthority(n)]_vars
    BY TerminalStep, Zenon
  <1> QED
    BY <1>1, TypeInit, TypeNext, PTL DEF Spec, PermissionIsTerminal
=============================================================================
