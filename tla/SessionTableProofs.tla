------------------------- MODULE SessionTableProofs -------------------------
(* What SessionTable promises for every number of sessions, shards and       *)
(* closers and every cap.                                                    *)
EXTENDS SessionTable, FiniteSetTheorems, TLAPS

\* Every set of sessions is finite.
LEMMA SessionSets ==
  ASSUME NEW S \in SUBSET Session
  PROVE  IsFiniteSet(S) /\ Cardinality(S) \in Nat
BY FiniteSessions, FS_Subset, FS_CardinalityType

\* Adding an element adds at most one.
LEMMA AddOne ==
  ASSUME NEW S, IsFiniteSet(S), NEW x
  PROVE  Cardinality(S \cup {x}) <= Cardinality(S) + 1
<1>1. Cardinality(S) \in Nat
  BY FS_CardinalityType
<1>2. Cardinality(S \cup {x}) = IF x \in S THEN Cardinality(S) ELSE Cardinality(S) + 1
  BY FS_AddElement, Zenon
<1> QED BY <1>1, <1>2

\* A session's route, key and shard exist.
LEMMA RouteTypes ==
  ASSUME NEW s \in Session
  PROVE  /\ Route(s) \in Listener \X Backend
         /\ KeyOf(s) \in Key
         /\ ShardAt(s) \in 0 .. NShards - 1
BY ConstantsAssumption, FlowsAssumption DEF Flow, Route, KeyOf, Key, ShardAt

\* Taking sessions off the routes' counters leaves counters.
LEMMA DeductedType ==
  ASSUME TypeOK, NEW S \in SUBSET Session
  PROVE  Deducted(S) \in [Listener \X Backend -> Int]
<1> SUFFICES ASSUME NEW r \in Listener \X Backend
             PROVE  bcount[r] - Cardinality({s \in S : Route(s) = r}) \in Int
  BY DEF Deducted
<1>1. Cardinality({s \in S : Route(s) = r}) \in Nat
  BY SessionSets
<1> QED BY <1>1 DEF TypeOK

\* What a shard visit of closeWhere unlinks, and what it does with it.
LEMMA CloseShardHit ==
  ASSUME TypeOK, NEW c \in Closer, CloseShard(c)
  PROVE  \E hit \in SUBSET live :
           /\ hit = {s \in Matching(live, sel[c]) : ShardAt(s) = at[c]}
           /\ live' = live \ hit /\ closed' = closed \cup hit
           /\ expired' = expired + Cardinality(hit)
           /\ bcount' = Deducted(hit)
           /\ owed' = [owed EXCEPT ![c] = @ \cup hit]
           /\ at' = [at EXCEPT ![c] = @ + 1] /\ at[c] < NShards
           /\ idle' = idle \ hit
           /\ UNCHANGED <<putVars, removing, sel, before, sweepAt,
                          count, rejected, created, capVars>>
<1> DEFINE hit == {s \in Matching(live, sel[c]) : ShardAt(s) = at[c]}
<1>1. hit \in SUBSET live
  BY DEF Matching
<1> QED BY <1>1, Zenon DEF CloseShard

\* The same of the reaper's visit.
LEMMA SweepHit ==
  ASSUME TypeOK, Sweep
  PROVE  \E hit \in SUBSET live :
           /\ live' = live \ hit /\ closed' = closed \cup hit
           /\ count' = count - Cardinality(hit)
           /\ expired' = expired + Cardinality(hit)
           /\ bcount' = Deducted(hit)
           /\ sweepAt' = SweepNext
           /\ idle' = idle \ hit
           /\ UNCHANGED <<putVars, removing, closerVars,
                          rejected, created, capVars>>
<1> DEFINE hit == {s \in live \cap idle : ShardAt(s) = sweepAt}
<1>1. hit \in SUBSET live
  OBVIOUS
<1> QED BY <1>1, Zenon DEF Sweep

\* Every step of the table leaves it well typed.
LEMMA TypeStep ==
  ASSUME TypeOK, [Next]_vars
  PROVE  TypeOK'
<1> USE DEF TypeOK, Resting, putVars, closerVars, capVars
<1>1. ASSUME NEW s \in Session, PutStep(s) PROVE TypeOK'
  <2>1. CASE PutLoad(s)
    BY <2>1 DEF PutLoad, PutStates
  <2>2. CASE PutReserve(s)
    BY <2>2 DEF PutReserve, PutStates
  <2>3. CASE PutReject(s)
    BY <2>3 DEF PutReject, PutStates
  <2>4. CASE PutInsert(s)
    BY <2>4 DEF PutInsert, PutStates
  <2>5. CASE PutDuplicate(s)
    BY <2>5 DEF PutDuplicate, PutStates
  <2>6. CASE PutAccount(s)
    BY <2>6, RouteTypes DEF PutAccount, PutStates
  <2>7. CASE CloseRefused(s)
    BY <2>7 DEF CloseRefused
  <2> QED BY <1>1, <2>1, <2>2, <2>3, <2>4, <2>5, <2>6, <2>7 DEF PutStep
<1>2. ASSUME NEW k \in Key, RemoveUnlink(k) PROVE TypeOK'
  BY <1>2 DEF RemoveUnlink
<1>3. ASSUME NEW s \in Session, RemoveSettle(s) PROVE TypeOK'
  <2>1. Deducted({s}) \in [Listener \X Backend -> Int]
    BY DeductedType
  <2>2. bcount' \in [Listener \X Backend -> Int]
    BY <1>3, <2>1, Zenon DEF RemoveSettle
  <2>3. /\ removing' = removing \ {s} /\ closed' = closed \cup {s}
        /\ count' = count - 1 /\ expired' = expired + 1
        /\ UNCHANGED <<putVars, live, idle, closerVars, sweepAt,
                       rejected, created, capVars>>
    BY <1>3 DEF RemoveSettle
  <2> QED BY <2>2, <2>3
<1>4. ASSUME NEW c \in Closer, NEW fs \in Selectors, CloseBegin(c, fs)
      PROVE  TypeOK'
  BY <1>4, ConstantsAssumption, FlowsAssumption
  DEF CloseBegin, FirstShard, Matching
<1>5. ASSUME NEW c \in Closer, CloseStep(c) PROVE TypeOK'
  <2>1. CASE CloseShard(c)
    <3>1. PICK hit \in SUBSET live :
            /\ live' = live \ hit /\ closed' = closed \cup hit
            /\ expired' = expired + Cardinality(hit)
            /\ bcount' = Deducted(hit)
            /\ owed' = [owed EXCEPT ![c] = @ \cup hit]
            /\ at' = [at EXCEPT ![c] = @ + 1] /\ at[c] < NShards
            /\ idle' = idle \ hit
            /\ UNCHANGED <<putVars, removing, sel, before, sweepAt,
                           count, rejected, created, capVars>>
      BY <2>1, CloseShardHit, Zenon
    <3>2. Deducted(hit) \in [Listener \X Backend -> Int]
      BY DeductedType
    <3>3. Cardinality(hit) \in Nat
      BY SessionSets
    <3>4. at[c] + 1 \in 0..Resting
      BY <3>1, ConstantsAssumption
    <3> QED BY <3>1, <3>2, <3>3, <3>4
  <2>2. CASE CloseSettle(c)
    BY <2>2, SessionSets, ConstantsAssumption DEF CloseSettle
  <2> QED BY <1>5, <2>1, <2>2 DEF CloseStep
<1>6. CASE Sweep
  <2>1. PICK hit \in SUBSET live :
          /\ live' = live \ hit /\ closed' = closed \cup hit
          /\ count' = count - Cardinality(hit)
          /\ expired' = expired + Cardinality(hit)
          /\ bcount' = Deducted(hit)
          /\ sweepAt' = SweepNext
          /\ idle' = idle \ hit
          /\ UNCHANGED <<putVars, removing, closerVars,
                         rejected, created, capVars>>
    BY <1>6, SweepHit, Zenon
  <2>2. Deducted(hit) \in [Listener \X Backend -> Int]
    BY DeductedType
  <2>3. Cardinality(hit) \in Nat
    BY SessionSets
  <2>4. SweepNext \in 0 .. NShards - 1
    BY ConstantsAssumption DEF SweepNext
  <2> QED BY <2>1, <2>2, <2>3, <2>4
<1>7. ASSUME NEW s \in Session, GoIdle(s) \/ Touch(s) PROVE TypeOK'
  BY <1>7 DEF GoIdle, Touch
<1>8. ASSUME NEW m \in Caps, SetMax(m) PROVE TypeOK'
  BY <1>8 DEF SetMax
<1>9. CASE UNCHANGED vars
  BY <1>9 DEF vars
<1> QED BY <1>1, <1>2, <1>3, <1>4, <1>5, <1>6, <1>7, <1>8, <1>9 DEF Next

\* The initial states of the table are well typed.
LEMMA InitTypes == Init => TypeOK
BY ConstantsAssumption DEF Init, TypeOK, Resting, PutStates

\* Every reachable state of the table is well typed.
THEOREM TypeCorrect == Spec => []TypeOK
<1>1. Init => TypeOK
  BY InitTypes
<1>2. TypeOK /\ [Next]_vars => TypeOK'
  BY TypeStep
<1> QED BY <1>1, <1>2, PTL DEF Spec

-----------------------------------------------------------------------------
(* A session passes to one remover, and its socket with it *)

\* No session is unlinked twice, and a socket is closed exactly when its
\* session was refused or left the table.
LEMMA LifecycleStep ==
  ASSUME TypeOK, Lifecycle, SocketsFollowTable, [Next]_vars
  PROVE  Lifecycle' /\ SocketsFollowTable'
<1> USE DEF TypeOK, Lifecycle, SocketsFollowTable, OwedByCloser,
            putVars, closerVars, capVars
<1>1. ASSUME NEW s \in Session, PutStep(s)
      PROVE  Lifecycle' /\ SocketsFollowTable'
  <2>1. CASE PutLoad(s)
    BY <2>1 DEF PutLoad
  <2>2. CASE PutReserve(s)
    BY <2>2 DEF PutReserve
  <2>3. CASE PutReject(s)
    BY <2>3 DEF PutReject
  <2>4. CASE PutInsert(s)
    BY <2>4 DEF PutInsert
  <2>5. CASE PutDuplicate(s)
    BY <2>5 DEF PutDuplicate
  <2>6. CASE PutAccount(s)
    BY <2>6 DEF PutAccount
  <2>7. CASE CloseRefused(s)
    BY <2>7 DEF CloseRefused
  <2> QED BY <1>1, <2>1, <2>2, <2>3, <2>4, <2>5, <2>6, <2>7 DEF PutStep
<1>2. ASSUME NEW k \in Key, RemoveUnlink(k)
      PROVE  Lifecycle' /\ SocketsFollowTable'
  BY <1>2 DEF RemoveUnlink
<1>3. ASSUME NEW s \in Session, RemoveSettle(s)
      PROVE  Lifecycle' /\ SocketsFollowTable'
  <2>1. /\ s \in removing /\ removing' = removing \ {s}
        /\ closed' = closed \cup {s}
        /\ UNCHANGED <<putVars, live, closerVars>>
    BY <1>3 DEF RemoveSettle
  <2> QED BY <2>1
<1>4. ASSUME NEW c \in Closer, NEW fs \in Selectors, CloseBegin(c, fs)
      PROVE  Lifecycle' /\ SocketsFollowTable'
  BY <1>4 DEF CloseBegin
<1>5. ASSUME NEW c \in Closer, CloseStep(c)
      PROVE  Lifecycle' /\ SocketsFollowTable'
  <2>1. CASE CloseShard(c)
    <3>1. PICK hit \in SUBSET live :
            /\ live' = live \ hit /\ closed' = closed \cup hit
            /\ owed' = [owed EXCEPT ![c] = @ \cup hit]
            /\ UNCHANGED <<putVars, removing>>
      BY <2>1, CloseShardHit
    <3> QED BY <3>1
  <2>2. CASE CloseSettle(c)
    BY <2>2 DEF CloseSettle
  <2> QED BY <1>5, <2>1, <2>2 DEF CloseStep
<1>6. CASE Sweep
  <2>1. PICK hit \in SUBSET live :
          /\ live' = live \ hit /\ closed' = closed \cup hit
          /\ UNCHANGED <<putVars, removing, closerVars>>
    BY <1>6, SweepHit
  <2> QED BY <2>1
<1>7. ASSUME NEW s \in Session, GoIdle(s) \/ Touch(s)
      PROVE  Lifecycle' /\ SocketsFollowTable'
  BY <1>7 DEF GoIdle, Touch
<1>8. ASSUME NEW m \in Caps, SetMax(m)
      PROVE  Lifecycle' /\ SocketsFollowTable'
  BY <1>8 DEF SetMax
<1>9. CASE UNCHANGED vars
  BY <1>9 DEF vars
<1> QED BY <1>1, <1>2, <1>3, <1>4, <1>5, <1>6, <1>7, <1>8, <1>9 DEF Next

\* The sockets follow the table: none is closed under a stored session, none
\* stays open once its session's remover is through.
THEOREM SocketsCorrect == Spec => [](Lifecycle /\ SocketsFollowTable)
<1>1. Init => Lifecycle /\ SocketsFollowTable
  BY DEF Init, Lifecycle, SocketsFollowTable, OwedByCloser
<1>2. TypeOK /\ Lifecycle /\ SocketsFollowTable /\ [Next]_vars
        => (Lifecycle /\ SocketsFollowTable)'
  BY LifecycleStep
<1> QED BY <1>1, <1>2, TypeCorrect, PTL DEF Spec

-----------------------------------------------------------------------------
(* One session per key *)

\* At most one session of a client address is in the table.
THEOREM KeyUniqueCorrect == Spec => []KeyUnique
<1>1. Init => KeyUnique
  BY DEF Init, KeyUnique
<1>2. TypeOK /\ KeyUnique /\ [Next]_vars => KeyUnique'
  <2> SUFFICES ASSUME TypeOK, KeyUnique, [Next]_vars PROVE KeyUnique'
    OBVIOUS
  <2>1. CASE live' \subseteq live
    BY <2>1 DEF KeyUnique, KeyOf
  <2>2. ASSUME NEW s \in Session, PutInsert(s) PROVE KeyUnique'
    BY <2>2 DEF PutInsert, KeyUnique, KeyOf, Taken
  <2>3. live' \subseteq live \/ \E s \in Session : PutInsert(s)
    BY DEF Next, vars, PutStep, PutLoad, PutReserve, PutReject, PutDuplicate,
           PutAccount, CloseRefused, RemoveUnlink, RemoveSettle, CloseBegin,
           CloseStep, CloseShard, CloseSettle, Sweep, GoIdle, Touch, SetMax
  <2> QED BY <2>1, <2>2, <2>3
<1> QED BY <1>1, <1>2, TypeCorrect, PTL DEF Spec

-----------------------------------------------------------------------------
(* The count, and the cap it enforces *)

\* What is counted is a finite set of sessions.
LEMMA CountedFinite ==
  ASSUME TypeOK
  PROVE  Counted \in SUBSET Session /\ IsFiniteSet(Counted)
<1>1. Counted \in SUBSET Session
  BY DEF TypeOK, Counted, Reserved, RollingBack, OwedByCloser
<1> QED BY <1>1, SessionSets

\* A step changes what is counted and the count alike.
LEMMA CountStep ==
  ASSUME TypeOK, TypeOK', Lifecycle, CountExact, [Next]_vars
  PROVE  CountExact'
<1> USE DEF TypeOK
<1>0. count = Cardinality(Counted) /\ (CountExact' <=> count' = Cardinality(Counted'))
  BY DEF CountExact, Counted
<1>1. ASSUME Counted' = Counted, count' = count PROVE CountExact'
  BY <1>0, <1>1
<1>2. ASSUME NEW s \in Counted, Counted' = Counted \ {s}, count' = count - 1
      PROVE  CountExact'
  BY <1>0, <1>2, CountedFinite, FS_RemoveElement
<1>3. ASSUME NEW S \in SUBSET Counted, Counted' = Counted \ S,
             count' = count - Cardinality(S)
      PROVE  CountExact'
  <2>1. Counted \cap S = S
    OBVIOUS
  <2> QED BY <1>0, <1>3, <2>1, CountedFinite, FS_Difference
<1> USE DEF Lifecycle, Counted, Reserved, RollingBack, OwedByCloser,
            putVars, closerVars, capVars
<1>4. ASSUME NEW s \in Session, PutStep(s) PROVE CountExact'
  <2>1. CASE PutLoad(s)
    BY <2>1, <1>1 DEF PutLoad
  <2>2. CASE PutReserve(s)
    <3>1. Counted' = Counted \cup {s} /\ s \notin Counted
      BY <2>2 DEF PutReserve
    <3>2. count' = count + 1
      BY <2>2 DEF PutReserve
    <3> HIDE DEF Counted
    <3> QED BY <1>0, <3>1, <3>2, CountedFinite, FS_AddElement
  <2>3. CASE PutReject(s)
    <3>1. s \in Counted /\ Counted' = Counted \ {s} /\ count' = count - 1
      BY <2>3 DEF PutReject
    <3> QED BY <3>1, <1>2
  <2>4. CASE PutInsert(s)
    BY <2>4, <1>1 DEF PutInsert
  <2>5. CASE PutDuplicate(s)
    <3>1. s \in Counted /\ Counted' = Counted \ {s} /\ count' = count - 1
      BY <2>5 DEF PutDuplicate
    <3> QED BY <3>1, <1>2
  <2>6. CASE PutAccount(s)
    BY <2>6, <1>1 DEF PutAccount
  <2>7. CASE CloseRefused(s)
    BY <2>7, <1>1 DEF CloseRefused
  <2> QED BY <1>4, <2>1, <2>2, <2>3, <2>4, <2>5, <2>6, <2>7 DEF PutStep
<1>5. ASSUME NEW k \in Key, RemoveUnlink(k) PROVE CountExact'
  BY <1>5, <1>1 DEF RemoveUnlink
<1>6. ASSUME NEW s \in Session, RemoveSettle(s) PROVE CountExact'
  <2>1. /\ s \in removing /\ removing' = removing \ {s} /\ count' = count - 1
        /\ UNCHANGED <<put, live, owed>>
    BY <1>6 DEF RemoveSettle
  <2>2. s \in Counted /\ Counted' = Counted \ {s}
    BY <2>1
  <2> QED BY <2>1, <2>2, <1>2
<1>7. ASSUME NEW c \in Closer, NEW fs \in Selectors, CloseBegin(c, fs)
      PROVE  CountExact'
  BY <1>7, <1>1 DEF CloseBegin
<1>8. ASSUME NEW c \in Closer, CloseStep(c) PROVE CountExact'
  <2>1. CASE CloseShard(c)
    <3>1. PICK hit \in SUBSET live :
            /\ live' = live \ hit /\ owed' = [owed EXCEPT ![c] = @ \cup hit]
            /\ UNCHANGED <<put, removing, count>>
      BY <2>1, CloseShardHit
    <3>2. OwedByCloser' = OwedByCloser \cup hit
      BY <3>1
    <3>3. Counted' = Counted
      BY <3>1, <3>2
    <3> QED BY <3>1, <3>3, <1>1
  <2>2. CASE CloseSettle(c)
    <3>1. /\ owed' = [owed EXCEPT ![c] = {}]
          /\ count' = count - Cardinality(owed[c])
          /\ UNCHANGED <<put, live, removing>>
      BY <2>2 DEF CloseSettle
    <3>2. OwedByCloser' = OwedByCloser \ owed[c]
      BY <3>1
    <3>3. owed[c] \in SUBSET Counted /\ Counted' = Counted \ owed[c]
      BY <3>1, <3>2
    <3> QED BY <3>1, <3>3, <1>3
  <2> QED BY <1>8, <2>1, <2>2 DEF CloseStep
<1>9. CASE Sweep
  <2>1. PICK hit \in SUBSET live :
          /\ live' = live \ hit /\ count' = count - Cardinality(hit)
          /\ UNCHANGED <<put, removing, owed>>
    BY <1>9, SweepHit
  <2>2. hit \in SUBSET Counted /\ Counted' = Counted \ hit
    BY <2>1
  <2> QED BY <2>1, <2>2, <1>3
<1>10. ASSUME NEW s \in Session, GoIdle(s) \/ Touch(s) PROVE CountExact'
  BY <1>10, <1>1 DEF GoIdle, Touch
<1>11. ASSUME NEW m \in Caps, SetMax(m) PROVE CountExact'
  BY <1>11, <1>1 DEF SetMax
<1>12. CASE UNCHANGED vars
  BY <1>12, <1>1 DEF vars
<1> QED BY <1>4, <1>5, <1>6, <1>7, <1>8, <1>9, <1>10, <1>11, <1>12 DEF Next

\* No slot of the cap is lost or returned twice, whatever runs concurrently.
THEOREM CountCorrect == Spec => []CountExact
<1>1. Init => CountExact
  <2> SUFFICES ASSUME Init PROVE CountExact
    OBVIOUS
  <2>1. Counted = {}
    BY DEF Init, Counted, Reserved, RollingBack, OwedByCloser
  <2> QED BY <2>1, FS_EmptySet DEF Init, CountExact, Counted
<1>2. TypeOK /\ TypeOK' /\ Lifecycle /\ CountExact /\ [Next]_vars => CountExact'
  BY CountStep
<1> QED BY <1>1, <1>2, TypeCorrect, SocketsCorrect, PTL DEF Spec

\* A Put compares its cap with the sessions that hold a slot.
LEMMA AdmissionStep ==
  ASSUME TypeOK, CountExact, [Next]_vars, NEW s \in Session,
         put[s] = "reserving", put'[s] # "reserving"
  PROVE  IF put'[s] = "locking"
           THEN lim[s] = 0 \/ Cardinality(live \cup Reserved) < lim[s]
           ELSE lim[s] # 0 /\ Cardinality(Counted) >= lim[s]
<1>1. PutReserve(s)
  BY DEF Next, vars, putVars, PutStep, PutLoad, PutReserve, PutReject, PutInsert,
         PutDuplicate, PutAccount, CloseRefused, RemoveUnlink, RemoveSettle, CloseBegin,
         CloseStep, CloseShard, CloseSettle, Sweep, GoIdle, Touch, SetMax, TypeOK
<1>2. put'[s] = IF WithinCap(count + 1, lim[s]) THEN "locking" ELSE "over"
  BY <1>1 DEF PutReserve, TypeOK
<1>3. lim[s] \in Nat
  <2>1. lim[s] \in Caps \cup {0}
    BY DEF TypeOK
  <2>2. 0 \in Nat /\ \A m \in Caps : m \in Nat
    BY ConstantsAssumption
  <2> QED BY <2>1, <2>2, Zenon
<1>4. count = Cardinality(Counted)
  BY DEF CountExact
<1>5. /\ Cardinality(live \cup Reserved) \in Nat /\ Cardinality(Counted) \in Nat
      /\ Cardinality(live \cup Reserved) <= Cardinality(Counted)
  <2>1. live \cup Reserved \subseteq Counted
    BY DEF Counted
  <2> QED BY <2>1, CountedFinite, FS_Subset, FS_CardinalityType
<1> QED BY <1>2, <1>3, <1>4, <1>5 DEF WithinCap

\* Whatever runs concurrently, a Put that gets a slot found fewer sessions than
\* the cap it read stored or being stored, so that a lowered cap binds at once;
\* and one that is refused found that many slots held: none was lost.
THEOREM AdmissionCorrect == Spec => AdmissionExact
<1>1. TypeOK /\ CountExact /\ [Next]_vars
        => [\A s \in Session : put[s] = "reserving" /\ put'[s] # "reserving" =>
              IF put'[s] = "locking"
                THEN lim[s] = 0 \/ Cardinality(live \cup Reserved) < lim[s]
                ELSE lim[s] # 0 /\ Cardinality(Counted) >= lim[s]]_vars
  BY AdmissionStep
<1> QED BY <1>1, TypeCorrect, CountCorrect, PTL DEF Spec, AdmissionExact

\* A step that stores and reserves nothing new keeps to the caps.
LEMMA FewerSlots ==
  ASSUME TypeOK, TypeOK', CapNeverExceeded, caps \subseteq caps',
         (live \cup Reserved)' \subseteq live \cup Reserved
  PROVE  CapNeverExceeded'
<1> DEFINE Slots == live \cup Reserved
<1>1. Slots \in SUBSET Session
  BY DEF TypeOK, Reserved
<1>2. IsFiniteSet(Slots) /\ Cardinality(Slots) \in Nat
  BY <1>1, SessionSets
<1>3. Cardinality(Slots') \in Nat /\ Cardinality(Slots') <= Cardinality(Slots)
  <2>1. Slots' \in SUBSET Slots
    OBVIOUS
  <2> HIDE DEF Slots
  <2> QED BY <1>2, <2>1, FS_Subset, FS_CardinalityType
<1> SUFFICES ASSUME 0 \notin caps'
             PROVE  \E m \in caps' : Cardinality(Slots') <= m
  BY DEF CapNeverExceeded
<1>4. PICK m \in caps : Cardinality(Slots) <= m
  BY DEF CapNeverExceeded
<1>5. m \in caps' /\ m \in Nat
  BY ConstantsAssumption DEF TypeOK
<1> HIDE DEF Slots
<1> QED BY <1>2, <1>3, <1>4, <1>5

\* "The cap can never be exceeded even under concurrent Puts": the sessions
\* stored never outnumber every cap that was in force.
THEOREM CapCorrect == Spec => []CapNeverExceeded
<1>1. Init => LimKnown /\ CapNeverExceeded
  <2> SUFFICES ASSUME Init PROVE LimKnown /\ CapNeverExceeded
    OBVIOUS
  <2>1. live \cup Reserved = {}
    BY DEF Init, Reserved
  <2>2. max \in caps /\ caps \subseteq Nat
    BY ConstantsAssumption DEF Init
  <2>3. CapNeverExceeded
    BY <2>1, <2>2, FS_EmptySet DEF CapNeverExceeded
  <2> QED BY <2>3 DEF Init, LimKnown
<1>2. TypeOK /\ TypeOK' /\ CountExact /\ LimKnown /\ CapNeverExceeded
        /\ [Next]_vars => LimKnown' /\ CapNeverExceeded'
  <2> SUFFICES ASSUME TypeOK, TypeOK', CountExact, LimKnown, CapNeverExceeded,
                      [Next]_vars
               PROVE  LimKnown' /\ CapNeverExceeded'
    OBVIOUS
  <2> USE DEF TypeOK, LimKnown
  <2>1. ASSUME NEW s \in Session, PutReserve(s)
        PROVE  LimKnown' /\ CapNeverExceeded'
    <3>1. LimKnown'
      BY <2>1 DEF PutReserve, capVars
    <3>2. CASE put'[s] = "over"
      <4>1. /\ (live \cup Reserved)' \subseteq live \cup Reserved
            /\ caps' = caps
        BY <2>1, <3>2 DEF PutReserve, Reserved, capVars
      <4> QED BY <3>1, <4>1, FewerSlots
    <3>3. CASE put'[s] = "locking"
      <4>1. /\ lim[s] \in caps /\ caps' = caps
            /\ lim[s] = 0 \/ count + 1 <= lim[s]
            /\ (live \cup Reserved)' = live \cup Reserved \cup {s}
        BY <2>1, <3>3 DEF PutReserve, Reserved, WithinCap, capVars
      <4>2. /\ IsFiniteSet(live \cup Reserved)
            /\ Cardinality(live \cup Reserved) \in Nat
            /\ Cardinality(live \cup Reserved) <= count
        <5>1. live \cup Reserved \in SUBSET Counted
          BY DEF Counted
        <5>2. IsFiniteSet(Counted) /\ count = Cardinality(Counted)
          BY CountedFinite DEF CountExact, Counted
        <5> QED BY <5>1, <5>2, FS_Subset, FS_CardinalityType
      <4>3. Cardinality((live \cup Reserved)') <= count + 1
        <5> DEFINE Slots == live \cup Reserved
        <5>1. Cardinality(Slots \cup {s}) <= Cardinality(Slots) + 1
          BY <4>2, AddOne
        <5>2. Slots' = Slots \cup {s}
          BY <4>1
        <5>3. Cardinality(Slots') <= Cardinality(Slots) + 1
          <6> HIDE DEF Slots
          <6> QED BY <5>1, <5>2
        <5>4. Cardinality(Slots) \in Nat /\ Cardinality(Slots) <= count
          BY <4>2
        <5> DEFINE m == Cardinality(Slots)  n == Cardinality(Slots')
        <5>5. n <= m + 1 /\ m <= count /\ m \in Nat /\ n \in Nat
          <6>1. Slots' \in SUBSET Session
            BY DEF Reserved
          <6>2. Cardinality(Slots') \in Nat
            BY <6>1, SessionSets
          <6> QED BY <5>3, <5>4, <6>2
        <5> HIDE DEF m, n
        <5>6. n <= count + 1
          BY <5>5
        <5> QED BY <5>6 DEF m, n, Slots
      <4>4. /\ lim[s] \in Nat
            /\ Cardinality((live \cup Reserved)') \in Nat
        <5>1. (live \cup Reserved)' \in SUBSET Session
          BY DEF Reserved
        <5> QED BY <5>1, <4>1, SessionSets, ConstantsAssumption
      <4>5. 0 \notin caps' => Cardinality((live \cup Reserved)') <= lim[s]
        BY <4>1, <4>3, <4>4
      <4> QED BY <3>1, <4>1, <4>5 DEF CapNeverExceeded
    <3> QED BY <2>1, <3>2, <3>3 DEF PutReserve
  <2>2. ASSUME NEW s \in Session, PutLoad(s) \/ PutReject(s) \/ PutInsert(s)
                 \/ PutDuplicate(s) \/ PutAccount(s) \/ CloseRefused(s)
        PROVE  LimKnown' /\ CapNeverExceeded'
    <3>1. /\ (live \cup Reserved)' \subseteq live \cup Reserved
          /\ caps' = caps
      BY <2>2 DEF PutLoad, PutReject, PutInsert, PutDuplicate, PutAccount,
                  CloseRefused, Reserved, putVars, capVars
    <3>2. LimKnown'
      BY <2>2 DEF PutLoad, PutReject, PutInsert, PutDuplicate, PutAccount,
                  CloseRefused, putVars, capVars
    <3> QED BY <3>1, <3>2, FewerSlots
  <2>3. ASSUME live' \subseteq live, caps \subseteq caps', max' \in caps',
               UNCHANGED putVars
        PROVE  LimKnown' /\ CapNeverExceeded'
    <3>1. (live \cup Reserved)' \subseteq live \cup Reserved
      BY <2>3 DEF Reserved, putVars
    <3> QED BY <2>3, <3>1, FewerSlots DEF putVars
  <2>4. ASSUME NEW m \in Caps, SetMax(m) PROVE LimKnown' /\ CapNeverExceeded'
    BY <2>3, <2>4 DEF SetMax
  <2>5. ASSUME \/ \E k \in Key : RemoveUnlink(k)
               \/ \E s \in Session : RemoveSettle(s)
               \/ \E c \in Closer, fs \in Selectors : CloseBegin(c, fs)
               \/ \E c \in Closer : CloseStep(c)
               \/ Sweep
               \/ \E s \in Session : GoIdle(s) \/ Touch(s)
               \/ UNCHANGED vars
        PROVE  LimKnown' /\ CapNeverExceeded'
    <3>1. live' \subseteq live /\ UNCHANGED <<putVars, max, caps>>
      BY <2>5 DEF RemoveUnlink, RemoveSettle, CloseBegin, CloseStep, CloseShard,
                  CloseSettle, Sweep, GoIdle, Touch, vars, capVars
    <3> QED BY <2>3, <3>1
  <2> QED BY <2>1, <2>2, <2>4, <2>5 DEF Next, PutStep
<1> QED BY <1>1, <1>2, TypeCorrect, CountCorrect, PTL DEF Spec

-----------------------------------------------------------------------------
(* closeWhere *)

\* Whatever runs beside it, a closeWhere call leaves none of the matching
\* sessions it found when it began.
THEOREM CloseWhereCorrect == Spec => []CloseWhereComplete
<1> DEFINE CInv == BeforeStored /\ CloseWhereComplete
<1>1. Init => CInv
  BY DEF Init, BeforeStored, CloseWhereComplete
<1>2. TypeOK /\ Lifecycle /\ CInv /\ [Next]_vars => CInv'
  <2> SUFFICES ASSUME TypeOK, Lifecycle, CInv, [Next]_vars PROVE CInv'
    OBVIOUS
  <2> USE DEF TypeOK, BeforeStored, CloseWhereComplete, Matching, putVars,
              closerVars
  <2>1. ASSUME live' \subseteq live, UNCHANGED <<put, sel, at, before>>
        PROVE  CInv'
    BY <2>1
  <2>2. ASSUME NEW s \in Session, PutStep(s) PROVE CInv'
    <3>1. CASE PutInsert(s)
      BY <3>1 DEF PutInsert
    <3>2. CASE ~PutInsert(s)
      <4>1. /\ live' = live /\ UNCHANGED <<sel, at, before>>
            /\ \A r \in Session : put[r] \in {"stored", "stored_true"} =>
                 put'[r] \in {"stored", "stored_true"}
        BY <2>2, <3>2 DEF PutStep, PutLoad, PutReserve, PutReject, PutDuplicate,
                          PutAccount, CloseRefused
      <4> QED BY <4>1
    <3> QED BY <3>1, <3>2
  <2>3. ASSUME NEW k \in Key, RemoveUnlink(k) PROVE CInv'
    BY <2>3, <2>1 DEF RemoveUnlink
  <2>4. ASSUME NEW s \in Session, RemoveSettle(s) PROVE CInv'
    <3>1. live' = live /\ UNCHANGED <<put, sel, at, before>>
      BY <2>4 DEF RemoveSettle
    <3> QED BY <3>1, <2>1
  <2>5. ASSUME NEW c \in Closer, NEW fs \in Selectors, CloseBegin(c, fs)
        PROVE  CInv'
    <3>1. \A s \in Session : ShardAt(s) >= 0
      BY RouteTypes, ConstantsAssumption
    <3>2. Matching(live, fs) \subseteq live
      BY DEF Matching
    <3> QED BY <2>5, <3>1, <3>2, ConstantsAssumption, FlowsAssumption
            DEF CloseBegin, FirstShard, Lifecycle
  <2>6. ASSUME NEW c \in Closer, CloseStep(c) PROVE CInv'
    <3>1. CASE CloseShard(c)
      <4>1. PICK hit \in SUBSET live :
              /\ hit = {s \in Matching(live, sel[c]) : ShardAt(s) = at[c]}
              /\ live' = live \ hit
              /\ at' = [at EXCEPT ![c] = @ + 1] /\ at[c] < NShards
              /\ UNCHANGED <<put, sel, before>>
        BY <3>1, CloseShardHit
      <4>2. \A s \in before[c] \cap live' : ShardAt(s) >= at[c] + 1
        <5> SUFFICES ASSUME NEW s \in before[c] \cap live'
                     PROVE  ShardAt(s) >= at[c] + 1
          OBVIOUS
        <5>1. FlowOf[s] \in sel[c] /\ ShardAt(s) >= at[c] /\ s \in live
          BY <4>1
        <5>2. ShardAt(s) # at[c]
          BY <4>1, <5>1
        <5>3. ShardAt(s) \in Nat /\ at[c] \in Nat
          BY RouteTypes, ConstantsAssumption
        <5> QED BY <5>1, <5>2, <5>3
      <4> QED BY <4>1, <4>2
    <3>2. CASE CloseSettle(c)
      BY <3>2 DEF CloseSettle
    <3> QED BY <2>6, <3>1, <3>2 DEF CloseStep
  <2>7. CASE Sweep
    <3>1. live' \subseteq live /\ UNCHANGED <<put, sel, at, before>>
      BY <2>7, SweepHit
    <3> QED BY <3>1, <2>1
  <2>8. ASSUME NEW s \in Session, GoIdle(s) \/ Touch(s) PROVE CInv'
    BY <2>8, <2>1 DEF GoIdle, Touch
  <2>9. ASSUME NEW m \in Caps, SetMax(m) PROVE CInv'
    BY <2>9, <2>1 DEF SetMax
  <2>10. CASE UNCHANGED vars
    BY <2>10, <2>1 DEF vars
  <2> QED BY <2>2, <2>3, <2>4, <2>5, <2>6, <2>7, <2>8, <2>9, <2>10 DEF Next
<1> QED BY <1>1, <1>2, TypeCorrect, SocketsCorrect, PTL DEF Spec
-----------------------------------------------------------------------------
(* The ledger: created, expired and the routes' counters *)

Table    == live \cup removing
On(S, r) == {s \in S : Route(s) = r}

LedgerTotal == created - expired = Cardinality(Table) - Cardinality(Unaccounted)
LedgerOf(r) ==
  bcount[r] = Cardinality(On(Table, r)) - Cardinality(On(Unaccounted, r))

\* A set gains an element it has not,
LEMMA SetGains ==
  ASSUME NEW S \in SUBSET Session, NEW s \in Session, s \notin S
  PROVE  Cardinality(S \cup {s}) = Cardinality(S) + 1
BY SessionSets, FS_AddElement

\* loses one it has,
LEMMA SetLoses ==
  ASSUME NEW S \in SUBSET Session, NEW s \in S
  PROVE  Cardinality(S \ {s}) = Cardinality(S) - 1
BY SessionSets, FS_RemoveElement

\* or a part.
LEMMA SetLosesPart ==
  ASSUME NEW S \in SUBSET Session, NEW D \in SUBSET S
  PROVE  Cardinality(S \ D) = Cardinality(S) - Cardinality(D)
<1>1. S \cap D = D
  OBVIOUS
<1> QED BY <1>1, SessionSets, FS_Difference

\* A session stored and not accounted for yet leaves the balance as it is.
LEMMA LedgerStored ==
  ASSUME TypeOK, LedgerExact, NEW s \in Session, s \notin Table, s \notin Unaccounted,
         Table' = Table \cup {s}, Unaccounted' = Unaccounted \cup {s},
         UNCHANGED <<created, expired, bcount>>
  PROVE  LedgerExact'
<1>0. Table \in SUBSET Session /\ Unaccounted \in SUBSET Session
  BY DEF TypeOK, Table, Unaccounted
<1>1. LedgerTotal'
  <2>1. created - expired = Cardinality(Table) - Cardinality(Unaccounted)
    BY DEF LedgerExact, Table
  <2> HIDE DEF Table, Unaccounted
  <2>2. /\ Cardinality(Table') = Cardinality(Table) + 1
        /\ Cardinality(Unaccounted') = Cardinality(Unaccounted) + 1
        /\ Cardinality(Table) \in Nat /\ Cardinality(Unaccounted) \in Nat
    BY <1>0, SetGains, SessionSets
  <2> DEFINE t == Cardinality(Table)  u == Cardinality(Unaccounted)
             tt == Cardinality(Table')  uu == Cardinality(Unaccounted')
  <2>3. t - u = tt - uu
    <3>1. tt = t + 1 /\ uu = u + 1 /\ t \in Nat /\ u \in Nat
      BY <2>2
    <3> HIDE DEF t, u, tt, uu
    <3> QED BY <3>1
  <2> QED BY <2>1, <2>3 DEF LedgerTotal
<1>2. ASSUME NEW r \in Listener \X Backend PROVE LedgerOf(r)'
  <2>1. bcount[r] = Cardinality(On(Table, r)) - Cardinality(On(Unaccounted, r))
    BY DEF LedgerExact, Table, On
  <2> DEFINE T == On(Table, r)  U == On(Unaccounted, r)
             TT == On(Table, r)'  UU == On(Unaccounted, r)'
  <2>2. CASE Route(s) = r
    <3>1. /\ TT = T \cup {s} /\ UU = U \cup {s} /\ s \notin T /\ s \notin U
          /\ T \in SUBSET Session /\ U \in SUBSET Session
      BY <1>0, <2>2 DEF On, Route
    <3> HIDE DEF T, U, TT, UU
    <3>2. /\ Cardinality(TT) = Cardinality(T) + 1
          /\ Cardinality(UU) = Cardinality(U) + 1
          /\ Cardinality(T) \in Nat /\ Cardinality(U) \in Nat
      BY <3>1, SetGains, SessionSets
    <3>3. Cardinality(TT) - Cardinality(UU) = Cardinality(T) - Cardinality(U)
      BY <3>2
    <3> QED BY <2>1, <3>3 DEF LedgerOf, T, U, TT, UU
  <2>3. CASE Route(s) # r
    <3>1. TT = T /\ UU = U
      BY <1>0, <2>3 DEF On, Route
    <3> QED BY <2>1, <3>1 DEF LedgerOf
  <2> QED BY <2>2, <2>3
<1> QED BY <1>1, <1>2 DEF LedgerExact, LedgerTotal, LedgerOf, Table, On

\* A session accounted for enters created and its route's counter.
LEMMA LedgerAccounted ==
  ASSUME TypeOK, LedgerExact, NEW s \in Unaccounted,
         Table' = Table, Unaccounted' = Unaccounted \ {s},
         created' = created + 1, expired' = expired,
         bcount' = [bcount EXCEPT ![Route(s)] = @ + 1]
  PROVE  LedgerExact'
<1>0. Table \in SUBSET Session /\ Unaccounted \in SUBSET Session /\ s \in Session
  BY DEF TypeOK, Table, Unaccounted
<1>1. LedgerTotal'
  <2>1. created - expired = Cardinality(Table) - Cardinality(Unaccounted)
    BY DEF LedgerExact, Table
  <2> HIDE DEF Table, Unaccounted
  <2> DEFINE t == Cardinality(Table)  u == Cardinality(Unaccounted)
             uu == Cardinality(Unaccounted')
  <2>2. uu = u - 1 /\ t \in Nat /\ u \in Nat
    BY <1>0, SetLoses, SessionSets
  <2>3. created' - expired' = t - uu
    <3>1. created - expired = t - u /\ created \in Nat /\ expired \in Nat
      BY <2>1 DEF TypeOK
    <3> HIDE DEF t, u, uu
    <3> QED BY <2>2, <3>1
  <2> QED BY <2>3 DEF LedgerTotal
<1>2. ASSUME NEW r \in Listener \X Backend PROVE LedgerOf(r)'
  <2>1. /\ bcount[r] = Cardinality(On(Table, r)) - Cardinality(On(Unaccounted, r))
        /\ bcount[r] \in Int /\ bcount \in [Listener \X Backend -> Int]
    BY DEF LedgerExact, Table, On, TypeOK
  <2> DEFINE T == On(Table, r)  U == On(Unaccounted, r)
             TT == On(Table, r)'  UU == On(Unaccounted, r)'
  <2>2. CASE Route(s) = r
    <3>1. /\ TT = T /\ UU = U \ {s} /\ s \in U
          /\ T \in SUBSET Session /\ U \in SUBSET Session
      BY <1>0, <2>2 DEF On, Route
    <3>2. bcount'[r] = bcount[r] + 1
      BY <2>1, <2>2
    <3> HIDE DEF T, U, TT, UU
    <3>3. /\ Cardinality(UU) = Cardinality(U) - 1
          /\ Cardinality(T) \in Nat /\ Cardinality(U) \in Nat
      BY <3>1, SetLoses, SessionSets
    <3>4. bcount[r] = Cardinality(T) - Cardinality(U)
      BY <2>1 DEF T, U
    <3>5. bcount'[r] = Cardinality(TT) - Cardinality(UU)
      BY <3>1, <3>2, <3>3, <3>4
    <3> QED BY <3>5 DEF LedgerOf, TT, UU
  <2>3. CASE Route(s) # r
    <3>1. TT = T /\ UU = U /\ bcount'[r] = bcount[r]
      BY <1>0, <2>1, <2>3 DEF On, Route
    <3> QED BY <2>1, <3>1 DEF LedgerOf
  <2> QED BY <2>2, <2>3
<1> QED BY <1>1, <1>2 DEF LedgerExact, LedgerTotal, LedgerOf, Table, On

\* Sessions that left the table leave the ledger, each on its route.
LEMMA LedgerGone ==
  ASSUME TypeOK, LedgerExact, NEW S \in SUBSET Table,
         Table' = Table \ S, Unaccounted' = Unaccounted,
         created' = created, expired' = expired + Cardinality(S),
         bcount' = Deducted(S)
  PROVE  LedgerExact'
<1>0. Table \in SUBSET Session /\ Unaccounted \in SUBSET Session
  BY DEF TypeOK, Table, Unaccounted
<1>1. LedgerTotal'
  <2>1. created - expired = Cardinality(Table) - Cardinality(Unaccounted)
    BY DEF LedgerExact, Table
  <2> HIDE DEF Table, Unaccounted
  <2> DEFINE t == Cardinality(Table)  u == Cardinality(Unaccounted)
             tt == Cardinality(Table')  k == Cardinality(S)
  <2>2. S \in SUBSET Session
    BY <1>0
  <2>3. tt = t - k /\ t \in Nat /\ u \in Nat /\ k \in Nat
    BY <1>0, <2>2, SetLosesPart, SessionSets
  <2>4. created' - expired' = tt - u
    <3>1. /\ created - expired = t - u /\ created \in Nat /\ expired \in Nat
          /\ expired' = expired + k
      BY <2>1 DEF TypeOK
    <3> HIDE DEF t, u, tt, k
    <3> QED BY <2>3, <3>1
  <2>5. u = Cardinality(Unaccounted')
    OBVIOUS
  <2> QED BY <2>4, <2>5 DEF LedgerTotal
<1>2. ASSUME NEW r \in Listener \X Backend PROVE LedgerOf(r)'
  <2>1. /\ bcount[r] = Cardinality(On(Table, r)) - Cardinality(On(Unaccounted, r))
        /\ bcount[r] \in Int
    BY DEF LedgerExact, Table, On, TypeOK
  <2> DEFINE T == On(Table, r)  U == On(Unaccounted, r)  D == On(S, r)
             TT == On(Table, r)'  UU == On(Unaccounted, r)'
  <2>2. bcount'[r] = bcount[r] - Cardinality(D)
    BY DEF Deducted, On
  <2>3. /\ TT = T \ D /\ UU = U /\ D \in SUBSET T
        /\ T \in SUBSET Session /\ U \in SUBSET Session /\ D \in SUBSET Session
    BY <1>0 DEF On, Route
  <2> HIDE DEF T, U, D, TT, UU
  <2>4. /\ Cardinality(TT) = Cardinality(T) - Cardinality(D)
        /\ Cardinality(T) \in Nat /\ Cardinality(U) \in Nat /\ Cardinality(D) \in Nat
    BY <2>3, SetLosesPart, SessionSets
  <2>5. bcount[r] = Cardinality(T) - Cardinality(U)
    BY <2>1 DEF T, U
  <2>6. bcount'[r] = Cardinality(TT) - Cardinality(UU)
    BY <2>2, <2>3, <2>4, <2>5
  <2> QED BY <2>6 DEF LedgerOf, TT, UU
<1> QED BY <1>1, <1>2 DEF LedgerExact, LedgerTotal, LedgerOf, Table, On

\* Every step of the table keeps its ledger.
LEMMA LedgerStep ==
  ASSUME TypeOK, Lifecycle, LedgerExact, [Next]_vars
  PROVE  LedgerExact'
<1>1. ASSUME Table' = Table, Unaccounted' = Unaccounted,
             UNCHANGED <<created, expired, bcount>>
      PROVE  LedgerExact'
  BY <1>1 DEF LedgerExact, Table, Route
<1>2. ASSUME UNCHANGED <<put, live, removing, created, expired, bcount>>
      PROVE  LedgerExact'
  BY <1>1, <1>2 DEF Table, Unaccounted
<1>3. ASSUME NEW s \in Session, PutStep(s) PROVE LedgerExact'
  <2>1. CASE PutInsert(s) /\ ~Taken(s)
    <3>1. /\ s \notin Table /\ s \notin Unaccounted
          /\ Table' = Table \cup {s} /\ Unaccounted' = Unaccounted \cup {s}
          /\ UNCHANGED <<created, expired, bcount>>
      BY <2>1 DEF PutInsert, Table, Unaccounted, Lifecycle, TypeOK
    <3> QED BY <3>1, LedgerStored
  <2>2. CASE PutAccount(s)
    <3>1. /\ s \in Unaccounted /\ Table' = Table /\ Unaccounted' = Unaccounted \ {s}
          /\ created' = created + 1 /\ expired' = expired
          /\ bcount' = [bcount EXCEPT ![Route(s)] = @ + 1]
      BY <2>2 DEF PutAccount, Table, Unaccounted, TypeOK
    <3> QED BY <3>1, LedgerAccounted
  <2>3. CASE \/ PutLoad(s) \/ PutReserve(s) \/ PutReject(s) \/ PutDuplicate(s)
             \/ CloseRefused(s) \/ (PutInsert(s) /\ Taken(s))
    <3>1. Table' = Table /\ UNCHANGED <<expired, created, bcount>>
      BY <2>3 DEF PutLoad, PutReserve, PutReject, PutDuplicate, CloseRefused,
                  PutInsert, Table
    <3>2. Unaccounted' = Unaccounted
      BY <2>3 DEF PutLoad, PutReserve, PutReject, PutDuplicate, CloseRefused,
                  PutInsert, Unaccounted, TypeOK, putVars
    <3> QED BY <1>1, <3>1, <3>2
  <2> QED BY <1>3, <2>1, <2>2, <2>3 DEF PutStep
<1>4. ASSUME NEW k \in Key, RemoveUnlink(k) PROVE LedgerExact'
  <2>1. Table' = Table /\ UNCHANGED <<putVars, created, expired, bcount>>
    BY <1>4 DEF RemoveUnlink, Table
  <2>2. Unaccounted' = Unaccounted
    BY <2>1 DEF Unaccounted, putVars
  <2> QED BY <1>1, <2>1, <2>2
<1>5. ASSUME NEW s \in Session, RemoveSettle(s) PROVE LedgerExact'
  <2>1. /\ s \in removing /\ removing' = removing \ {s} /\ expired' = expired + 1
        /\ UNCHANGED <<put, live, created>>
    BY <1>5 DEF RemoveSettle, putVars
  <2>2. bcount' = Deducted({s})
    BY <1>5, Zenon DEF RemoveSettle
  <2>3. {s} \in SUBSET Table /\ Table' = Table \ {s} /\ Unaccounted' = Unaccounted
    BY <2>1 DEF Table, Unaccounted, Lifecycle
  <2>4. expired' = expired + Cardinality({s})
    BY <2>1, FS_Singleton
  <2> QED BY <2>1, <2>2, <2>3, <2>4, LedgerGone
<1>6. ASSUME NEW c \in Closer, CloseStep(c) PROVE LedgerExact'
  <2>1. CASE CloseShard(c)
    <3>1. PICK hit \in SUBSET live :
            /\ live' = live \ hit /\ expired' = expired + Cardinality(hit)
            /\ bcount' = Deducted(hit)
            /\ UNCHANGED <<putVars, removing, created>>
      BY <2>1, CloseShardHit, Zenon
    <3>2. hit \in SUBSET Table /\ Table' = Table \ hit /\ Unaccounted' = Unaccounted
      BY <3>1 DEF Table, Unaccounted, Lifecycle, putVars
    <3> QED BY <3>1, <3>2, LedgerGone
  <2>2. CASE CloseSettle(c)
    BY <2>2, <1>2 DEF CloseSettle, putVars
  <2> QED BY <1>6, <2>1, <2>2 DEF CloseStep
<1>7. CASE Sweep
  <2>1. PICK hit \in SUBSET live :
          /\ live' = live \ hit /\ expired' = expired + Cardinality(hit)
          /\ bcount' = Deducted(hit)
          /\ UNCHANGED <<putVars, removing, created>>
    BY <1>7, SweepHit, Zenon
  <2>2. hit \in SUBSET Table /\ Table' = Table \ hit /\ Unaccounted' = Unaccounted
    BY <2>1 DEF Table, Unaccounted, Lifecycle, putVars
  <2> QED BY <2>1, <2>2, LedgerGone
<1>8. CASE \/ \E c \in Closer, fs \in Selectors : CloseBegin(c, fs)
           \/ \E s \in Session : GoIdle(s) \/ Touch(s)
           \/ \E m \in Caps : SetMax(m)
           \/ UNCHANGED vars
  BY <1>2, <1>8 DEF CloseBegin, GoIdle, Touch, SetMax, vars, putVars
<1> QED BY <1>3, <1>4, <1>5, <1>6, <1>7, <1>8 DEF Next

\* created, expired and the counters least_sessions reads agree with the table
\* up to the calls under way, for every interleaving of Puts and removers.
THEOREM LedgerCorrect == Spec => []LedgerExact
<1>1. Init => LedgerExact
  <2> SUFFICES ASSUME Init PROVE LedgerExact
    OBVIOUS
  <2>1. live \cup removing = {} /\ Unaccounted = {}
    BY DEF Init, Unaccounted
  <2>2. \A r \in Listener \X Backend :
          /\ {s \in live \cup removing : Route(s) = r} = {}
          /\ {s \in Unaccounted : Route(s) = r} = {}
    BY <2>1
  <2> QED BY <2>1, <2>2, FS_EmptySet DEF Init, LedgerExact
<1>2. TypeOK /\ Lifecycle /\ LedgerExact /\ [Next]_vars => LedgerExact'
  BY LedgerStep
<1> QED BY <1>1, <1>2, TypeCorrect, SocketsCorrect, PTL DEF Spec
=============================================================================
