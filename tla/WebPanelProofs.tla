---------------------------- MODULE WebPanelProofs ----------------------------
(* Proofs about the web panel, for every set of listeners, every column,     *)
(* every number of fetches under way, clicks and changes of the server.      *)
EXTENDS WebPanel, FiniteSetTheorems, WellFoundedInduction, TLAPS

(* The type of the fetches is kept by each way a slot is filled or emptied. *)

\* The fetches under way, and the rest of PanelTypeOK.
FlightOK == DOMAIN flight = Slots /\ \A s \in Slots : flight[s] # None => FetchOK(flight[s])

ScalarsOK ==
  /\ dev \in BOOLEAN /\ serving \in Statuses /\ up \in BOOLEAN
  /\ status \in Statuses \cup {None} /\ error \in BOOLEAN
  /\ table \in Tables \cup {None} /\ sort \in Key /\ order \in Directions
  /\ clicks \in 0..MaxClicks /\ changes \in 0..MaxChanges

\* The types, in two parts.
LEMMA TypeParts == PanelTypeOK <=> ScalarsOK /\ FlightOK
  BY DEF PanelTypeOK, ScalarsOK, FlightOK

\* A fetch is well typed when it is sent.
LEMMA FetchTyped ==
  ASSUME PanelTypeOK
  PROVE  FetchOK(Fetch("clients")) /\ FetchOK(StatusFetch)
  BY PanelAssumption DEF PanelTypeOK, FetchOK, Fetch, StatusFetch, Directions

\* Putting a well-typed fetch, or none, into a slot keeps the fetches typed.
LEMMA SlotFilled ==
  ASSUME FlightOK, NEW f, f = None \/ FetchOK(f), NEW s \in Slots,
         flight' = [flight EXCEPT ![s] = f]
  PROVE  FlightOK'
<1>1. DOMAIN flight' = Slots
  BY DEF FlightOK
<1>2. ASSUME NEW r \in Slots, flight'[r] # None PROVE FetchOK(flight'[r])
  <2>1. CASE r = s
    BY <1>2, <2>1 DEF FlightOK
  <2>2. CASE r # s
    BY <1>2, <2>2 DEF FlightOK
  <2> QED BY <2>1, <2>2
<1>3. \A r \in Slots : flight'[r] # None => FetchOK(flight'[r])
  BY <1>2
<1> QED BY <1>1, <1>3 DEF FlightOK, FetchOK, Slots, Tables

\* The slot that the next fetch takes.
LEMMA NextSlotFree == FreeSlots # {} => NextSlot \in Slots
  BY DEF FreeSlots, NextSlot

-----------------------------------------------------------------------------
(* Type correctness *)

\* The page is mounted.
LEMMA InitTyped == Init => PanelTypeOK
<1> SUFFICES ASSUME Init PROVE ScalarsOK /\ FlightOK
  BY TypeParts
<1>1. ScalarsOK
  <2>1. 0 \in 0..MaxClicks /\ 0 \in 0..MaxChanges
    BY PanelAssumption
  <2>2. "requests" \in Key /\ "desc" \in Directions
    BY PanelAssumption DEF Directions
  <2> QED BY <2>1, <2>2 DEF Init, ScalarsOK
<1>2. FetchOK(StatusFetch)
  BY PanelAssumption DEF FetchOK, Fetch, StatusFetch, Directions
<1>3. FlightOK
  BY <1>2 DEF Init, FlightOK
<1> QED BY <1>1, <1>3

\* Every step keeps the types.
LEMMA StepTyped ==
  ASSUME PanelTypeOK, [Next]_vars PROVE PanelTypeOK'
<1>0. ScalarsOK /\ FlightOK
  BY TypeParts
<1> SUFFICES ScalarsOK' /\ FlightOK'
  BY TypeParts DEF TypeParts, PanelTypeOK, ScalarsOK, FlightOK, FetchOK, Tables, Slots
<1>1. CASE StatusTimer
  <2>1. NextSlot \in Slots
    BY <1>1, NextSlotFree DEF StatusTimer
  <2>2. FlightOK'
    BY <1>0, <1>1, <2>1, FetchTyped, SlotFilled DEF StatusTimer
  <2> QED BY <1>0, <1>1, <2>2 DEF StatusTimer, ScalarsOK, server, view, client
<1>2. CASE ClientsTimer
  <2>1. NextSlot \in Slots
    BY <1>2, NextSlotFree DEF ClientsTimer
  <2>2. FlightOK'
    BY <1>0, <1>2, <2>1, FetchTyped, SlotFilled DEF ClientsTimer
  <2> QED BY <1>0, <1>2, <2>2 DEF ClientsTimer, ScalarsOK, server, view, client
<1>3. ASSUME NEW key \in Key, SetSort(key) PROVE ScalarsOK' /\ FlightOK'
  <2> DEFINE f == [Fetch("clients") EXCEPT !.sort = sort', !.order = order']
  <2>1. NextSlot \in Slots
    BY <1>3, NextSlotFree DEF SetSort
  <2>2. sort' \in Key /\ order' \in Directions
    BY <1>0, <1>3 DEF SetSort, Turned, FirstOrder, Directions
  <2>3. FetchOK(f)
    BY <2>2 DEF FetchOK, Fetch
  <2>4. flight' = [flight EXCEPT ![NextSlot] = f]
    BY <1>3 DEF SetSort
  <2>5. FlightOK'
    <3> HIDE DEF f
    <3> QED BY <1>0, <2>1, <2>3, <2>4, SlotFilled
  <2>6. ScalarsOK'
    BY <1>0, <1>3, <2>2, PanelAssumption DEF SetSort, ScalarsOK, server, view
  <2> QED BY <2>5, <2>6
<1>4. ASSUME NEW s \in Slots, Answer(s) PROVE ScalarsOK' /\ FlightOK'
  <2>1. PICK a \in Answers(flight[s]) :
          flight' = [flight EXCEPT ![s].stage = "answered", ![s].answer = a]
    BY <1>4 DEF Answer
  <2> DEFINE f == [flight[s] EXCEPT !.stage = "answered", !.answer = a]
  <2>2. FetchOK(flight[s])
    BY <1>0, <1>4 DEF FlightOK, Answer
  <2>3. FetchOK(f)
    BY <1>0, <2>2, <1>4 DEF FetchOK, Answers, ScalarsOK, Answer, Tables
  <2>4. flight' = [flight EXCEPT ![s] = f]
    BY <1>0, <2>1 DEF FlightOK
  <2>5. FlightOK'
    <3> HIDE DEF f
    <3> QED BY <1>0, <2>3, <2>4, SlotFilled
  <2> QED BY <1>0, <1>4, <2>5 DEF Answer, ScalarsOK, server, view, client
<1>5. ASSUME NEW s \in Slots, Fail(s) PROVE ScalarsOK' /\ FlightOK'
  <2> DEFINE f == [flight[s] EXCEPT !.stage = "failed", !.answer = None]
  <2>2. FetchOK(flight[s])
    BY <1>0, <1>5 DEF FlightOK, Fail, Unreachable
  <2>3. FetchOK(f)
    BY <2>2 DEF FetchOK
  <2>4. flight' = [flight EXCEPT ![s] = f]
    BY <1>0, <1>5 DEF FlightOK, Fail
  <2>5. FlightOK'
    <3> HIDE DEF f
    <3> QED BY <1>0, <2>3, <2>4, SlotFilled
  <2> QED BY <1>0, <1>5, <2>5 DEF Fail, ScalarsOK, server, view, client
<1>6. ASSUME NEW s \in Slots, StatusArrives(s) PROVE ScalarsOK' /\ FlightOK'
  <2>1. flight[s].answer \in Statuses
    BY <1>0, <1>6 DEF FlightOK, StatusArrives, Ends, FetchOK
  <2>2. status' \in Statuses
    BY <1>6, <2>1 DEF StatusArrives, Show
  <2>3. FlightOK'
    BY <1>0, <1>6, FetchTyped, SlotFilled DEF StatusArrives
  <2> QED BY <1>0, <1>6, <2>2, <2>3 DEF StatusArrives, ScalarsOK, server, client
<1>7. ASSUME NEW s \in Slots, StatusFails(s) PROVE ScalarsOK' /\ FlightOK'
  <2>1. FlightOK'
    BY <1>0, <1>7, SlotFilled DEF StatusFails
  <2> QED BY <1>0, <1>7, <2>1 DEF StatusFails, ScalarsOK, server, client
<1>8. ASSUME NEW s \in Slots, ClientsArrive(s) PROVE ScalarsOK' /\ FlightOK'
  <2>1. flight[s].answer \in Tables
    BY <1>0, <1>8 DEF FlightOK, ClientsArrive, Ends, FetchOK
  <2>2. FlightOK'
    BY <1>0, <1>8, SlotFilled DEF ClientsArrive
  <2> QED BY <1>0, <1>8, <2>1, <2>2 DEF ClientsArrive, ScalarsOK, server, view, Tables
<1>9. ASSUME NEW s \in Slots, ClientsFail(s) PROVE ScalarsOK' /\ FlightOK'
  <2>1. FlightOK'
    BY <1>0, <1>9, SlotFilled DEF ClientsFail
  <2> QED BY <1>0, <1>9, <2>1 DEF ClientsFail, ScalarsOK, server, view, client
<1>10. CASE Change
  <2>1. changes' \in 0..MaxChanges
    BY <1>0, <1>10, PanelAssumption DEF Change, ScalarsOK
  <2> QED BY <1>0, <1>10, <2>1 DEF Change, ScalarsOK, FlightOK, view, client, FetchOK, Tables, Slots
<1>11. CASE UNCHANGED vars
  BY <1>0, <1>11 DEF vars, server, view, client, ScalarsOK, FlightOK, FetchOK, Tables, Slots
<1> QED
  BY <1>1, <1>2, <1>3, <1>4, <1>5, <1>6, <1>7, <1>8, <1>9, <1>10, <1>11 DEF Next, Resume

\* Every reachable state of the panel is well typed; in particular no answer
\* of one route is ever taken for an answer of the other.
THEOREM PanelTypeCorrect == Spec => []PanelTypeOK
  BY InitTyped, StepTyped, PTL DEF Spec

-----------------------------------------------------------------------------
(* The charts on the page *)

\* The overview is no listener.
LEMMA CardsHaveNames ==
  ASSUME NEW ls \in Statuses PROVE Overview \notin Cards(ls)
  BY PanelAssumption

\* Showing an answer leaves exactly its charts, each drawn from it.
LEMMA ShowFollows ==
  ASSUME PanelTypeOK, ChartsFollowStatus, NEW ls \in Statuses, Show(ls)
  PROVE  ChartsFollowStatus'
<1> DEFINE Page(st) == IF st = None THEN {} ELSE Cards(st) \cup {Overview}
<1>0. status' = ls /\ ls # None /\ (status = None \/ status \in Statuses)
  BY PanelAssumption DEF Show, PanelTypeOK
<1>1. DOMAIN charts = Page(status) /\ onResize = Page(status)
  BY DEF ChartsFollowStatus
<1>2. (Page(status) \ Gone(ls)) \cup New(ls) = Page(ls)
  BY <1>0, CardsHaveNames DEF Gone, New
<1>3. DOMAIN charts' = Page(ls) /\ onResize' = Page(ls)
  BY <1>1, <1>2 DEF Show
<1>4. ASSUME NEW c \in Page(ls) PROVE charts'[c] = Drawing(c, ls)
  <2>1. c \in Redrawn(ls) \cup New(ls)
    BY <1>0, <1>1, <1>4 DEF Redrawn, New
  <2>2. c \in (DOMAIN charts \ Gone(ls)) \cup New(ls)
    BY <1>1, <1>2, <1>4
  <2> QED BY <2>1, <2>2 DEF Show
<1>5. \A c \in DOMAIN charts' : charts'[c] = Drawing(c, status')
  BY <1>0, <1>3, <1>4
<1> QED
  BY <1>0, <1>3, <1>5 DEF ChartsFollowStatus, Drawing, Cards

\* Charts come and go with the components.
LEMMA StepFollows ==
  ASSUME PanelTypeOK, ChartsFollowStatus, [Next]_vars PROVE ChartsFollowStatus'
<1>1. ASSUME NEW s \in Slots, StatusArrives(s) PROVE ChartsFollowStatus'
  <2>1. flight[s].answer \in Statuses /\ Show(flight[s].answer)
    BY <1>1 DEF StatusArrives, Ends, PanelTypeOK, FetchOK
  <2> QED BY <2>1, ShowFollows
<1>2. CASE UNCHANGED <<status, charts, onResize>>
  BY <1>2 DEF ChartsFollowStatus, Drawing, Cards
<1>3. (\E s \in Slots : StatusArrives(s)) \/ UNCHANGED <<status, charts, onResize>>
  BY DEF Next, Resume, vars, view, StatusTimer, ClientsTimer, SetSort, Answer,
         Fail, StatusFails, ClientsArrive, ClientsFail, Change
<1> QED BY <1>1, <1>2, <1>3

\* A component has a chart and a resize handler exactly while it is on the
\* page, and its chart shows the status on the page.
THEOREM ChartsFollowStatusCorrect == Spec => []ChartsFollowStatus
<1>1. Init => ChartsFollowStatus
  BY DEF Init, ChartsFollowStatus
<1> QED BY <1>1, InitTyped, StepTyped, StepFollows, PTL DEF Spec

-----------------------------------------------------------------------------
(* Induction. The library's induction theorems take an operator, which no    *)
(* prover here can supply; a well-founded order on finite sets takes none.   *)

\* Of finitely many elements, a collection of sets has a least one.
LEMMA LeastSet == 
  \A S, F : IsFiniteSet(S) /\ F # {} /\ (\A T \in F : T \subseteq S)
            => \E T \in F : \A U \in F : U \subseteq T => U = T
<1> SUFFICES ASSUME NEW S, NEW F, IsFiniteSet(S), F # {}, \A T \in F : T \subseteq S
             PROVE \E T \in F : \A U \in F : U \subseteq T => U = T
  OBVIOUS
<1>1. IsWellFoundedOn(StrictSubsetOrdering(S), FiniteSubsetsOf(S))
  BY FS_StrictSubsetOrderingWellFounded
<1>2. F \subseteq FiniteSubsetsOf(S)
  BY FS_FiniteSubsetsOfFinite
<1>3. PICK T \in F : \A U \in F : ~(<<U, T>> \in StrictSubsetOrdering(S))
  BY <1>1, <1>2, WFMin
<1>4. \A U \in F : U \subseteq T => U = T
  BY <1>3 DEF StrictSubsetOrdering
<1> QED BY <1>4

\* A set that holds zero and every successor holds every number.
LEMMA NatSet ==
  \A A : 0 \in A /\ (\A n \in Nat : n \in A => n + 1 \in A) => Nat \subseteq A
<1> SUFFICES ASSUME NEW A, 0 \in A, \A n \in Nat : n \in A => n + 1 \in A,
                    NEW n \in Nat, n \notin A
             PROVE  FALSE
  OBVIOUS
<1> DEFINE F == {T \in SUBSET (0..n) : \E m \in Nat : T = 0..m /\ m \notin A}
<1>1. IsFiniteSet(0..n)
  BY FS_Interval
<1>2. 0..n \in F
  OBVIOUS
<1>3. PICK T \in F : \A U \in F : U \subseteq T => U = T
  <2>1. F # {} /\ (\A T \in F : T \subseteq 0..n)
    BY <1>2
  <2> HIDE DEF F
  <2> QED BY <1>1, <2>1, LeastSet
<1>4. PICK m \in Nat : T = 0..m /\ m \notin A
  OBVIOUS
<1>5. m # 0 /\ m - 1 \in Nat /\ m - 1 \notin A
  BY <1>4
<1>6. 0..(m-1) \subseteq T /\ m \notin 0..(m-1) /\ m \in T
  BY <1>4, <1>5
<1>7. 0..(m-1) \in F
  BY <1>5, <1>6, <1>3
<1> QED BY <1>3, <1>6, <1>7

\* The index a fold over a sequence takes next.
LEMMA LargestIndex ==
  \A n \in Nat : \A S \in SUBSET (1..n) : 
     S # {} => Max(S) \in S /\ \A x \in S : x <= Max(S)
<1> SUFFICES ASSUME NEW n \in Nat, NEW S \in SUBSET (1..n), S # {}
             PROVE Max(S) \in S /\ \A x \in S : x <= Max(S)
  OBVIOUS
<1> DEFINE Above(t) == {u \in S : u > t}
           F == {Above(t) : t \in S}
<1>1. IsFiniteSet(S)
  <2>1. IsFiniteSet(1..n)
    BY FS_Interval
  <2> QED BY <2>1, FS_Subset
<1>2. PICK T \in F : \A U \in F : U \subseteq T => U = T
  <2>1. F # {} /\ \A T \in F : T \subseteq S
    OBVIOUS
  <2> HIDE DEF F
  <2> QED BY <1>1, <2>1, LeastSet
<1>3. PICK t \in S : T = Above(t)
  BY <1>2
<1>4. \A x \in S : t >= x
  <2> SUFFICES ASSUME NEW x \in S, x > t PROVE FALSE
    OBVIOUS
  <2>1. Above(x) \subseteq Above(t)
    <3>1. S \subseteq Int
      OBVIOUS
    <3>2. ASSUME NEW u \in S, u > x PROVE u > t
      <4>1. u \in Int /\ x \in Int /\ t \in Int
        BY <3>1
      <4> QED BY <4>1, <3>2
    <3> QED BY <3>2
  <2>2. x \in Above(t) /\ x \notin Above(x)
    OBVIOUS
  <2>3. Above(x) \in F
    OBVIOUS
  <2> QED BY <1>2, <1>3, <2>1, <2>2, <2>3
<1> QED BY <1>4 DEF Max

\* The turns of a loop: from the value before and the index to the value after,
Steps(V, n) == [V \X (1..n) -> V]

\* and the values that a loop of n turns goes through.
LoopRun(f, V, base, step, n) ==
  /\ f \in [0..n -> V] /\ f[0] = base
  /\ \A i \in 1..n : f[i] = step[<<f[i - 1], i>>]

\* Every loop has them.
LEMMA LoopRuns ==
  \A V, base, step, n :
    n \in Nat /\ base \in V /\ step \in Steps(V, n) => \E f : LoopRun(f, V, base, step, n)
<1> SUFFICES ASSUME NEW V, NEW base, NEW step, NEW n,
                    n \in Nat, base \in V, step \in Steps(V, n)
             PROVE \E f : LoopRun(f, V, base, step, n)
  OBVIOUS
<1> USE DEF Steps
<1> DEFINE Runs(f, m) == f \in [0..m -> V] /\ f[0] = base /\ \A i \in 1..m : f[i] = step[<<f[i - 1], i>>]
           A == {m \in Nat : m <= n => \E f : Runs(f, m)}
<1>1. 0 \in A
  <2>1. Runs([i \in 0..0 |-> base], 0)
    OBVIOUS
  <2> HIDE DEF Runs
  <2> QED BY <2>1
<1>2. ASSUME NEW m \in Nat, m \in A PROVE m + 1 \in A
  <2>1. CASE m + 1 > n
    <3>1. ~(m + 1 <= n) /\ m + 1 \in Nat
      BY <2>1
    <3> HIDE DEF Runs
    <3> QED BY <3>1
  <2>2. CASE m + 1 <= n
    <3>1. PICK f : Runs(f, m)
      <4> HIDE DEF Runs
      <4> QED BY <1>2, <2>2
    <3> DEFINE g == [i \in 0..(m + 1) |-> IF i <= m THEN f[i] ELSE step[<<f[m], m + 1>>]]
    <3>2. g \in [0..(m + 1) -> V]
      BY <2>2, <3>1
    <3>3. g[0] = base
      BY <3>1
    <3>4. ASSUME NEW i \in 1..(m + 1) PROVE g[i] = step[<<g[i - 1], i>>]
      <4>1. g[i - 1] = f[i - 1]
        OBVIOUS
      <4>2. CASE i <= m
        <5>1. g[i] = f[i] /\ i \in 1..m
          BY <4>2
        <5> QED BY <5>1, <4>1, <3>1
      <4>3. CASE i = m + 1
        <5>1. g[i] = step[<<f[m], m + 1>>] /\ i - 1 = m
          BY <4>3
        <5> QED BY <5>1, <4>1, <4>3
      <4> QED BY <4>2, <4>3
    <3>5. Runs(g, m + 1)
      BY <3>2, <3>3, <3>4
    <3> HIDE DEF g, Runs
    <3> QED BY <3>5, <2>2
  <2> QED BY <2>1, <2>2
<1>3. n \in A
  <2> HIDE DEF A
  <2> QED BY <1>1, <1>2, NatSet
<1> QED BY <1>3 DEF LoopRun

-----------------------------------------------------------------------------
(* The figures of the overview *)

\* What sumBackends' map holds after the listeners at the indices in S.
UpOf(ls, S) ==
  [a \in UNION {DOMAIN ls[j].backends : j \in S} |-> \E j \in S : Reports(ls[j], a)]

\* One turn of its loop adds one index,
LEMMA UpOfStep ==
  ASSUME NEW ls, NEW S, NEW i \in S, \A j \in S : \A a \in DOMAIN ls[j].backends : ls[j].backends[a] \in BOOLEAN
  PROVE  UpOf(ls, S) = MarkUp(UpOf(ls, S \ {i}), ls[i])
<1> DEFINE u == UpOf(ls, S \ {i})
           D == UNION {DOMAIN ls[j].backends : j \in S}
           d == UNION {DOMAIN ls[j].backends : j \in S \ {i}}
<1>1. D = d \cup DOMAIN ls[i].backends
  OBVIOUS
<1>2. DOMAIN u = d
  BY DEF UpOf
<1>3. ASSUME NEW a \in D
      PROVE  (\E j \in S : Reports(ls[j], a)) = ((a \in d /\ u[a]) \/ Reports(ls[i], a))
  <2>1. a \in d => u[a] = \E j \in S \ {i} : Reports(ls[j], a)
    BY DEF UpOf
  <2>2. a \notin d => ~ \E j \in S \ {i} : Reports(ls[j], a)
    BY DEF Reports
  <2> QED BY <2>1, <2>2 DEF Reports
<1> QED BY <1>1, <1>2, <1>3 DEF UpOf, MarkUp

\* so that the map holds what some listener reports, in any order.
LEMMA UpFold ==
  ASSUME NEW ls, StatusOK(ls)
  PROVE  FoldLeft(MarkUp, <<>>, ls) = UpOf(ls, DOMAIN ls)
<1> DEFINE n == Len(ls)
           Body(f, s) == IF s = {} THEN <<>> ELSE MarkUp(f[s \ {Max(s)}], ls[Max(s)])
           h == [s \in SUBSET (DOMAIN ls) |-> UpOf(ls, s)]
<1>1. n \in Nat /\ DOMAIN ls = 1..n
  BY DEF StatusOK
<1>2. \A s \in SUBSET (DOMAIN ls) : s # {} => Max(s) \in s
  BY <1>1, LargestIndex
<1>3. UpOf(ls, {}) = <<>>
  BY DEF UpOf
<1>4. \A s \in SUBSET (DOMAIN ls) : s # {} => UpOf(ls, s) = MarkUp(UpOf(ls, s \ {Max(s)}), ls[Max(s)])
  BY <1>2, UpOfStep DEF StatusOK, ListenerOK
<1>5. h = [s \in SUBSET (DOMAIN ls) |-> Body(h, s)]
  BY <1>3, <1>4
<1>6. ASSUME NEW f, f = [s \in SUBSET (DOMAIN ls) |-> Body(f, s)]
      PROVE  f = h
  <2> DEFINE F == {s \in SUBSET (DOMAIN ls) : f[s] # UpOf(ls, s)}
  <2>1. SUFFICES ASSUME F # {} PROVE FALSE
    <3> HIDE DEF Body
    <3> QED BY <1>6
  <2>2. IsFiniteSet(DOMAIN ls)
    BY <1>1, FS_Interval
  <2>3. PICK s \in F : \A t \in F : t \subseteq s => t = s
    <3>1. \A t \in F : t \subseteq DOMAIN ls
      OBVIOUS
    <3> HIDE DEF F
    <3> QED BY <2>1, <2>2, <3>1, LeastSet
  <2>4. f[s] = Body(f, s)
    <3> HIDE DEF Body
    <3> QED BY <1>6
  <2>5. s # {}
    BY <2>4, <1>3
  <2>6. Max(s) \in s
    BY <2>5, <1>2
  <2>7. f[s \ {Max(s)}] = UpOf(ls, s \ {Max(s)})
    BY <2>3, <2>6
  <2>8. f[s] = UpOf(ls, s)
    BY <2>4, <2>5, <2>7, <1>4
  <2> QED BY <2>8
<1> DEFINE g == CHOOSE f : f = [s \in SUBSET (DOMAIN ls) |-> Body(f, s)]
<1>7. g = [s \in SUBSET (DOMAIN ls) |-> Body(g, s)]
  <2> HIDE DEF h, Body
  <2> QED BY <1>5
<1>8. g = h
  <2> HIDE DEF g, h, Body
  <2> QED BY <1>6, <1>7
<1>9. FoldLeft(MarkUp, <<>>, ls) = g[DOMAIN ls]
  BY DEF FoldLeft, MapThenFoldSet
<1> QED BY <1>8, <1>9

\* The last point of a curve is the rate of the last two samples, wherever the
\* clock moved on between them, whatever it did before.
LEMMA SeriesTurns ==
  ASSUME NEW h \in Seq(Samples), Len(h) > 1, Forward(h[Len(h) - 1], h[Len(h)])
  PROVE  Last(RateSeries(h, "in")) = Rate(h[Len(h) - 1], h[Len(h)], "in")
<1> DEFINE n == Len(h)
           Added(c, i) == IF i < 2 THEN <<>>
                          ELSE IF ~Forward(h[i - 1], h[i]) THEN c
                          ELSE Append(c, Rate(h[i - 1], h[i], "in"))
           Body(f, i) == IF i < 2 THEN <<>>
                         ELSE IF ~Forward(h[i - 1], h[i]) THEN f[i - 1]
                         ELSE Append(f[i - 1], Rate(h[i - 1], h[i], "in"))
           step == [p \in Seq(Int) \X (1..n) |-> Added(p[1], p[2])]
<1>1. n \in Nat
  OBVIOUS
<1>2. \A i \in 2..n : Forward(h[i-1], h[i]) => Rate(h[i - 1], h[i], "in") \in Int
  <2> SUFFICES ASSUME NEW i \in 2..n, Forward(h[i-1], h[i]) PROVE Rate(h[i - 1], h[i], "in") \in Int
    OBVIOUS
  <2>1. h[i] \in Samples /\ h[i - 1] \in Samples
    OBVIOUS
  <2>2. h[i].t \in Int /\ h[i-1].t \in Int /\ h[i]["in"] \in Int /\ h[i-1]["in"] \in Int
    BY <2>1 DEF Samples
  <2>3. h[i].t - h[i-1].t \in Nat \ {0}
    BY <2>2 DEF Forward
  <2> QED BY <2>2, <2>3 DEF Rate
<1>3. step \in [Seq(Int) \X (1..n) -> Seq(Int)]
  <2>1. ASSUME NEW c \in Seq(Int), NEW i \in 1..n PROVE Added(c, i) \in Seq(Int)
    BY <1>1, <1>2
  <2> HIDE DEF Added
  <2> QED BY <2>1
<1>4. PICK f \in [0..n -> Seq(Int)] : f[0] = <<>> /\ \A i \in 1..n : f[i] = step[<<f[i - 1], i>>]
  <2>1. <<>> \in Seq(Int)
    OBVIOUS
  <2>2. step \in Steps(Seq(Int), n)
    BY <1>3 DEF Steps
  <2>3. \E f : LoopRun(f, Seq(Int), <<>>, step, n)
    <3> HIDE DEF step
    <3> QED BY <1>1, <2>1, <2>2, LoopRuns
  <2> HIDE DEF step
  <2> QED BY <2>3 DEF LoopRun
<1>5. \A i \in 0..n : f[i] = Body(f, i)
  <2> SUFFICES ASSUME NEW i \in 0..n PROVE f[i] = Body(f, i)
    OBVIOUS
  <2>1. CASE i = 0
    BY <1>4, <2>1
  <2>2. CASE i \in 1..n
    <3>1. <<f[i - 1], i>> \in Seq(Int) \X (1..n)
      <4>1. i - 1 \in 0..n
        BY <1>1, <2>2
      <4> HIDE DEF step
      <4> QED BY <1>4, <2>2, <4>1
    <3>2. f[i] = Added(f[i - 1], i)
      <4> HIDE DEF Added
      <4> QED BY <1>4, <2>2, <3>1
    <3> QED BY <3>2
  <2> QED BY <2>1, <2>2
<1>6. f = [i \in 0..n |-> Body(f, i)]
  <2> HIDE DEF Body
  <2> QED BY <1>5
<1> DEFINE g == CHOOSE g : g = [i \in 0..n |-> Body(g, i)]
<1>7. g = [i \in 0..n |-> Body(g, i)]
  <2> HIDE DEF Body
  <2> QED BY <1>6
<1>8. RateSeries(h, "in") = g[n]
  BY DEF RateSeries
<1> HIDE DEF g
<1>9. g = f
  <2> DEFINE A == {i \in Nat : i <= n => g[i] = f[i]}
  <2>1. 0 \in A
    BY <1>7, <1>4, <1>1
  <2>2. ASSUME NEW i \in Nat, i \in A PROVE i + 1 \in A
    <3> SUFFICES ASSUME i + 1 <= n PROVE g[i + 1] = f[i + 1]
      OBVIOUS
    <3>1. g[i] = f[i]
      BY <2>2, <1>1
    <3>2. g[i + 1] = Body(g, i + 1) /\ f[i + 1] = Body(f, i + 1)
      <4>1. i + 1 \in 0..n
        BY <1>1
      <4> HIDE DEF Body, n
      <4> QED BY <4>1, <1>6, <1>7
    <3>3. Body(g, i + 1) = Body(f, i + 1)
      BY <3>1
    <3> QED BY <3>2, <3>3
  <2>3. Nat \subseteq A
    <3> HIDE DEF A
    <3> QED BY <2>1, <2>2, NatSet
  <2>4. \A i \in 0..n : g[i] = f[i]
    BY <2>3, <1>1
  <2>5. DOMAIN g = 0..n
    <3> HIDE DEF Body
    <3> QED BY <1>7
  <2>6. g = [i \in 0..n |-> g[i]]
    <3> HIDE DEF Body
    <3> QED BY <1>7
  <2> QED BY <2>4, <2>6, <1>4
<1>10. f[n] = Append(f[n - 1], Rate(h[n - 1], h[n], "in"))
  BY <1>5, <1>1
<1>11. f[n - 1] \in Seq(Int) /\ Rate(h[n - 1], h[n], "in") \in Int
  BY <1>1, <1>2, <1>4
<1> QED BY <1>8, <1>9, <1>10, <1>11 DEF Last

\* The overview of any well-typed status: its counts are those of the rows of
\* all cards, its rates the ends of their curves, one by one.
LEMMA OverviewFigures ==
  ASSUME PanelTypeOK PROVE OverviewAgrees
<1> SUFFICES ASSUME status # None PROVE OverviewAgrees
  BY DEF OverviewAgrees
<1> DEFINE ls == status
           D        == DOMAIN ls
           rows     == UNION {CardRows(l) : l \in ToSet(ls)}
           upSome   == {r.backend : r \in {q \in rows : q.health = "UP"}}
           named    == {r.backend : r \in rows}
           moved(l) == LET n == Len(l.history) IN n > 1 /\ Forward(l.history[n - 1], l.history[n])
           end(l)   == IF moved(l) THEN Last(RateSeries(l.history, "in")) ELSE 0
           ends     == [i \in D |-> end(ls[i])]
           rates    == [i \in D |-> PerSecond(ls[i].history, "in")]
           u        == UpOf(ls, D)
<1>1. StatusOK(ls)
  BY PanelAssumption DEF PanelTypeOK
<1>2. ToSet(ls) = {ls[i] : i \in D}
  BY DEF ToSet
<1>3. \A i \in D : CardRows(ls[i]) =
        {[backend |-> a, health |-> IF ls[i].backends[a] THEN "UP" ELSE "DOWN"] : a \in DOMAIN ls[i].backends}
  BY DEF CardRows
<1> DEFINE row(i, a) == [backend |-> a, health |-> IF ls[i].backends[a] THEN "UP" ELSE "DOWN"]
<1>4. \A r : r \in rows <=> \E i \in D : \E a \in DOMAIN ls[i].backends : r = row(i, a)
  <2>1. \A r : r \in rows <=> \E i \in D : r \in CardRows(ls[i])
    BY <1>2
  <2> HIDE DEF rows
  <2> QED BY <2>1, <1>3
<1>5. named = DOMAIN u
  <2>1. ASSUME NEW r \in rows PROVE r.backend \in DOMAIN u
    <3>1. PICK i \in D : \E a \in DOMAIN ls[i].backends : r = row(i, a)
      BY <1>4
    <3>2. PICK a \in DOMAIN ls[i].backends : r = row(i, a)
      BY <3>1
    <3> QED BY <3>2 DEF UpOf
  <2>2. ASSUME NEW a \in DOMAIN u PROVE a \in named
    <3>1. PICK i \in D : a \in DOMAIN ls[i].backends
      BY DEF UpOf
    <3>2. row(i, a) \in rows /\ row(i, a).backend = a
      BY <1>4, <3>1
    <3> QED BY <3>2
  <2> HIDE DEF rows, u
  <2> QED BY <2>1, <2>2
<1>6. upSome = {a \in DOMAIN u : u[a]}
  <2>1. ASSUME NEW r \in rows, r.health = "UP" PROVE r.backend \in DOMAIN u /\ u[r.backend]
    <3>1. PICK i \in D : \E a \in DOMAIN ls[i].backends : r = row(i, a)
      BY <1>4
    <3>2. PICK a \in DOMAIN ls[i].backends : r = row(i, a)
      BY <3>1
    <3>3. r.backend = a /\ Reports(ls[i], a)
      BY <2>1, <3>2 DEF Reports
    <3> QED BY <3>2, <3>3 DEF UpOf
  <2>2. ASSUME NEW a \in DOMAIN u, u[a] PROVE a \in upSome
    <3>1. PICK i \in D : Reports(ls[i], a)
      BY <2>2 DEF UpOf
    <3>2. row(i, a) \in rows /\ row(i, a).backend = a /\ row(i, a).health = "UP"
      BY <1>4, <3>1 DEF Reports
    <3> HIDE DEF rows, row
    <3> QED BY <3>2
  <2> HIDE DEF rows, u
  <2> QED BY <2>1, <2>2
<1>7. SumBackends(ls) = [healthy |-> Cardinality(upSome), total |-> Cardinality(named)]
  <2>1. FoldLeft(MarkUp, <<>>, ls) = u
    BY <1>1, UpFold
  <2> HIDE DEF upSome, named, u
  <2> QED BY <2>1, <1>5, <1>6 DEF SumBackends
<1>8. rates = ends
  <2> SUFFICES ASSUME NEW i \in D PROVE PerSecond(ls[i].history, "in") = end(ls[i])
    OBVIOUS
  <2> DEFINE h == ls[i].history
             n == Len(h)
  <2>1. h \in Seq(Samples) /\ n \in Nat
    BY <1>1 DEF StatusOK, ListenerOK
  <2>2. CASE moved(ls[i])
    <3>1. Last(RateSeries(h, "in")) = Rate(h[n - 1], h[n], "in")
      BY <2>1, <2>2, SeriesTurns
    <3>2. PerSecond(h, "in") = Rate(h[n - 1], h[n], "in")
      BY <2>1, <2>2 DEF PerSecond
    <3> QED BY <2>2, <3>1, <3>2
  <2>3. CASE ~moved(ls[i])
    <3>1. PerSecond(h, "in") = 0
      BY <2>1, <2>3 DEF PerSecond
    <3> QED BY <2>3, <3>1
  <2> QED BY <2>2, <2>3
<1>9. SumRate(ls, "in") = Total(ends)
  BY <1>8 DEF SumRate
<1>10. OverviewStats(ls) =
        [up |-> Cardinality(upSome), of |-> Cardinality(named), inPps |-> Total(ends)]
  <2> HIDE DEF upSome, named, ends
  <2> QED BY <1>7, <1>9 DEF OverviewStats
<1> QED BY <1>10 DEF OverviewAgrees

\* For every answer, any number of listeners that share backends and any
\* history, the overview counts each distinct backend once, as up when some
\* card shows it up, and adds up the rates the cards' charts end with.
THEOREM OverviewAgreesCorrect == Spec => []OverviewAgrees
  BY PanelTypeCorrect, OverviewFigures, PTL

-----------------------------------------------------------------------------
(* The text of an age, for every pair of clock readings *)

\* The rounding: what the age is, in seconds, of a row of n nanoseconds.
LEMMA Rounding ==
  ASSUME NEW now \in Nat, NEW seen \in Nat
  PROVE  LET s == AgeSeconds(now, seen)
             n == 1000000 * now - seen
         IN /\ s \in Nat
            /\ n <= 0 => s = 0
            /\ n > 0 => /\ 1000000000 * s <= n + 500000000
                        /\ n < 1000000000 * s + 500000000
<1> DEFINE n == 1000000 * now - seen
           r == (n + 500000000) \div 1000000000
<1>1. n \in Int
  OBVIOUS
<1>2. AgeSeconds(now, seen) = IF r > 0 THEN r ELSE 0
  BY DEF AgeSeconds
<1> HIDE DEF n
<1>3. /\ r \in Int /\ 1000000000 * r <= n + 500000000
      /\ n + 500000000 < 1000000000 * r + 1000000000
  BY <1>1
<1> HIDE DEF r
<1> QED BY <1>1, <1>2, <1>3 DEF n

\* Quotient and remainder, of minutes
LEMMA Minutes ==
  ASSUME NEW n \in 0..3599
  PROVE  /\ n \div 60 \in 0..59 /\ n % 60 \in 0..59
         /\ 60 * (n \div 60) + (n % 60) = n
  OBVIOUS

\* and of hours.
LEMMA Hours ==
  ASSUME NEW n \in Nat
  PROVE  /\ n \div 3600 \in Nat /\ n % 3600 \in 0..3599
         /\ 3600 * (n \div 3600) + (n % 3600) = n
  OBVIOUS

\* The three forms of the text of a row that has been seen.
LEMMA AgoForms ==
  ASSUME NEW now, NEW seen, seen # 0
  PROVE  LET s == AgeSeconds(now, seen) IN
         /\ s < 60 => Ago(now, seen) = [h |-> 0, m |-> 0, s |-> s]
         /\ ~(s < 60) /\ s < 3600 =>
              Ago(now, seen) = [h |-> 0, m |-> s \div 60, s |-> s % 60]
         /\ ~(s < 60) /\ ~(s < 3600) =>
              Ago(now, seen) = [h |-> s \div 3600, m |-> (s % 3600) \div 60, s |-> 0]
<1> DEFINE s == AgeSeconds(now, seen)
<1>1. Ago(now, seen) = IF s < 60 THEN [h |-> 0, m |-> 0, s |-> s]
                       ELSE IF s < 3600 THEN [h |-> 0, m |-> s \div 60, s |-> s % 60]
                       ELSE [h |-> s \div 3600, m |-> (s % 3600) \div 60, s |-> 0]
  BY DEF Ago
<1> HIDE DEF s
<1>2. ASSUME s < 60
      PROVE  Ago(now, seen) = [h |-> 0, m |-> 0, s |-> s]
  BY <1>1, <1>2
<1>3. ASSUME ~(s < 60), s < 3600
      PROVE  Ago(now, seen) = [h |-> 0, m |-> s \div 60, s |-> s % 60]
  BY <1>1, <1>3
<1>4. ASSUME ~(s < 60), ~(s < 3600)
      PROVE  Ago(now, seen) = [h |-> s \div 3600, m |-> (s % 3600) \div 60, s |-> 0]
  BY <1>1, <1>4
<1> QED BY <1>2, <1>3, <1>4 DEF s

\* What a text of hours, minutes and seconds says.
Seconds(a) == 3600 * a.h + 60 * a.m + a.s

\* What the forms leave of the rounded age, and of its parts.
LEMMA AgoParts ==
  ASSUME NEW now \in Nat, NEW seen \in Nat \ {0}
  PROVE  LET a == Ago(now, seen)
             s == AgeSeconds(now, seen)
         IN /\ a.h \in Nat /\ a.m \in 0..59 /\ a.s \in 0..59
            /\ Seconds(a) <= s /\ s < Seconds(a) + 60
            /\ (a.h = 0 => Seconds(a) = s)
<1> DEFINE a == Ago(now, seen)
           s == AgeSeconds(now, seen)
<1>1. s \in Nat
  BY Rounding
<1>2. CASE s < 60
  <2>1. a = [h |-> 0, m |-> 0, s |-> s]
    BY <1>2, AgoForms
  <2> HIDE DEF a, s
  <2>2. a.h = 0 /\ a.m = 0 /\ a.s = s
    BY <2>1
  <2>3. a.m \in 0..59 /\ a.s \in 0..59 /\ Seconds(a) = s
    BY <1>1, <1>2, <2>2 DEF Seconds
  <2> QED BY <1>1, <2>2, <2>3 DEF a, s
<1>3. CASE ~(s < 60) /\ s < 3600
  <2>1. a = [h |-> 0, m |-> s \div 60, s |-> s % 60]
    BY <1>3, AgoForms
  <2> HIDE DEF a, s
  <2>2. a.h = 0 /\ a.m = s \div 60 /\ a.s = s % 60
    BY <2>1
  <2>3. s \in 0..3599
    BY <1>1, <1>3
  <2>4. a.m \in 0..59 /\ a.s \in 0..59 /\ Seconds(a) = s
    BY <2>2, <2>3, Minutes DEF Seconds
  <2> QED BY <1>1, <2>2, <2>4 DEF a, s
<1>4. CASE ~(s < 60) /\ ~(s < 3600)
  <2> DEFINE r == s % 3600
  <2>1. a = [h |-> s \div 3600, m |-> r \div 60, s |-> 0]
    BY <1>4, AgoForms
  <2> HIDE DEF a, s
  <2>2. a.h = s \div 3600 /\ a.m = r \div 60 /\ a.s = 0
    BY <2>1
  <2>3. a.h \in Nat /\ r \in 0..3599 /\ 3600 * a.h + r = s
    BY <1>1, <2>2, Hours
  <2> HIDE DEF r
  <2>4. a.m \in 0..59 /\ r % 60 \in 0..59 /\ 60 * a.m + (r % 60) = r
    BY <2>2, <2>3, Minutes
  <2>5. Seconds(a) = 3600 * a.h + 60 * a.m
    BY <2>2, <2>3, <2>4 DEF Seconds
  <2>6. Seconds(a) <= s /\ s < Seconds(a) + 60
    BY <2>3, <2>4, <2>5
  <2>7. ASSUME a.h = 0 PROVE FALSE
    <3>1. s = r
      BY <2>3, <2>7
    <3> QED BY <1>4, <2>3, <3>1
  <2> QED BY <1>1, <2>2, <2>3, <2>4, <2>6, <2>7 DEF a, s
<1> QED BY <1>1, <1>2, <1>3, <1>4

\* What ago writes of a row: "-" if it has never been seen, 0 if its clock is
\* ahead of the browser's, and else its age to within half a second below an
\* hour and to within the minute from there on.  The rounding comes before the
\* split, so that no part overflows: 59.6 seconds read "1m0s", not "60s".
THEOREM AgoReads ==
  ASSUME NEW now \in Nat, NEW seen \in Nat
  PROVE  LET a == Ago(now, seen)
             n == 1000000 * now - seen
         IN IF seen = 0 THEN a = "-"
            ELSE /\ a.m \in 0..59 /\ a.s \in 0..59
                 /\ n <= 0 => Seconds(a) = 0
                 /\ n > 0 => /\ 1000000000 * Seconds(a) <= n + 500000000
                             /\ n < 1000000000 * (Seconds(a) + 60)
                             /\ a.h = 0 => n < 1000000000 * Seconds(a) + 500000000
<1>1. CASE seen = 0
  BY <1>1 DEF Ago
<1>2. CASE seen # 0
  <2> DEFINE a == Ago(now, seen)
             s == AgeSeconds(now, seen)
             n == 1000000 * now - seen
             d == Seconds(a)
  <2>1. /\ a.h \in Nat /\ a.m \in 0..59 /\ a.s \in 0..59
        /\ d <= s /\ s < d + 60 /\ (a.h = 0 => d = s)
    BY <1>2, AgoParts
  <2>2. /\ s \in Nat /\ n \in Int
        /\ n <= 0 => s = 0
        /\ n > 0 => 1000000000 * s <= n + 500000000 /\ n < 1000000000 * s + 500000000
    BY Rounding
  <2> HIDE DEF a, s, n
  <2>3. d \in Nat
    <3>1. a.h \in Nat /\ a.m \in Nat /\ a.s \in Nat
      BY <2>1
    <3> QED BY <3>1 DEF Seconds
  <2> HIDE DEF d
  <2>4. /\ n <= 0 => d = 0
        /\ n > 0 => /\ 1000000000 * d <= n + 500000000
                    /\ n < 1000000000 * (d + 60)
                    /\ a.h = 0 => n < 1000000000 * d + 500000000
    BY <2>1, <2>2, <2>3
  <2> QED BY <1>2, <2>1, <2>4 DEF a, n, d
<1> QED BY <1>1, <1>2
=============================================================================
