-------------------------- MODULE RequestLogProofs --------------------------
(***************************************************************************)
(* What RequestLog's safety properties say, for every set of lines, every  *)
(* size of the queue, every retention, and without bounds on days, files,  *)
(* goroutines, crashes and failures.                                       *)
(***************************************************************************)
EXTENDS RequestLog, DailyFileProofs, FiniteSetTheorems, SequenceTheorems

(* Accounted adds up only because a line is in one place at a time: in the   *)
(* queue once, or in the writer's hand, or in bufio.  StopFlushes needs that *)
(* what bufio was given is flushed, or still there, whatever failed before.  *)
Distinct(q) == \A i, k \in 1 .. Len(q) : q[i] = q[k] => i = k
OnePlace == /\ IsFiniteSet(recorded)
            /\ Queued \subseteq recorded /\ writer.hand \subseteq recorded /\ encoded \subseteq recorded
            /\ Distinct(queue)
            /\ writer.hand \cap encoded = {}
            /\ Queued \cap writer.hand = {} /\ Queued \cap encoded = {}
Stamped == \A e \in recorded : stamp[e] # None
Handed == /\ writer.at = "select" => writer.hand = {}
          /\ writer.at = "encode" => writer.hand # {}
          /\ \A e, g \in writer.hand : e = g
Resting == mode \in {"done", "down"} => writer = Fresh
Unopened == IF writer.open = None THEN writer.buf = {} ELSE writer.day # None
Written == /\ faulty \/ encoded \subseteq flushed \cup writer.buf
           /\ writer.broken => faulty
Stopped == /\ before \subseteq recorded
           /\ mode = "done" => before \cap Queued = {}

Inv == /\ LogTypeOK /\ OnePlace /\ Stamped /\ Handed /\ Resting
       /\ Sourced /\ Unopened /\ Written /\ Stopped /\ Accounted

USE DailyFileAssumption, QueueAssumption

-----------------------------------------------------------------------------
(* Sets and sequences *)

\* FreeInodes has a least element.
LEMMA LeastFree ==
  ASSUME FreeInodes # {}
  PROVE  (CHOOSE i \in FreeInodes : \A k \in FreeInodes : i <= k) \in FreeInodes
<1>1. FreeInodes \subseteq Inode BY DEF FreeInodes
<1>2. FreeInodes \subseteq Nat BY <1>1 DEF Inode
<1>3. \E i \in FreeInodes : \A k \in FreeInodes : i <= k BY <1>2, LeastExists
<1> QED BY <1>1, <1>3

Elements(q) == {q[i] : i \in 1 .. Len(q)}

\* The queue after an enqueue.
LEMMA Enqueued ==
  ASSUME NEW q \in Seq(Line), NEW e \in Line, e \notin Elements(q), Distinct(q)
  PROVE  /\ Append(q, e) \in Seq(Line) /\ Len(Append(q, e)) = Len(q) + 1
         /\ Elements(Append(q, e)) = Elements(q) \cup {e}
         /\ Distinct(Append(q, e))
<1> DEFINE r == Append(q, e)
<1>1. /\ r \in Seq(Line) /\ Len(r) = Len(q) + 1 /\ r[Len(q) + 1] = e
      /\ \A i \in 1 .. Len(q) : r[i] = q[i]
  BY AppendProperties
<1>2. Len(q) \in Nat BY LenProperties
<1> HIDE DEF r
<1>3. Elements(r) = Elements(q) \cup {e}
  BY <1>1, <1>2 DEF Elements
<1>4. ASSUME NEW i \in 1 .. Len(r), NEW k \in 1 .. Len(r), r[i] = r[k]
      PROVE  i = k
  <2>1. CASE i \in 1 .. Len(q) /\ k \in 1 .. Len(q)
    BY <1>1, <1>4, <2>1 DEF Distinct
  <2>2. CASE i = Len(q) + 1 /\ k = Len(q) + 1
    BY <2>2
  <2>3. ASSUME NEW j \in 1 .. Len(q) PROVE r[j] # e
    BY <1>1, <2>3 DEF Elements
  <2>4. CASE i = Len(q) + 1 /\ k \in 1 .. Len(q)
    BY <1>1, <1>4, <2>3, <2>4
  <2>5. CASE i \in 1 .. Len(q) /\ k = Len(q) + 1
    BY <1>1, <1>4, <2>3, <2>5
  <2> QED BY <1>1, <1>2, <2>1, <2>2, <2>4, <2>5
<1>5. Distinct(r) BY <1>4 DEF Distinct
<1> QED BY <1>1, <1>3, <1>5 DEF r

\* The queue after the writer took a line off it.
LEMMA Dequeued ==
  ASSUME NEW q \in Seq(Line), q # << >>, Distinct(q)
  PROVE  /\ Head(q) \in Line /\ Head(q) \in Elements(q)
         /\ Tail(q) \in Seq(Line) /\ Len(Tail(q)) = Len(q) - 1
         /\ Elements(Tail(q)) \subseteq Elements(q)
         /\ Head(q) \notin Elements(Tail(q))
         /\ Distinct(Tail(q))
<1> DEFINE r == Tail(q)
<1>1. /\ Head(q) \in Line /\ r \in Seq(Line) /\ Len(r) = Len(q) - 1
      /\ \A i \in 1 .. Len(r) : r[i] = q[i + 1]
  BY HeadTailProperties
<1>2. Len(q) \in Nat /\ Len(q) > 0 BY LenProperties, EmptySeq
<1>3. Head(q) = q[1] OBVIOUS
<1> HIDE DEF r
<1>4. Head(q) \in Elements(q) BY <1>2, <1>3 DEF Elements
<1>5. \A i \in 1 .. Len(r) : i + 1 \in 1 .. Len(q) /\ i + 1 # 1 BY <1>1, <1>2
<1>6. Elements(r) \subseteq Elements(q) BY <1>1, <1>5 DEF Elements
<1>7. Head(q) \notin Elements(r)
  <2> SUFFICES ASSUME NEW i \in 1 .. Len(r), r[i] = Head(q) PROVE FALSE
    BY DEF Elements
  <2>1. q[i + 1] = q[1] BY <1>1, <1>3
  <2>2. 1 \in 1 .. Len(q) BY <1>2
  <2> QED BY <1>5, <2>1, <2>2 DEF Distinct
<1>8. Distinct(r)
  <2> SUFFICES ASSUME NEW i \in 1 .. Len(r), NEW k \in 1 .. Len(r), r[i] = r[k]
               PROVE  i = k
    BY DEF Distinct
  <2>1. q[i + 1] = q[k + 1] BY <1>1
  <2>2. i + 1 = k + 1 BY <1>5, <2>1 DEF Distinct
  <2>3. i \in Int /\ k \in Int BY <1>1, <1>2
  <2> QED BY <2>2, <2>3
<1> QED BY <1>1, <1>4, <1>6, <1>7, <1>8 DEF r

-----------------------------------------------------------------------------
(* The files *)

Writer == [at : Places, day : Day \cup {None}, open : Inode \cup {None},
           hand : SUBSET Line, buf : SUBSET Line, broken : BOOLEAN]

\* A rotation flushes what bufio holds, or something is known to have failed.
LEMMA Rotation ==
  ASSUME LogTypeOK, Sourced, Unopened, Written, NEW d \in Day, NEW hand \in SUBSET Line,
         RotateTo(d, hand)
  PROVE  /\ FilesTypeOK' /\ Sourced' /\ writer' \in Writer
         /\ writer'.at = "prune" /\ writer'.hand = hand /\ writer'.buf = {} /\ ~writer'.broken
         /\ flushed' \in SUBSET Line /\ faulty' \in BOOLEAN
         /\ (faulty' \/ encoded \subseteq flushed') /\ Unopened'
<1>1. PICK ok \in FlushEnds, opens \in BOOLEAN :
        LET new == opens /\ plain[d] = None
            f   == IF new THEN CHOOSE i \in FreeInodes : \A k \in FreeInodes : i <= k
                          ELSE plain[d]
            old == IF writer.open = None THEN {} ELSE {writer.day}
        IN  /\ FreeInodes # {}
            /\ flushed' = IF ok THEN flushed \cup writer.buf ELSE flushed
            /\ data' = [i \in Inode |->
                          IF new /\ i = f THEN {}
                          ELSE IF ok /\ i = writer.open THEN data[i] \cup writer.buf
                          ELSE data[i]]
            /\ plain' = IF new THEN [plain EXCEPT ![d] = f] ELSE plain
            /\ job' = Launched(old)
            /\ writer' = [Fresh EXCEPT !.at = "prune", !.day = d, !.hand = hand,
                                       !.open = IF opens THEN f ELSE None]
            /\ faulty' = (faulty \/ ~ok \/ ~opens)
            /\ UNCHANGED gz
  BY Zenon DEF RotateTo
<1> DEFINE new == opens /\ plain[d] = None
           free == CHOOSE i \in FreeInodes : \A k \in FreeInodes : i <= k
           f   == IF new THEN free ELSE plain[d]
<1>w. /\ writer \in Writer /\ FilesTypeOK /\ flushed \in SUBSET Line /\ faulty \in BOOLEAN
      /\ encoded \in SUBSET Line
  BY DEF LogTypeOK, Writer
<1>t. /\ plain \in [Day -> Inode \cup {None}] /\ data \in [Inode -> SUBSET Line]
      /\ gz \in [Day -> GzType] /\ job \in [Job -> JobType]
  BY <1>w DEF FilesTypeOK, GzType, JobType
<1>2. free \in Inode BY <1>1, LeastFree DEF FreeInodes
<1> HIDE DEF free
<1>3. f \in Inode \cup {None} BY <1>2, <1>t
<1>4. writer.buf \in SUBSET Line BY <1>w DEF Writer
<1>5. data' \in [Inode -> SUBSET Line] BY <1>1, <1>4, <1>t DEF free
<1>6. plain' \in [Day -> Inode \cup {None}] BY <1>1, <1>2, <1>t DEF free
<1>7. job' \in [Job -> JobType] /\ Sourced'
  <2>1. CASE writer.open = None
    BY <1>1, <1>t, <2>1, LaunchTypes
  <2>2. CASE writer.open # None
    <3>1. {writer.day} \in SUBSET Day BY <1>w, <2>2 DEF Writer, Unopened
    <3>2. job' = Launched({writer.day}) BY <1>1, <2>2
    <3> QED BY <1>t, <3>1, <3>2, LaunchTypes
  <2> QED BY <2>1, <2>2
<1>8. writer' \in Writer BY <1>1, <1>3 DEF Writer, Fresh, Places, free
<1>9. faulty' \/ encoded \subseteq flushed'
  BY <1>1, <1>w DEF Written, FlushEnds
<1>10. ok \in BOOLEAN BY DEF FlushEnds
<1>11. flushed' \in SUBSET Line /\ faulty' \in BOOLEAN BY <1>1, <1>4, <1>w, <1>10
<1>12. /\ writer'.at = "prune" /\ writer'.hand = hand /\ writer'.buf = {} /\ ~writer'.broken
  BY <1>1 DEF Fresh
<1>13. FilesTypeOK' BY <1>1, <1>5, <1>6, <1>7, <1>t DEF FilesTypeOK, GzType, JobType
<1>14. Unopened'
  <2>1. d # None BY DEF Day, None
  <2> QED BY <1>1, <2>1 DEF Unopened, Fresh, free
<1> QED BY <1>7, <1>8, <1>9, <1>11, <1>12, <1>13, <1>14

-----------------------------------------------------------------------------
(* The steps *)

\* What Accounted adds up are numbers.
LEMMA Counts ==
  ASSUME LogTypeOK, OnePlace
  PROVE  /\ IsFiniteSet(writer.hand) /\ IsFiniteSet(encoded)
         /\ Cardinality(recorded) \in Nat /\ Cardinality(writer.hand) \in Nat
         /\ Cardinality(encoded) \in Nat /\ Len(queue) \in Nat /\ dropped \in Nat
<1>1. IsFiniteSet(recorded) /\ writer.hand \in SUBSET recorded /\ encoded \in SUBSET recorded
  BY DEF OnePlace
<1>2. IsFiniteSet(writer.hand) /\ IsFiniteSet(encoded) BY <1>1, FS_Subset
<1>3. Len(queue) \in Nat /\ dropped \in Nat BY LenProperties DEF LogTypeOK
<1> QED BY <1>1, <1>2, <1>3, FS_CardinalityType

\* A line on its way that neither moves nor is joined by another.
LEMMA OnePlaceStays ==
  ASSUME OnePlace, Stamped, Accounted, Stopped,
         UNCHANGED <<queue, stamp, recorded, encoded, before, dropped>>,
         writer'.hand = writer.hand, mode' = mode
  PROVE  OnePlace' /\ Stamped' /\ Accounted' /\ Stopped'
BY DEF OnePlace, Stamped, Accounted, Stopped, Queued

\* The first process starts with nothing.
LEMMA InitInv == Init => Inv
<1> SUFFICES ASSUME Init PROVE Inv OBVIOUS
<1> USE DEF Init
<1>1. Fresh \in Writer BY DEF Fresh, Writer, Places
<1>2. 1 \in Day BY DEF Day
<1>3. NoGz \in GzType /\ NoJob \in JobType BY <1>2 DEF NoGz, GzType, NoJob, JobType, JobStep
<1>4. FilesTypeOK
  BY <1>3 DEF FilesInit, FilesTypeOK, GzType, JobType
<1>5. << >> \in Seq(Line) /\ Len(<< >>) = 0 BY EmptySeq
<1>6. LogTypeOK
  <2>1. queue \in Seq(Line) /\ Len(queue) <= QueueSize BY <1>5
  <2>2. writer \in Writer BY <1>1
  <2>3. stamp \in [Line -> Day \cup {None}] OBVIOUS
  <2>4. today \in Day /\ mode \in Modes /\ pruned \in Day \cup {None} BY <1>2 DEF Modes
  <2> QED BY <1>4, <2>1, <2>2, <2>3, <2>4 DEF LogTypeOK, Writer
<1>7. Queued = {} BY <1>5 DEF Queued
<1>8. OnePlace
  BY <1>5, <1>7, FS_EmptySet DEF OnePlace, Fresh, Distinct
<1>9. Accounted
  <2>1. Cardinality({}) = 0 BY FS_EmptySet
  <2>2. recorded = {} /\ writer.hand = {} /\ encoded = {} /\ Len(queue) = 0 /\ dropped = 0
    BY <1>5 DEF Fresh
  <2> QED BY <2>1, <2>2 DEF Accounted
<1>10. Sourced BY DEF Sourced, FilesInit, NoJob
<1> QED BY <1>6, <1>7, <1>8, <1>9, <1>10
        DEF Inv, Stamped, Handed, Resting, Unopened, Written, Stopped, Fresh

\* Record
LEMMA RecordStep ==
  ASSUME Inv, NEW e \in Line, Record(e)
  PROVE  Inv'
<1>1. /\ LogTypeOK /\ OnePlace /\ Stamped /\ Accounted /\ Stopped BY DEF Inv
<1>2. /\ stamp[e] = None /\ mode # "down"
      /\ stamp' = [stamp EXCEPT ![e] = today] /\ recorded' = recorded \cup {e}
      /\ UNCHANGED <<fileVars, today, mode, writer, pruned, encoded, before, flushed, late, faulty>>
  BY DEF Record, Up
<1>3. e \notin recorded BY <1>1, <1>2 DEF Stamped
<1>4. today \in Day /\ today # None BY <1>1 DEF LogTypeOK, Day, None
<1>5. Stamped' BY <1>1, <1>2, <1>4 DEF Stamped, LogTypeOK, OnePlace
<1>6. stamp' \in [Line -> Day \cup {None}] /\ recorded' \in SUBSET Line
  BY <1>1, <1>2, <1>4 DEF LogTypeOK
<1>7. IsFiniteSet(recorded') /\ Cardinality(recorded') = Cardinality(recorded) + 1
  BY <1>1, <1>2, <1>3, FS_AddElement DEF OnePlace
<1>8. FilesTypeOK' /\ Sourced' BY <1>1, <1>2 DEF FilesTypeOK, LogTypeOK, Sourced, fileVars, Inv
<1>9. Handed' /\ Resting' /\ Unopened' /\ Written'
  BY <1>2 DEF Inv, Handed, Resting, Unopened, Written
<1>10. CASE Len(queue) < QueueSize
  <2>1. queue' = Append(queue, e) /\ dropped' = dropped BY <1>10 DEF Record
  <2>2. /\ Append(queue, e) \in Seq(Line) /\ Len(Append(queue, e)) = Len(queue) + 1
        /\ Elements(Append(queue, e)) = Elements(queue) \cup {e}
        /\ Distinct(Append(queue, e))
    BY <1>1, <1>3, Enqueued DEF LogTypeOK, OnePlace, Queued, Elements
  <2>3. Queued' = Queued \cup {e} BY <2>1, <2>2 DEF Queued, Elements
  <2>4. OnePlace' BY <1>1, <1>2, <1>3, <1>7, <2>1, <2>2, <2>3 DEF OnePlace
  <2>5. Len(queue) \in Nat BY <1>1, LenProperties DEF LogTypeOK
  <2>6. LogTypeOK'
    BY <1>1, <1>2, <1>6, <1>8, <1>10, <2>1, <2>2, <2>5 DEF LogTypeOK
  <2>7. Accounted'
    BY <1>1, <1>2, <1>7, <2>1, <2>2, Counts DEF Accounted
  <2>8. Stopped' BY <1>1, <1>2, <1>3, <2>3 DEF Stopped
  <2> QED BY <1>5, <1>8, <1>9, <2>4, <2>6, <2>7, <2>8 DEF Inv
<1>11. CASE ~ (Len(queue) < QueueSize)
  <2>1. queue' = queue /\ dropped' = dropped + 1 BY <1>11 DEF Record
  <2>2. OnePlace' BY <1>1, <1>2, <1>3, <1>7, <2>1 DEF OnePlace, Queued
  <2>3. LogTypeOK' BY <1>1, <1>2, <1>6, <1>8, <2>1 DEF LogTypeOK
  <2>4. Accounted'
    BY <1>1, <1>2, <1>7, <2>1, Counts DEF Accounted
  <2>5. Stopped' BY <1>1, <1>2, <2>1 DEF Stopped, Queued
  <2> QED BY <1>5, <1>8, <1>9, <2>2, <2>3, <2>4, <2>5 DEF Inv
<1> QED BY <1>10, <1>11

\* write(e), up to the line in hand.
LEMMA TakeStep ==
  ASSUME Inv, Take
  PROVE  Inv'
<1> DEFINE e == Head(queue)
<1>1. /\ LogTypeOK /\ OnePlace /\ Stamped /\ Accounted /\ Stopped /\ Written /\ Unopened /\ Sourced
  BY DEF Inv
<1>2. /\ writer.at = "select" /\ mode \in {"run", "stopping", "draining"} /\ queue # << >>
      /\ queue' = Tail(queue)
      /\ UNCHANGED <<today, mode, stamp, pruned, dropped, recorded, encoded, before>>
  BY DEF Take
<1>3. queue \in Seq(Line) /\ Distinct(queue) /\ Queued = Elements(queue) /\ Queued' = Elements(queue')
  BY <1>1 DEF LogTypeOK, OnePlace, Queued, Elements
<1>4. /\ e \in Line /\ e \in Queued /\ queue' \in Seq(Line) /\ Len(queue') = Len(queue) - 1
      /\ Queued' \subseteq Queued /\ e \notin Queued' /\ Distinct(queue')
  BY <1>2, <1>3, Dequeued
<1> HIDE DEF e
<1>5. e \in recorded /\ e \notin encoded /\ writer.hand = {}
  BY <1>1, <1>2, <1>4 DEF OnePlace, Inv, Handed
<1>6. stamp[e] \in Day BY <1>1, <1>4, <1>5 DEF LogTypeOK, Stamped
<1>7. late' \in BOOLEAN BY DEF Take
<1>8. /\ FilesTypeOK' /\ Sourced' /\ Unopened' /\ writer' \in Writer
      /\ writer'.at \in {"prune", "encode"} /\ writer'.hand = {e}
      /\ flushed' \in SUBSET Line /\ faulty' \in BOOLEAN
      /\ Written'
  <2>1. CASE writer.open = None \/ stamp[e] # writer.day
    <3>1. RotateTo(stamp[e], {e}) BY <2>1 DEF Take, e
    <3>2. {e} \in SUBSET Line BY <1>4
    <3>3. /\ FilesTypeOK' /\ Sourced' /\ writer' \in Writer
          /\ writer'.at = "prune" /\ writer'.hand = {e} /\ writer'.buf = {} /\ ~writer'.broken
          /\ flushed' \in SUBSET Line /\ faulty' \in BOOLEAN
          /\ (faulty' \/ encoded \subseteq flushed') /\ Unopened'
      BY <1>1, <1>6, <3>1, <3>2, Rotation
    <3> QED BY <1>2, <3>3 DEF Written
  <2>2. CASE ~ (writer.open = None \/ stamp[e] # writer.day)
    <3>1. /\ writer' = [writer EXCEPT !.at = "encode", !.hand = {e}]
          /\ UNCHANGED <<fileVars, flushed, faulty>>
      BY <2>2 DEF Take, e
    <3>2. writer \in Writer BY <1>1 DEF LogTypeOK, Writer
    <3>3. /\ writer' \in Writer /\ writer'.at = "encode" /\ writer'.hand = {e}
          /\ writer'.buf = writer.buf /\ writer'.broken = writer.broken
          /\ writer'.open = writer.open /\ writer'.day = writer.day
      BY <1>4, <3>1, <3>2 DEF Writer, Places
    <3>4. FilesTypeOK' /\ Sourced' BY <1>1, <3>1 DEF LogTypeOK, FilesTypeOK, Sourced, fileVars
    <3>5. Unopened' /\ Written' BY <1>1, <1>2, <3>1, <3>3 DEF Unopened, Written
    <3> QED BY <1>1, <3>1, <3>3, <3>4, <3>5 DEF LogTypeOK
  <2> QED BY <2>1, <2>2
<1>9. Len(queue) \in Nat BY <1>1, Counts
<1>10. LogTypeOK'
  BY <1>1, <1>2, <1>4, <1>7, <1>8, <1>9 DEF LogTypeOK, Writer
<1>11. OnePlace'
  BY <1>1, <1>2, <1>4, <1>5, <1>8 DEF OnePlace
<1>12. Accounted'
  <2>1. Cardinality(writer'.hand) = 1 /\ Cardinality(writer.hand) = 0
    BY <1>5, <1>8, FS_Singleton, FS_EmptySet
  <2> QED BY <1>1, <1>2, <1>4, <2>1, Counts DEF Accounted
<1>13. Stamped' /\ Stopped' BY <1>1, <1>2, <1>4 DEF Stamped, Stopped
<1>14. Handed' /\ Resting' BY <1>2, <1>8 DEF Handed, Resting
<1> QED BY <1>8, <1>10, <1>11, <1>12, <1>13, <1>14 DEF Inv

\* The Prune of a rotation.
LEMMA PruneStep ==
  ASSUME Inv, Prune
  PROVE  Inv'
<1>1. /\ LogTypeOK /\ OnePlace /\ Stamped /\ Accounted /\ Stopped /\ Written /\ Unopened
      /\ Sourced /\ Handed /\ Resting
  BY DEF Inv
<1>2. /\ writer.at = "prune"
      /\ plain' = Pruned(writer.day, plain) /\ gz' = PrunedGz(writer.day)
      /\ pruned' = writer.day
      /\ writer' = [writer EXCEPT !.at = IF writer.hand = {} THEN "select" ELSE "encode"]
      /\ UNCHANGED <<data, job, today, mode, queue, stamp, dropped, historyVars>>
  BY DEF Prune
<1>3. writer \in Writer /\ FilesTypeOK BY <1>1 DEF LogTypeOK, Writer
<1>4. /\ writer' \in Writer /\ writer'.hand = writer.hand /\ writer'.buf = writer.buf
      /\ writer'.broken = writer.broken /\ writer'.open = writer.open /\ writer'.day = writer.day
      /\ writer'.at = IF writer.hand = {} THEN "select" ELSE "encode"
  BY <1>2, <1>3 DEF Writer, Places
<1>5. FilesTypeOK' BY <1>2, <1>3, PruneTypes DEF FilesTypeOK, GzType
<1>6. LogTypeOK'
  <2>1. pruned' \in Day \cup {None} BY <1>2, <1>3 DEF Writer
  <2> QED BY <1>1, <1>2, <1>4, <1>5, <2>1 DEF LogTypeOK, Writer, historyVars
<1>7. OnePlace' /\ Stamped' /\ Accounted' /\ Stopped'
  BY <1>1, <1>2, <1>4, OnePlaceStays DEF historyVars
<1>8. mode \notin {"done", "down"} BY <1>1, <1>2 DEF Resting, Fresh
<1>9. Handed' /\ Resting' BY <1>1, <1>2, <1>4, <1>8 DEF Handed, Resting
<1>10. Sourced' /\ Unopened' /\ Written'
  BY <1>1, <1>2, <1>4 DEF Sourced, Unopened, Written, historyVars
<1> QED BY <1>6, <1>7, <1>9, <1>10 DEF Inv

\* The line in hand is dropped, or goes to bufio, which may have to write out
\* what it holds.
LEMMA EncodeStep ==
  ASSUME Inv, Encode \/ EncodeFails \/ EncodeSpills
  PROVE  Inv'
<1>1. /\ LogTypeOK /\ OnePlace /\ Stamped /\ Accounted /\ Stopped /\ Written /\ Unopened
      /\ Sourced /\ Handed /\ Resting
  BY DEF Inv
<1>2. /\ writer.at = "encode"
      /\ UNCHANGED <<plain, gz, job, today, mode, queue, stamp, pruned, recorded, before, late>>
  BY DEF Encode, EncodeFails, EncodeSpills, fileVars, historyVars
<1>3. /\ writer \in Writer /\ plain \in [Day -> Inode \cup {None}]
      /\ data \in [Inode -> SUBSET Line] /\ flushed \in SUBSET Line /\ encoded \in SUBSET Line
      /\ faulty \in BOOLEAN
  BY <1>1 DEF LogTypeOK, FilesTypeOK, Writer
<1>4. mode \notin {"done", "down"} BY <1>1, <1>2 DEF Resting, Fresh
<1>5. PICK e : e \in writer.hand BY <1>1, <1>2 DEF Handed
<1>6. /\ writer.hand = {e} /\ e \in Line /\ e \in recorded /\ e \notin encoded /\ e \notin Queued
  BY <1>1, <1>3, <1>5 DEF Handed, OnePlace, Writer
<1>7. /\ Cardinality(writer.hand) = 1 /\ Cardinality({}) = 0
      /\ IsFiniteSet(encoded) /\ Cardinality(encoded \cup {e}) = Cardinality(encoded) + 1
  BY <1>1, <1>6, Counts, FS_Singleton, FS_EmptySet, FS_AddElement
<1> DEFINE Rest == /\ writer' \in Writer /\ writer'.at = "select" /\ writer'.hand = {}
                   /\ writer'.open = writer.open /\ writer'.day = writer.day
                   /\ data' \in [Inode -> SUBSET Line] /\ flushed' \in SUBSET Line
                   /\ faulty' \in BOOLEAN /\ Written' /\ Unopened'
           Drops == dropped' = dropped + 1 /\ encoded' = encoded
           Takes == dropped' = dropped /\ encoded' = encoded \cup writer.hand
<1>8. Rest /\ (Drops \/ Takes)
  <2>1. CASE EncodeFails
    <3>1. /\ dropped' = dropped + 1 /\ writer' = [writer EXCEPT !.at = "select", !.hand = {}]
          /\ UNCHANGED <<data, encoded, flushed, faulty>>
      BY <2>1 DEF EncodeFails, fileVars, historyVars
    <3>2. /\ writer' \in Writer /\ writer'.at = "select" /\ writer'.hand = {}
          /\ writer'.open = writer.open /\ writer'.day = writer.day
          /\ writer'.buf = writer.buf /\ writer'.broken = writer.broken
      BY <1>3, <3>1 DEF Writer, Places
    <3> QED BY <1>1, <1>3, <3>1, <3>2 DEF Written, Unopened
  <2>2. CASE Encode
    <3>1. /\ encoded' = encoded \cup writer.hand
          /\ writer' = [writer EXCEPT !.at = "select", !.hand = {}, !.buf = @ \cup writer.hand]
          /\ UNCHANGED <<data, dropped, flushed, faulty>> /\ writer.open # None
      BY <2>2 DEF Encode, fileVars
    <3>2. /\ writer' \in Writer /\ writer'.at = "select" /\ writer'.hand = {}
          /\ writer'.open = writer.open /\ writer'.day = writer.day
          /\ writer'.buf = writer.buf \cup writer.hand /\ writer'.broken = writer.broken
      BY <1>3, <3>1 DEF Writer, Places
    <3> QED BY <1>1, <1>3, <3>1, <3>2 DEF Written, Unopened
  <2>3. CASE EncodeSpills
    <3>1. PICK ok \in BOOLEAN :
            /\ Flushing(ok)
            /\ writer' = [writer EXCEPT !.at = "select", !.hand = {}, !.broken = ~ok,
                                        !.buf = IF ok THEN writer.hand ELSE {}]
            /\ encoded' = IF ok THEN encoded \cup writer.hand ELSE encoded
            /\ dropped' = IF ok THEN dropped ELSE dropped + 1
            /\ faulty' = (faulty \/ ~ok)
      BY <2>3 DEF EncodeSpills
    <3>2. writer.open # None BY <2>3 DEF EncodeSpills
    <3>3. /\ writer' \in Writer /\ writer'.at = "select" /\ writer'.hand = {}
          /\ writer'.open = writer.open /\ writer'.day = writer.day
          /\ writer'.buf = (IF ok THEN writer.hand ELSE {}) /\ writer'.broken = ~ok
      BY <1>3, <3>1 DEF Writer, Places
    <3>4. data' \in [Inode -> SUBSET Line] /\ flushed' \in SUBSET Line
      BY <1>3, <3>1, <3>2 DEF Flushing, Writer
    <3>5. Written' BY <1>1, <3>1, <3>3 DEF Written, Flushing
    <3>6. Unopened' BY <1>1, <3>2, <3>3 DEF Unopened
    <3> QED BY <1>3, <3>1, <3>3, <3>4, <3>5, <3>6
  <2> QED BY <2>1, <2>2, <2>3
<1> HIDE DEF Rest
<1>9. encoded' \in SUBSET Line /\ dropped' \in Nat
  BY <1>1, <1>3, <1>6, <1>8 DEF LogTypeOK
<1>10. FilesTypeOK' BY <1>1, <1>2, <1>8 DEF Rest, LogTypeOK, FilesTypeOK
<1>11. LogTypeOK' BY <1>1, <1>2, <1>8, <1>9, <1>10 DEF Rest, LogTypeOK, Writer
<1>12. writer'.hand = {} /\ encoded' \subseteq encoded \cup {e} BY <1>6, <1>8 DEF Rest
<1>13. OnePlace' BY <1>1, <1>2, <1>6, <1>12 DEF OnePlace, Queued
<1>14. Accounted'
  <2>1. Cardinality(encoded') + dropped' = Cardinality(encoded) + dropped + 1
    <3>1. Cardinality(encoded) \in Nat /\ dropped \in Nat BY <1>1, Counts
    <3>2. CASE Drops BY <3>1, <3>2
    <3>3. CASE Takes
      <4>1. encoded' = encoded \cup {e} BY <1>6, <3>3
      <4>2. Cardinality(encoded') = Cardinality(encoded) + 1 BY <1>7, <4>1, Zenon
      <4> QED BY <3>1, <3>3, <4>2
    <3> QED BY <1>8, <3>2, <3>3
  <2>2. Cardinality(writer'.hand) = 0 BY <1>7, <1>12
  <2>3. Cardinality(encoded') \in Nat
    <3>1. IsFiniteSet(encoded') BY <1>1, <1>2, <1>13, FS_Subset DEF OnePlace
    <3> QED BY <3>1, FS_CardinalityType
  <2> QED BY <1>1, <1>2, <1>7, <1>9, <2>1, <2>2, <2>3, Counts DEF Accounted
<1>15. Stamped' /\ Stopped' /\ Sourced' BY <1>1, <1>2 DEF Stamped, Stopped, Sourced, Queued
<1>16. Handed' /\ Resting' BY <1>2, <1>4, <1>8 DEF Rest, Handed, Resting
<1> QED BY <1>8, <1>11, <1>13, <1>14, <1>15, <1>16 DEF Rest, Inv

\* onTick
LEMMA TickStep ==
  ASSUME Inv, Tick
  PROVE  Inv'
<1>1. /\ LogTypeOK /\ OnePlace /\ Stamped /\ Accounted /\ Stopped /\ Written /\ Unopened
      /\ Sourced /\ Handed /\ Resting
  BY DEF Inv
<1>2. /\ writer.at = "select" /\ mode \in {"run", "stopping"}
      /\ UNCHANGED <<today, mode, queue, stamp, dropped, recorded, encoded, before, late>>
  BY DEF Tick, TickOpens, TickRotates, TickFlushes, Ticking
<1>3. /\ writer \in Writer /\ FilesTypeOK /\ flushed \in SUBSET Line /\ encoded \in SUBSET Line
      /\ faulty \in BOOLEAN /\ today \in Day /\ today # None /\ pruned \in Day \cup {None}
  BY <1>1 DEF LogTypeOK, Writer, Day, None
<1>4. /\ plain \in [Day -> Inode \cup {None}] /\ data \in [Inode -> SUBSET Line]
      /\ gz \in [Day -> GzType] /\ job \in [Job -> JobType]
  BY <1>3 DEF FilesTypeOK, GzType, JobType
<1> DEFINE Rest == /\ FilesTypeOK' /\ Sourced' /\ writer' \in Writer
                   /\ writer'.at \in {"select", "prune"} /\ writer'.hand = {}
                   /\ pruned' \in Day \cup {None} /\ flushed' \in SUBSET Line
                   /\ faulty' \in BOOLEAN /\ Written' /\ Unopened'
<1>5. writer.hand = {} BY <1>1, <1>2 DEF Handed
<1>6. ASSUME TickOpens PROVE Rest
  <2> DEFINE free == CHOOSE i \in FreeInodes : \A k \in FreeInodes : i <= k
  <2>1. PICK opens \in BOOLEAN :
          LET new == opens /\ plain[today] = None
              f   == IF new THEN free ELSE plain[today]
          IN  /\ FreeInodes # {}
              /\ data' = IF new THEN [data EXCEPT ![f] = {}] ELSE data
              /\ plain' = IF new THEN [plain EXCEPT ![today] = f] ELSE plain
              /\ writer' = [Fresh EXCEPT !.day = today, !.open = IF opens THEN f ELSE None]
              /\ faulty' = (faulty \/ ~opens)
    BY <1>6, Zenon DEF TickOpens
  <2>2. free \in Inode BY <2>1, LeastFree DEF FreeInodes
  <2> HIDE DEF free
  <2>3. writer.open = None /\ UNCHANGED <<gz, job, pruned, flushed>> BY <1>6 DEF TickOpens
  <2>4. /\ writer' \in Writer /\ writer'.at = "select" /\ writer'.hand = {} /\ writer'.buf = {}
        /\ writer'.day = today /\ ~writer'.broken
    BY <1>3, <1>4, <2>1, <2>2 DEF Writer, Fresh, Places
  <2>5. FilesTypeOK' BY <1>3, <1>4, <2>1, <2>2, <2>3 DEF FilesTypeOK, GzType, JobType
  <2>6. Written' BY <1>1, <1>2, <2>1, <2>3, <2>4 DEF Written, Unopened
  <2>7. Unopened' BY <1>3, <2>4 DEF Unopened
  <2>8. Sourced' BY <1>1, <2>3 DEF Sourced
  <2>9. faulty' \in BOOLEAN BY <1>3, <2>1
  <2>10. pruned' \in Day \cup {None} /\ flushed' \in SUBSET Line BY <1>3, <2>3
  <2> QED BY <2>4, <2>5, <2>6, <2>7, <2>8, <2>9, <2>10
<1>7. ASSUME TickRotates PROVE Rest
  <2>1. RotateTo(today, {}) /\ pruned' = pruned BY <1>7 DEF TickRotates
  <2>2. {} \in SUBSET Line OBVIOUS
  <2>3. /\ FilesTypeOK' /\ Sourced' /\ writer' \in Writer
        /\ writer'.at = "prune" /\ writer'.hand = {} /\ writer'.buf = {} /\ ~writer'.broken
        /\ flushed' \in SUBSET Line /\ faulty' \in BOOLEAN
        /\ (faulty' \/ encoded \subseteq flushed') /\ Unopened'
    BY <1>1, <1>3, <2>1, <2>2, Rotation
  <2>4. Written' BY <1>2, <2>3 DEF Written
  <2>5. pruned' \in Day \cup {None} BY <1>3, <2>1
  <2> QED BY <2>3, <2>4, <2>5
<1>8. ASSUME TickFlushes PROVE Rest
  <2>1. PICK ok \in FlushEnds :
          /\ Flushing(ok)
          /\ writer' = [writer EXCEPT !.buf = {}, !.broken = ~ok]
          /\ faulty' = (faulty \/ ~ok)
    BY <1>8 DEF TickFlushes
  <2>2. ok \in BOOLEAN BY DEF FlushEnds
  <2>3. /\ writer' \in Writer /\ writer'.at = "select" /\ writer'.hand = {} /\ writer'.buf = {}
        /\ writer'.open = writer.open /\ writer'.day = writer.day /\ writer'.broken = ~ok
    BY <1>2, <1>3, <1>5, <2>1, <2>2 DEF Writer
  <2>4. data' \in [Inode -> SUBSET Line] /\ flushed' \in SUBSET Line
    BY <1>3, <1>4, <2>1 DEF Flushing, Writer
  <2>5. /\ plain' \in [Day -> Inode \cup {None}] /\ gz' \in [Day -> GzType]
        /\ pruned' \in Day \cup {None} /\ job' = job
    <3>1. CASE pruned # today BY <1>3, <1>8, <3>1, PruneTypes DEF TickFlushes
    <3>2. CASE pruned = today BY <1>1, <1>4, <1>8, <3>2 DEF TickFlushes, LogTypeOK
    <3> QED BY <3>1, <3>2
  <2>6. FilesTypeOK' /\ Sourced' BY <1>1, <1>4, <2>4, <2>5 DEF FilesTypeOK, GzType, JobType, Sourced
  <2>7. Written' BY <1>1, <1>2, <2>1, <2>2, <2>3 DEF Written, Flushing
  <2>8. Unopened' BY <1>1, <2>3 DEF Unopened
  <2>9. faulty' \in BOOLEAN BY <1>3, <2>1, <2>2
  <2> QED BY <2>3, <2>4, <2>5, <2>6, <2>7, <2>8, <2>9
<1>9. Rest BY <1>6, <1>7, <1>8 DEF Tick
<1> HIDE DEF Rest
<1>10. LogTypeOK' BY <1>1, <1>2, <1>9 DEF Rest, LogTypeOK, Writer
<1>11. OnePlace' /\ Stamped' /\ Accounted' /\ Stopped'
  BY <1>1, <1>2, <1>5, <1>9, OnePlaceStays DEF Rest
<1>12. Handed' /\ Resting' BY <1>2, <1>9 DEF Rest, Handed, Resting
<1> QED BY <1>9, <1>10, <1>11, <1>12 DEF Rest, Inv

\* The writer sees the stop, drains, and closes its file.
LEMMA StopStep ==
  ASSUME Inv, Drain \/ Finish \/ Stop
  PROVE  Inv'
<1>1. /\ LogTypeOK /\ OnePlace /\ Stamped /\ Accounted /\ Stopped /\ Written /\ Unopened
      /\ Sourced /\ Handed /\ Resting
  BY DEF Inv
<1>2. CASE Drain
  <2>1. /\ writer.at = "select" /\ mode = "stopping" /\ mode' = "draining"
        /\ UNCHANGED <<fileVars, today, queue, stamp, writer, pruned, dropped, historyVars>>
    BY <1>2 DEF Drain
  <2>2. LogTypeOK' BY <1>1, <2>1 DEF LogTypeOK, FilesTypeOK, Modes, fileVars, historyVars
  <2> QED BY <1>1, <2>1, <2>2
          DEF Inv, OnePlace, Stamped, Accounted, Stopped, Written, Unopened, Sourced, Handed,
              Resting, Queued, fileVars, historyVars
<1>3. CASE Stop
  <2>1. /\ mode = "run" /\ mode' = "stopping" /\ before' = recorded
        /\ UNCHANGED <<fileVars, today, queue, stamp, writer, pruned, dropped, recorded, encoded,
                       flushed, late, faulty>>
    BY <1>3 DEF Stop
  <2>2. LogTypeOK' BY <1>1, <2>1 DEF LogTypeOK, FilesTypeOK, Modes, fileVars
  <2> QED BY <1>1, <2>1, <2>2
          DEF Inv, OnePlace, Stamped, Accounted, Stopped, Written, Unopened, Sourced, Handed,
              Resting, Queued, fileVars
<1>4. CASE Finish
  <2>1. /\ writer.at = "select" /\ mode = "draining" /\ queue = << >>
        /\ writer' = Fresh /\ mode' = "done"
        /\ UNCHANGED <<plain, gz, job, today, queue, stamp, pruned, dropped, recorded, encoded,
                       before, late>>
    BY <1>4 DEF Finish
  <2>2. PICK ok \in FlushEnds : Flushing(ok) /\ faulty' = (faulty \/ ~ok)
    BY <1>4 DEF Finish
  <2>3. ok \in BOOLEAN BY DEF FlushEnds
  <2>4. writer \in Writer /\ FilesTypeOK /\ flushed \in SUBSET Line /\ faulty \in BOOLEAN
    BY <1>1 DEF LogTypeOK, Writer
  <2>5. data' \in [Inode -> SUBSET Line] /\ flushed' \in SUBSET Line /\ faulty' \in BOOLEAN
    BY <2>2, <2>3, <2>4 DEF Flushing, Writer, FilesTypeOK
  <2>6. Fresh \in Writer /\ "done" \in Modes BY DEF Fresh, Writer, Places, Modes
  <2>7. FilesTypeOK' BY <2>1, <2>4, <2>5 DEF FilesTypeOK
  <2>8. LogTypeOK' BY <1>1, <2>1, <2>5, <2>6, <2>7 DEF LogTypeOK, Writer
  <2>9. writer.hand = {} /\ writer'.hand = {} BY <1>1, <2>1 DEF Handed, Fresh
  <2>10. OnePlace' /\ Accounted' BY <1>1, <2>1, <2>9 DEF OnePlace, Accounted, Queued
  <2>11. Queued' = {}
    <3>1. Len(<< >>) = 0 BY EmptySeq
    <3> QED BY <2>1, <3>1 DEF Queued
  <2>12. Stopped' /\ Stamped' /\ Sourced' BY <1>1, <2>1, <2>11 DEF Stopped, Stamped, Sourced
  <2>13. Written' BY <1>1, <2>1, <2>2, <2>3 DEF Written, Flushing, Fresh
  <2>14. Handed' /\ Resting' /\ Unopened' BY <2>1 DEF Handed, Resting, Unopened, Fresh
  <2> QED BY <2>8, <2>10, <2>12, <2>13, <2>14 DEF Inv
<1> QED BY <1>2, <1>3, <1>4

\* The process and its surroundings.
LEMMA WorldStep ==
  ASSUME Inv, Midnight \/ Die \/ Restart
  PROVE  Inv'
<1>1. /\ LogTypeOK /\ OnePlace /\ Stamped /\ Accounted /\ Stopped /\ Written /\ Unopened
      /\ Sourced /\ Handed /\ Resting
  BY DEF Inv
<1>2. CASE Midnight
  <2>1. /\ today < LastDay /\ today' = today + 1
        /\ UNCHANGED <<fileVars, mode, queue, stamp, writer, pruned, dropped, historyVars>>
    BY <1>2 DEF Midnight
  <2>2. today' \in Day BY <1>1, <2>1 DEF LogTypeOK, Day
  <2>3. LogTypeOK' BY <1>1, <2>1, <2>2 DEF LogTypeOK, FilesTypeOK, fileVars, historyVars
  <2> QED BY <1>1, <2>1, <2>3
          DEF Inv, OnePlace, Stamped, Accounted, Stopped, Written, Unopened, Sourced, Handed,
              Resting, Queued, fileVars, historyVars
<1>3. CASE Die
  <2>1. /\ mode' = "down"
        /\ queue' = << >> /\ writer' = Fresh /\ pruned' = None /\ dropped' = 0
        /\ recorded' = {} /\ encoded' = {} /\ before' = {}
        /\ job' = [j \in Job |-> NoJob]
        /\ UNCHANGED <<plain, data, gz, today, stamp, flushed, late, faulty>>
    BY <1>3 DEF Die
  <2>2. << >> \in Seq(Line) /\ Len(<< >>) = 0 BY EmptySeq
  <2>3. Fresh \in Writer /\ "down" \in Modes BY DEF Fresh, Writer, Places, Modes
  <2>4. NoJob \in JobType BY DEF NoJob, JobType, JobStep, Day
  <2>5. FilesTypeOK'
    BY <1>1, <2>1, <2>4 DEF LogTypeOK, FilesTypeOK, JobType
  <2>6. LogTypeOK'
    <3>1. queue' \in Seq(Line) /\ Len(queue') <= QueueSize BY <2>1, <2>2
    <3> QED BY <1>1, <2>1, <2>3, <2>5, <3>1 DEF LogTypeOK, Writer
  <2>7. Queued' = {} BY <2>1, <2>2 DEF Queued
  <2>8. writer'.hand = {} /\ writer'.buf = {} /\ writer'.at = "select" /\ ~writer'.broken
        /\ writer'.open = None
    BY <2>1 DEF Fresh
  <2>9. Distinct(queue') BY <2>1, <2>2 DEF Distinct
  <2>10. IsFiniteSet(recorded') BY <2>1, FS_EmptySet
  <2>11. OnePlace' BY <2>1, <2>7, <2>8, <2>9, <2>10 DEF OnePlace
  <2>12. Accounted'
    <3>1. Cardinality({}) = 0 BY FS_EmptySet
    <3> QED BY <2>1, <2>2, <2>8, <3>1 DEF Accounted
  <2>13. Sourced' BY <2>1 DEF Sourced, NoJob
  <2> QED BY <2>1, <2>6, <2>7, <2>8, <2>11, <2>12, <2>13
          DEF Inv, Stamped, Handed, Resting, Unopened, Written, Stopped
<1>4. CASE Restart
  <2>1. /\ mode = "down" /\ mode' = "run"
        /\ plain' = Pruned(today, plain) /\ gz' = PrunedGz(today)
        /\ job' = Launched(StaleAtStart)
        /\ UNCHANGED <<data, today, queue, stamp, writer, pruned, dropped, historyVars>>
    BY <1>4 DEF Restart
  <2>2. FilesTypeOK BY <1>1 DEF LogTypeOK
  <2>3. job' \in [Job -> JobType] /\ Sourced'
    <3>1. StaleAtStart \in SUBSET Day BY DEF StaleAtStart, StaleDays
    <3>2. job \in [Job -> JobType] BY <2>2 DEF FilesTypeOK, JobType
    <3> QED BY <1>1, <2>1, <3>1, <3>2, LaunchTypes
  <2>4. FilesTypeOK' BY <2>1, <2>2, <2>3, PruneTypes DEF FilesTypeOK, GzType, JobType
  <2>5. LogTypeOK' BY <1>1, <2>1, <2>4 DEF LogTypeOK, Modes, historyVars
  <2> QED BY <1>1, <2>1, <2>3, <2>5
          DEF Inv, OnePlace, Stamped, Accounted, Stopped, Written, Unopened, Handed,
              Resting, Queued, historyVars
<1> QED BY <1>2, <1>3, <1>4

\* The goroutines of Compress.
LEMMA CompressingStep ==
  ASSUME Inv, NEW j \in Job, Compressing(j) \/ Failing(j)
  PROVE  Inv'
<1>1. /\ LogTypeOK /\ OnePlace /\ Stamped /\ Accounted /\ Stopped /\ Written /\ Unopened
      /\ Sourced /\ Handed /\ Resting
  BY DEF Inv
<1>2. /\ CompressStep(j) \/ CompressFails(j)
      /\ UNCHANGED <<today, mode, queue, stamp, writer, pruned, dropped, recorded, encoded,
                     before, flushed, late>>
      /\ faulty' = faulty \/ faulty' = TRUE
  BY DEF Compressing, Failing, historyVars
<1>3. FilesTypeOK' /\ Sourced' BY <1>1, <1>2, CompressTypes DEF LogTypeOK
<1>4. LogTypeOK' BY <1>1, <1>2, <1>3 DEF LogTypeOK
<1>5. OnePlace' /\ Stamped' /\ Accounted' /\ Stopped' BY <1>1, <1>2, OnePlaceStays
<1>6. Written' BY <1>1, <1>2 DEF Written
<1> QED BY <1>1, <1>2, <1>3, <1>4, <1>5, <1>6 DEF Inv, Unopened, Handed, Resting

\* Every step, whoever takes it.
LEMMA NextInv == Inv /\ [Next]_vars => Inv'
<1> SUFFICES ASSUME Inv, [Next]_vars PROVE Inv' OBVIOUS
<1>1. CASE \E e \in Line : Record(e) BY <1>1, RecordStep
<1>2. CASE WriterStep BY <1>2, TakeStep, EncodeStep, PruneStep, StopStep DEF WriterStep
<1>3. CASE Tick BY <1>3, TickStep
<1>4. CASE \E j \in Job : Compressing(j) \/ Failing(j) BY <1>4, CompressingStep
<1>5. CASE Midnight \/ Stop \/ Die \/ Restart BY <1>5, StopStep, WorldStep
<1>6. CASE UNCHANGED vars
  <2>1. UNCHANGED <<fileVars, today, mode, queue, stamp, writer, pruned, dropped, historyVars>>
    BY <1>6 DEF vars
  <2>2. LogTypeOK'
    BY <2>1 DEF Inv, LogTypeOK, FilesTypeOK, fileVars, historyVars
  <2> QED BY <2>1, <2>2
          DEF Inv, OnePlace, Stamped, Accounted, Stopped, Written, Unopened, Sourced, Handed,
              Resting, Queued, fileVars, historyVars
<1> QED BY <1>1, <1>2, <1>3, <1>4, <1>5, <1>6 DEF Next

\* Whatever was recorded, taken, written, ticked, stopped and restarted, every
\* line is in one place, and what the writer keeps is what its files and its
\* day say.
THEOREM Invariance == Spec => []Inv
BY InitInv, NextInv, PTL DEF Spec

-----------------------------------------------------------------------------
(* The properties *)

\* Every reachable state of the log is well typed, its queue bounded.
THEOREM LogTypeCorrect == Spec => []LogTypeOK
<1>1. Inv => LogTypeOK BY DEF Inv
<1> QED BY <1>1, Invariance, PTL

\* Record and write: a line recorded is on its way, in bufio or counted as
\* dropped, and once only, through full queues, failed opens, sticky errors
\* and restarts.
THEOREM AccountedCorrect == Spec => []Accounted
<1>1. Inv => Accounted BY DEF Inv
<1> QED BY <1>1, Invariance, PTL

\* Stop: when the writer has returned, no line recorded before the stop is left
\* in the queue, and those that bufio took are in a file unless a file failed.
THEOREM StopFlushesCorrect == Spec => []StopFlushes
<1>1. Inv => StopFlushes
  <2> SUFFICES ASSUME Inv, mode = "done"
               PROVE  /\ before \cap Queued = {}
                      /\ faulty \/ before \cap encoded \subseteq flushed
    BY DEF StopFlushes
  <2>1. writer.buf = {} BY DEF Inv, Resting, Fresh
  <2> QED BY <2>1 DEF Inv, Stopped, Written
<1> QED BY <1>1, Invariance, PTL

-----------------------------------------------------------------------------
(* Lines that reach the writer in the order of their days *)

\* Neither the writer nor a line on its way is, or will be, of day d.
Past(d) == /\ d < today
           /\ writer.day # None => d < writer.day
           /\ writer.day = None => \A e \in Queued : d < stamp[e]

\* A line is recorded on a day that has come; the writer's is of its file's day.
Timely ==
  /\ \A e \in Line : stamp[e] # None => stamp[e] <= today
  /\ \A e \in Queued \cup flushed : stamp[e] # None
  /\ \A e \in writer.hand \cup writer.buf : stamp[e] # None /\ stamp[e] = writer.day
  /\ writer.day # None => writer.day <= today

\* Of a process that is down there are only the files.
Down == mode = "down" => queue = << >> /\ \A j \in Job : job[j] = NoJob

\* No file is of a day to come; a day is compressed once it is past, and by one
\* goroutine of Compress.
Dated ==
  /\ \A d \in Day : /\ plain[d] # None => d <= today
                    /\ gz[d].made => Past(d)
                    /\ gz[d].whole => gz[d].made
  /\ \A j \in Job : job[j].at # "idle" => Past(job[j].day)
  /\ Lone

\* A file has one name, and the writer's open file that of its day.
Named == /\ \A d, x \in Day : plain[d] # None /\ plain[d] = plain[x] => d = x
         /\ writer.open # None => plain[writer.day] = writer.open

\* A day whose files are to be kept, and the lines written of a day.
Live(d) == ~ Expired(d, today)
Of(d)   == {e \in flushed : stamp[e] = d}

Kept == /\ \A d \in Day : Live(d) => Stored(d, Of(d))
        /\ \A j \in Job : Live(job[j].day) => Faithful(j)

Order == Timely /\ Down /\ Dated /\ Named /\ Kept

\* Types, apart.
LEMMA TypesApart ==
  ASSUME LogTypeOK
  PROVE  /\ FilesTypeOK
         /\ plain \in [Day -> Inode \cup {None}] /\ data \in [Inode -> SUBSET Line]
         /\ gz \in [Day -> GzType] /\ job \in [Job -> JobType]
         /\ today \in Day /\ writer \in Writer /\ flushed \in SUBSET Line
         /\ stamp \in [Line -> Day \cup {None}] /\ Queued \in SUBSET Line
         /\ Day \subseteq Nat /\ \A d \in Day : d # None
<1>1. \A i \in 1 .. Len(queue) : queue[i] \in Line
  BY ElementOfSeq DEF LogTypeOK
<1> QED BY <1>1 DEF LogTypeOK, FilesTypeOK, GzType, JobType, Writer, Queued, Day, None

\* What is expired stays so.
LEMMA LiveBefore ==
  ASSUME LogTypeOK, today' \in Day, today' >= today
  PROVE  \A d \in Day : Live(d)' => Live(d)
<1>1. today \in Int /\ today' \in Int /\ Day \subseteq Int
  BY TypesApart DEF Day
<1>2. \A d \in Day : Expired(d, today) => Expired(d, today')
  BY <1>1, ExpiresOnce
<1>3. ASSUME NEW d \in Day, Live(d)' PROVE Live(d)
  <2>1. ~ Expired(d, today')
    BY <1>3 DEF Live, Expired
  <2> QED BY <1>2, <2>1 DEF Live
<1> QED BY <1>3

\* The writer appends W to its open file and, unless f is None, creates f for a day
\* d; files may go as well, but none that is to be kept; no goroutine of Compress
\* goes on.
Writes(W, f, d) ==
  /\ W \subseteq writer.buf /\ flushed' = flushed \cup W
  /\ \A e \in flushed \cup W : stamp'[e] = stamp[e]
  /\ f # None => f \in FreeInodes /\ plain[d] = None /\ ~ gz[d].made
  /\ \A i \in Inode : data'[i] = IF i = f THEN {}
                                 ELSE IF i = writer.open THEN data[i] \cup W
                                 ELSE data[i]
  /\ \A x \in Day : Live(x) => /\ plain'[x] = (IF f # None /\ x = d THEN f ELSE plain[x])
                               /\ gz'[x] = gz[x]
  /\ \A j \in Job : job'[j] = job[j] \/ job'[j].at \in {"idle", "open"}

\* It does no harm.
LEMMA KeptWriting ==
  ASSUME LogTypeOK, Sourced, Unopened, Order, today' \in Day, today' >= today,
         NEW W, NEW f, NEW d \in Day, Writes(W, f, d)
  PROVE  Kept'
<1> USE DEF Writes
<1> DEFINE new == f # None
<1>0. /\ plain \in [Day -> Inode \cup {None}] /\ job \in [Job -> JobType]
      /\ data \in [Inode -> SUBSET Line]
      /\ writer \in Writer /\ \A x \in Day : x # None
  BY TypesApart
<1>1. \A x \in Day : Live(x)' => Live(x)
  BY LiveBefore
<1>2. /\ new => /\ f \in Inode /\ f # None /\ f # writer.open
                /\ (\A x \in Day : plain[x] # f) /\ \A j \in Job : job[j].file # f
      /\ \A i \in Inode : i = f => new
  BY DEF FreeInodes, InUse, Inode, None
<1>3. /\ writer.open # None => /\ writer.day \in Day /\ plain[writer.day] = writer.open
                               /\ \A e \in W : stamp[e] = writer.day
      /\ writer.open = None => W = {}
  BY <1>0 DEF Unopened, Writer, Order, Named, Timely
<1>4. ASSUME NEW x \in Day, x # writer.day \/ writer.open = None PROVE Of(x)' = Of(x)
  BY <1>3, <1>4 DEF Of
<1>5. ASSUME NEW x \in Day, Live(x)' PROVE Stored(x, Of(x))'
  <2>1. Live(x) /\ Stored(x, Of(x))
    BY <1>1, <1>5 DEF Order, Kept
  <2>2. gz'[x] = gz[x] /\ plain'[x] = (IF new /\ x = d THEN f ELSE plain[x])
    BY <2>1
  <2>3. CASE new /\ x = d
    <3>1. Of(x) = {}
      BY <2>1, <2>3 DEF Stored, Order, Dated
    <3>2. x # writer.day \/ writer.open = None
      BY <1>3, <2>3
    <3>3. Of(x)' = {}
      BY <1>4, <3>1, <3>2
    <3> QED BY <1>2, <2>2, <2>3, <3>3 DEF Stored
  <2>4. CASE ~ (new /\ x = d) /\ x = writer.day /\ writer.open # None
    <3>1. plain'[x] = writer.open /\ plain[x] = writer.open /\ writer.open \in Inode
      BY <1>0, <1>3, <2>2, <2>4
    <3>2. data'[writer.open] = data[writer.open] \cup W
      BY <1>2, <3>1
    <3>3. Of(x)' \subseteq Of(x) \cup W
      BY DEF Of
    <3> QED BY <2>1, <2>4, <3>1, <3>2, <3>3 DEF Stored
  <2>5. CASE ~ (new /\ x = d) /\ (x # writer.day \/ writer.open = None)
    <3>1. Of(x)' = Of(x) /\ plain'[x] = plain[x]
      BY <1>4, <2>2, <2>5
    <3>2. ASSUME plain[x] # None PROVE data[plain[x]] \subseteq data'[plain[x]]
      <4>1. plain[x] \in Inode /\ ~ (new /\ plain[x] = f)
        BY <1>0, <1>2, <3>2
      <4> QED BY <1>2, <4>1
    <3> QED BY <2>1, <2>2, <3>1, <3>2 DEF Stored
  <2> QED BY <2>3, <2>4, <2>5
<1>6. ASSUME NEW j \in Job, Live(job[j].day)' PROVE Faithful(j)'
  <2>1. CASE job'[j].at \in {"idle", "open"}
    BY <2>1 DEF Faithful
  <2>2. CASE job'[j] = job[j] /\ job[j].at \in {"create", "copy", "remove"}
    <3>1. PICK x \in Day : x = job[j].day /\ x = job'[j].day
      BY <1>0, <2>2 DEF JobType
    <3>2. Live(x)
      <4>1. Live(x)'
        BY <1>6, <3>1 DEF Live, Expired
      <4> QED BY <1>1, <4>1
    <3>3. Faithful(j) /\ job[j].file # None /\ job[j].file = plain[x]
      BY <2>2, <3>1, <3>2 DEF Order, Kept, Sourced, Faithful
    <3>4. writer.open # None => writer.open # plain[x]
      <4>1. Past(x)
        BY <2>2, <3>1 DEF Order, Dated
      <4>2. writer.open # None => x # writer.day
        BY <1>0, <1>3, <4>1 DEF Past, Day
      <4> QED BY <1>3, <3>3, <4>2 DEF Order, Named
    <3>5. gz'[x] = gz[x] /\ plain'[x] = plain[x]
      BY <1>2, <3>2, <3>3
    <3>6. job[j].file \in Inode /\ ~ (new /\ job[j].file = f) /\ job[j].file # writer.open
      BY <1>0, <1>2, <3>3, <3>4 DEF JobType
    <3>7. data'[job[j].file] = data[job[j].file]
      BY <1>2, <3>6
    <3> QED BY <2>2, <3>1, <3>3, <3>5, <3>7 DEF Faithful
  <2>3. CASE job'[j] = job[j] /\ job[j].at \notin {"create", "copy", "remove"}
    BY <2>3 DEF Faithful
  <2> QED BY <2>1, <2>2, <2>3
<1> QED BY <1>5, <1>6 DEF Kept

\* The days of new goroutines of Compress are past, and of no other's; files are
\* created for days that have come, and twins by Compress.
LEMMA DatedAfter ==
  ASSUME LogTypeOK, Order, today' \in Day, today' >= today,
         \A d \in Day : Past(d) => Past(d)',
         \A d \in Day : plain'[d] # None => plain[d] # None \/ d <= today',
         \A d \in Day : /\ gz'[d].made => gz[d].made \/ \E k \in Job : job[k].at # "idle" /\ job[k].day = d
                        /\ gz'[d].whole => gz'[d].made,
         job' \in [Job -> JobType],
         NEW ds \in SUBSET Day, \A d \in ds : Past(d)',
         \A d \in ds : \A j \in Job : job[j].at # "idle" => job[j].day # d,
         NEW new \in SUBSET Job,
         \A j \in new : /\ job'[j].day \in ds
                        /\ \A k \in new : job'[k].day = job'[j].day => k = j,
         \A j \in Job \ new : job'[j].at # "idle" => job[j].at # "idle" /\ job'[j].day = job[j].day
  PROVE  Dated'
<1>0. today \in Nat /\ today' \in Nat /\ Day \subseteq Nat /\ job \in [Job -> JobType]
  BY TypesApart
<1>1. ASSUME NEW d \in Day
      PROVE  /\ plain'[d] # None => d <= today'
             /\ gz'[d].made => Past(d)'
             /\ gz'[d].whole => gz'[d].made
  <2>1. plain'[d] # None => d <= today'
    BY <1>0 DEF Order, Dated
  <2>2. gz[d].made => Past(d)
    BY DEF Order, Dated
  <2>3. \A k \in Job : job[k].at # "idle" /\ job[k].day = d => Past(d)
    BY DEF Order, Dated
  <2> QED BY <2>1, <2>2, <2>3
<1>2. ASSUME NEW j \in Job, job'[j].at # "idle", NEW d \in Day, d = job'[j].day PROVE Past(d)'
  <2>1. CASE j \in new
    BY <1>2, <2>1
  <2>2. CASE j \notin new
    <3>1. Past(d)
      BY <1>2, <2>2 DEF Order, Dated
    <3> QED BY <3>1
  <2> QED BY <2>1, <2>2
<1>3. ASSUME NEW j \in Job, NEW k \in Job, job'[j].at # "idle", job'[k].at # "idle",
             job'[k].day = job'[j].day
      PROVE  k = j
  <2>1. CASE j \in new /\ k \in new
    BY <1>3, <2>1
  <2>2. CASE j \in new /\ k \notin new
    BY <1>3, <2>2
  <2>3. CASE j \notin new /\ k \in new
    BY <1>3, <2>3
  <2>4. CASE j \notin new /\ k \notin new
    BY <1>3, <2>4 DEF Order, Dated, Lone
  <2> QED BY <2>1, <2>2, <2>3, <2>4
<1>4. \A j \in Job : job'[j].at # "idle" => Past(job[j].day)'
  <2> SUFFICES ASSUME NEW j \in Job, job'[j].at # "idle" PROVE Past(job[j].day)'
    OBVIOUS
  <2>1. PICK d \in Day : d = job'[j].day
    BY DEF JobType
  <2>2. Past(d)'
    BY <1>2, <2>1
  <2> QED BY <2>1, <2>2 DEF Past, Queued
<1>5. Lone'
  BY <1>3 DEF Lone
<1> QED BY <1>1, <1>4, <1>5 DEF Dated

\* No file gets a second name; the writer's keeps the one it has.
LEMMA NamedAfter ==
  ASSUME LogTypeOK, Order, NEW f, NEW d \in Day,
         \A x \in Day : \/ plain'[x] \in {plain[x], None}
                        \/ x = d /\ plain'[x] = f /\ f \in FreeInodes,
         writer'.open # None => plain'[writer'.day] = writer'.open
  PROVE  Named'
<1>1. f \in FreeInodes => \A x \in Day : plain[x] # f
  BY DEF FreeInodes, InUse
<1>2. ASSUME NEW x \in Day, NEW y \in Day, plain'[x] # None, plain'[x] = plain'[y]
      PROVE  x = y
  <2>1. \A u, v \in Day : plain[u] # None /\ plain[u] = plain[v] => u = v
    BY DEF Order, Named
  <2> QED BY <1>1, <1>2, <2>1
<1> QED BY <1>2 DEF Named

\* Steps that create no file and launch nothing.
LEMMA OrderStays ==
  ASSUME LogTypeOK, LogTypeOK', Sourced, Unopened, Order,
         today' >= today, \A d \in Day : Past(d) => Past(d)',
         NEW W, Writes(W, None, 1),
         \A d \in Day : /\ plain'[d] \in {plain[d], None}
                        /\ gz'[d] = gz[d] \/ ~ (gz'[d].made \/ gz'[d].whole),
         \A j \in Job : job'[j] = job[j] \/ job'[j].at = "idle",
         writer'.open # None => plain'[writer'.day] = writer'.open
  PROVE  Dated' /\ Named' /\ Kept'
<1>1. /\ today' \in Day /\ job' \in [Job -> JobType] /\ 1 \in Day
      /\ \A d \in Day : gz[d].whole => gz[d].made
  BY DEF LogTypeOK, FilesTypeOK, JobType, Day, Order, Dated
<1>2. Dated'
  <2> DEFINE ds == {d \in Day : FALSE}  new == {j \in Job : FALSE}
  <2>1. ds \in SUBSET Day /\ new \in SUBSET Job /\ ds = {} /\ new = {}
    OBVIOUS
  <2> HIDE DEF ds, new
  <2>2. /\ \A d \in ds : Past(d)'
        /\ \A d \in ds : \A j \in Job : job[j].at # "idle" => job[j].day # d
        /\ \A j \in new : /\ job'[j].day \in ds
                          /\ \A k \in new : job'[k].day = job'[j].day => k = j
        /\ \A j \in Job \ new : job'[j].at # "idle" => job[j].at # "idle" /\ job'[j].day = job[j].day
    BY <2>1
  <2>3. /\ \A d \in Day : plain'[d] # None => plain[d] # None \/ d <= today'
        /\ \A d \in Day : /\ gz'[d].made => gz[d].made \/ \E k \in Job : job[k].at # "idle" /\ job[k].day = d
                          /\ gz'[d].whole => gz'[d].made
    BY <1>1
  <2> QED BY <1>1, <2>1, <2>2, <2>3, DatedAfter
<1>3. Named'
  BY <1>1, NamedAfter
<1>4. Kept'
  BY <1>1, KeptWriting
<1> QED BY <1>2, <1>3, <1>4

\* Launching for no day launches nothing.
LEMMA LaunchesNothing ==
  ASSUME job \in [Job -> JobType], job' = Launched({})
  PROVE  job' = job
<1>1. {} \in SUBSET Day
  OBVIOUS
<1>2. PICK new \in SUBSET Job : /\ \A j \in new : job'[j].day \in {}
                                /\ \A j \in Job \ new : job'[j] = job[j]
  BY <1>1, Launches
<1>3. \A j \in Job : job'[j] = job[j]
  BY <1>2
<1>4. job' = [j \in Job |-> job'[j]]
  BY DEF Launched
<1> QED BY <1>3, <1>4

\* Prune takes no file of a day to be kept, nor the one of the day it is called on.
LEMMA PruneFrame ==
  ASSUME LogTypeOK, NEW t \in Day, t <= today, plain' = Pruned(t, plain), gz' = PrunedGz(t)
  PROVE  /\ \A d \in Day : /\ plain'[d] \in {plain[d], None}
                           /\ gz'[d] = gz[d] \/ ~ (gz'[d].made \/ gz'[d].whole)
                           /\ Live(d) => plain'[d] = plain[d] /\ gz'[d] = gz[d]
         /\ plain'[t] = plain[t]
<1>1. today \in Int /\ Day \subseteq Int /\ KeepDays \in Nat
  BY TypesApart
<1>2. \A d \in Day : Live(d) => ~ Expired(d, t)
  BY <1>1, ExpiresOnce DEF Live
<1>3. ~ Expired(t, t)
  BY <1>1 DEF Expired
<1> QED BY <1>2, <1>3 DEF Pruned, PrunedGz, NoGz

\* Steps at which the writer keeps to its day.
LEMMA OnTheWay ==
  ASSUME LogTypeOK, LogTypeOK', Order, today' >= today, writer'.day = writer.day,
         \A e \in Line : \/ stamp'[e] = stamp[e]
                         \/ stamp[e] = None /\ stamp'[e] = today /\ today' = today,
         \A e \in Queued' : e \in Queued \/ stamp'[e] = today,
         \A e \in writer'.hand \cup writer'.buf : \/ e \in writer.hand \cup writer.buf
                                                  \/ e \in Queued /\ stamp[e] = writer.day,
         flushed' \subseteq flushed \cup writer.buf,
         mode' = "down" => mode = "down" /\ queue' = queue /\ job' = job
  PROVE  Timely' /\ Down' /\ \A d \in Day : Past(d) => Past(d)'
<1>0. /\ today \in Day /\ today' \in Day /\ Day \subseteq Nat /\ stamp \in [Line -> Day \cup {None}]
      /\ stamp' \in [Line -> Day \cup {None}] /\ Queued \in SUBSET Line
      /\ writer \in Writer /\ flushed \in SUBSET Line /\ \A d \in Day : d # None
  BY TypesApart DEF LogTypeOK
<1>1. Queued' \in SUBSET Line
  <2>1. \A i \in 1 .. Len(queue') : queue'[i] \in Line
    BY ElementOfSeq DEF LogTypeOK
  <2> QED BY <2>1 DEF Queued
<1>2. writer.hand \in SUBSET Line /\ writer.buf \in SUBSET Line
  BY <1>0 DEF Writer
<1>3. Timely
  BY DEF Order
<1>4. \A e \in Line : stamp[e] # None => stamp'[e] = stamp[e]
  BY <1>0
<1>5. Timely'
  <2>1. \A e \in Line : stamp'[e] # None => stamp'[e] <= today'
    <3> SUFFICES ASSUME NEW e \in Line, stamp'[e] # None PROVE stamp'[e] <= today'
      OBVIOUS
    <3>1. stamp'[e] \in Nat /\ today \in Nat /\ today' \in Nat
      BY <1>0
    <3>2. stamp'[e] <= today
      BY <1>0, <1>3, <3>1 DEF Timely
    <3> QED BY <3>1, <3>2
  <2>2. \A e \in Queued' \cup flushed' : stamp'[e] # None
    BY <1>0, <1>1, <1>2, <1>3, <1>4 DEF Timely
  <2>3. \A e \in writer'.hand \cup writer'.buf : stamp'[e] # None /\ stamp'[e] = writer'.day
    BY <1>0, <1>2, <1>3, <1>4 DEF Timely
  <2>4. writer'.day # None => writer'.day <= today'
    <3> SUFFICES ASSUME writer'.day # None PROVE writer'.day <= today'
      OBVIOUS
    <3>1. writer.day \in Nat /\ today \in Nat /\ today' \in Nat /\ writer.day <= today
      BY <1>0, <1>3 DEF Timely, Writer
    <3> QED BY <3>1
  <2> QED BY <2>1, <2>2, <2>3, <2>4 DEF Timely
<1>6. Down'
  BY DEF Order, Down
<1>7. ASSUME NEW d \in Day, Past(d) PROVE Past(d)'
  <2>1. d < today'
    BY <1>0, <1>7 DEF Past
  <2>2. writer.day = None => \A e \in Queued' : d < stamp'[e]
    BY <1>0, <1>1, <1>3, <1>4, <1>7 DEF Past, Timely
  <2> QED BY <1>7, <2>1, <2>2 DEF Past
<1> QED BY <1>5, <1>6, <1>7

\* Steps at which the writer's day becomes d, one that has come and no earlier
\* than any line's that comes next, and its file, if it opens, that of d; the day
\* of the file it had goes to a goroutine of Compress.
LEMMA OpensNext ==
  ASSUME LogTypeOK, LogTypeOK', Sourced, Unopened, Order, NEW d \in Day, NEW W, NEW f,
         Writes(W, f, d), today' = today, stamp' = stamp, mode' # "down", d <= today,
         \A x \in Day : Past(x) => x < d,
         \A x \in Day : plain'[x] = IF f # None /\ x = d THEN f ELSE plain[x],
         gz' = gz, Queued' \subseteq Queued,
         writer'.day = d, writer'.open \in {None, plain'[d]},
         \A e \in writer'.hand \cup writer'.buf : e \in Line /\ stamp[e] = d,
         \/ job' = job
         \/ writer.open # None /\ writer.day < d /\ job' = Launched({writer.day})
  PROVE  Order'
<1>0. /\ today \in Nat /\ Day \subseteq Nat /\ stamp \in [Line -> Day \cup {None}]
      /\ writer \in Writer /\ \A x \in Day : x # None
      /\ job \in [Job -> JobType] /\ today' \in Day /\ job' \in [Job -> JobType]
  BY TypesApart DEF LogTypeOK, FilesTypeOK, JobType
<1>1. \A x \in Day : Past(x) => Past(x)'
  BY <1>0 DEF Past
<1>2. Timely'
  <2>1. flushed' \subseteq flushed \cup writer.buf
    BY DEF Writes
  <2>2. \A e \in Line : stamp'[e] # None => stamp'[e] <= today'
    BY DEF Order, Timely
  <2>3. \A e \in Queued' \cup flushed' : stamp'[e] # None
    BY <2>1 DEF Order, Timely
  <2>4. \A e \in writer'.hand \cup writer'.buf : stamp'[e] # None /\ stamp'[e] = writer'.day
    BY <1>0
  <2> QED BY <2>2, <2>3, <2>4 DEF Timely
<1>3. Down'
  BY DEF Down
<1>4. Named'
  <2>1. \A x \in Day : \/ plain'[x] \in {plain[x], None}
                       \/ x = d /\ plain'[x] = f /\ f \in FreeInodes
    BY DEF Writes
  <2> QED BY <2>1, NamedAfter
<1>5. Kept'
  BY <1>0, KeptWriting
<1>6. Dated'
  <2>1. /\ \A x \in Day : plain'[x] # None => plain[x] # None \/ x <= today'
        /\ \A x \in Day : /\ gz'[x].made => gz[x].made \/ \E k \in Job : job[k].at # "idle" /\ job[k].day = x
                          /\ gz'[x].whole => gz'[x].made
    BY DEF Order, Dated
  <2>2. PICK ds \in SUBSET Day, new \in SUBSET Job :
          /\ \A x \in ds : writer.open # None /\ x = writer.day /\ writer.day < d
          /\ \A j \in new : /\ job'[j].day \in ds
                            /\ \A k \in new : job'[k].day = job'[j].day => k = j
          /\ \A j \in Job \ new : job'[j] = job[j]
    <3>1. CASE job' = job
      <4> DEFINE ds == {x \in Day : FALSE}  new == {j \in Job : FALSE}
      <4>1. ds \in SUBSET Day /\ new \in SUBSET Job /\ ds = {} /\ new = {}
        OBVIOUS
      <4> HIDE DEF ds, new
      <4> QED BY <3>1, <4>1
    <3>2. CASE writer.open # None /\ writer.day < d /\ job' = Launched({writer.day})
      <4> DEFINE ds == {writer.day}
      <4>1. ds \in SUBSET Day
        BY <1>0, <3>2 DEF Unopened, Writer
      <4>2. \A x \in ds : writer.open # None /\ x = writer.day /\ writer.day < d
        BY <3>2
      <4>3. job' = Launched(ds)
        BY <3>2
      <4> HIDE DEF ds
      <4>4. PICK new \in SUBSET Job :
              /\ \A j \in new : /\ job'[j].day \in ds
                                /\ \A k \in new : job'[k].day = job'[j].day => k = j
              /\ \A j \in Job \ new : job'[j] = job[j]
        BY <1>0, <4>1, <4>3, Launches
      <4> QED BY <4>1, <4>2, <4>4
    <3> QED BY <3>1, <3>2
  <2>3. \A x \in ds : Past(x)'
    BY <1>0, <2>2 DEF Past, Order, Timely, Unopened, Writer
  <2>4. \A x \in ds : \A j \in Job : job[j].at # "idle" => job[j].day # x
    <3> SUFFICES ASSUME NEW x \in ds, NEW j \in Job, job[j].at # "idle", job[j].day = x
                 PROVE  FALSE
      OBVIOUS
    <3>1. PICK y \in Day : y = job[j].day /\ y = x
      OBVIOUS
    <3>2. Past(y)
      BY <3>1 DEF Order, Dated
    <3> QED BY <1>0, <2>2, <3>1, <3>2 DEF Past, Unopened, Writer
  <2>5. \A j \in Job \ new : job'[j].at # "idle" => job[j].at # "idle" /\ job'[j].day = job[j].day
    BY <2>2
  <2>6. today' \in Day /\ today' >= today
    BY <1>0
  <2>7. \A j \in new : /\ job'[j].day \in ds
                       /\ \A k \in new : job'[k].day = job'[j].day => k = j
    BY <2>2
  <2> QED BY <1>0, <1>1, <2>1, <2>3, <2>4, <2>5, <2>6, <2>7, DatedAfter
<1> QED BY <1>2, <1>3, <1>4, <1>5, <1>6 DEF Order

\* rotateTo
LEMMA RotatesInOrder ==
  ASSUME LogTypeOK, LogTypeOK', Sourced, Unopened, Order, NEW d \in Day, NEW hand,
         RotateTo(d, hand), today' = today, stamp' = stamp, mode' # "down", d <= today,
         \A x \in Day : Past(x) => x < d,
         writer.open # None => writer.day < d,
         Queued' \subseteq Queued, \A e \in hand : e \in Line /\ stamp[e] = d
  PROVE  Order'
<1>1. PICK ok \in FlushEnds, opens \in BOOLEAN :
        LET new == opens /\ plain[d] = None
            f   == IF new THEN CHOOSE i \in FreeInodes : \A k \in FreeInodes : i <= k
                          ELSE plain[d]
            old == IF writer.open = None THEN {} ELSE {writer.day}
        IN  /\ FreeInodes # {}
            /\ flushed' = IF ok THEN flushed \cup writer.buf ELSE flushed
            /\ data' = [i \in Inode |->
                          IF new /\ i = f THEN {}
                          ELSE IF ok /\ i = writer.open THEN data[i] \cup writer.buf
                          ELSE data[i]]
            /\ plain' = IF new THEN [plain EXCEPT ![d] = f] ELSE plain
            /\ job' = Launched(old)
            /\ writer' = [Fresh EXCEPT !.at = "prune", !.day = d, !.hand = hand,
                                       !.open = IF opens THEN f ELSE None]
            /\ UNCHANGED gz
  BY Zenon DEF RotateTo
<1> DEFINE free == CHOOSE i \in FreeInodes : \A k \in FreeInodes : i <= k
<1>2. FreeInodes # {} /\ free \in FreeInodes /\ free \in Inode /\ free # None
  BY <1>1, LeastFree DEF FreeInodes, Inode, None
<1> HIDE DEF free
<1>3. PICK f \in {free, None} : f = IF opens /\ plain[d] = None THEN free ELSE None
  OBVIOUS
<1>4. PICK W \in SUBSET Line : W = IF ok THEN writer.buf ELSE {}
  <2>1. writer.buf \in SUBSET Line /\ {} \in SUBSET Line
    BY DEF LogTypeOK
  <2> QED BY <2>1
<1>0. /\ plain \in [Day -> Inode \cup {None}] /\ job \in [Job -> JobType]
      /\ gz \in [Day -> GzType] /\ data \in [Inode -> SUBSET Line]
  BY TypesApart
<1>5. /\ flushed' = flushed \cup W /\ W \subseteq writer.buf
      /\ \A i \in Inode : data'[i] = IF i = f THEN {}
                                     ELSE IF i = writer.open THEN data[i] \cup W
                                     ELSE data[i]
  <2>1. W \subseteq writer.buf
    BY <1>4
  <2>2. flushed' = flushed \cup W
    <3>1. CASE ok
      BY <1>1, <1>4, <3>1
    <3>2. CASE ~ ok
      BY <1>1, <1>4, <3>2
    <3> QED BY <3>1, <3>2
  <2>3. ASSUME NEW i \in Inode
        PROVE  data'[i] = IF i = f THEN {} ELSE IF i = writer.open THEN data[i] \cup W ELSE data[i]
    <3>1. i # None
      BY DEF Inode, None
    <3>2. CASE opens /\ plain[d] = None
      BY <1>1, <1>2, <1>3, <1>4, <3>1, <3>2 DEF free
    <3>3. CASE ~ (opens /\ plain[d] = None)
      BY <1>1, <1>2, <1>3, <1>4, <3>1, <3>3
    <3> QED BY <3>2, <3>3
  <2> QED BY <2>1, <2>2, <2>3
<1>6. \A x \in Day : plain'[x] = IF f # None /\ x = d THEN f ELSE plain[x]
  BY <1>0, <1>1, <1>2, <1>3 DEF free
<1>7. writer'.day = d /\ writer'.hand = hand /\ writer'.buf = {} /\ writer'.open \in {None, plain'[d]}
  BY <1>0, <1>1, <1>2, <1>3, <1>6 DEF Fresh, free
<1>8. \/ job' = job
      \/ writer.open # None /\ writer.day < d /\ job' = Launched({writer.day})
  BY <1>0, <1>1, LaunchesNothing
<1>9. \A j \in Job : job'[j] = job[j] \/ job'[j].at \in {"idle", "open"}
  <2>1. CASE job' = job
    BY <2>1
  <2>2. CASE writer.open # None /\ job' = Launched({writer.day})
    <3> DEFINE ds == {writer.day}
    <3>1. ds \in SUBSET Day /\ job' = Launched(ds)
      BY <2>2 DEF Unopened, LogTypeOK
    <3> HIDE DEF ds
    <3> QED BY <1>0, <3>1, Launches
  <2> QED BY <1>8, <2>1, <2>2
<1>10. f # None => f \in FreeInodes /\ plain[d] = None /\ ~ gz[d].made
  <2>1. ASSUME gz[d].made PROVE FALSE
    <3>1. Past(d)
      BY <2>1 DEF Order, Dated
    <3> QED BY <3>1 DEF Day
  <2> QED BY <1>2, <1>3, <2>1
<1>11. gz' = gz
  BY <1>1
<1>12. Writes(W, f, d)
  BY <1>5, <1>6, <1>9, <1>10, <1>11 DEF Writes
<1>13. \A e \in writer'.hand \cup writer'.buf : e \in Line /\ stamp[e] = d
  BY <1>7
<1> QED BY <1>6, <1>7, <1>8, <1>11, <1>12, <1>13, OpensNext

\* Record, at the time it is.
LEMMA RecordInOrder ==
  ASSUME Inv, Inv', Order, NEW e \in Line, Record(e)
  PROVE  Order'
<1>0. LogTypeOK /\ LogTypeOK' /\ Sourced /\ Unopened /\ today \in Nat
  BY DEF Inv, LogTypeOK, Day
<1>1. /\ mode # "down" /\ stamp[e] = None /\ stamp' = [stamp EXCEPT ![e] = today]
      /\ UNCHANGED <<fileVars, today, mode, writer, flushed>>
  BY DEF Record, Up
<1>2. \A g \in Queued' : g \in Queued \/ g = e
  <2>1. CASE queue' = queue
    BY <2>1 DEF Queued
  <2>2. CASE queue' = Append(queue, e)
    <3>1. /\ Len(Append(queue, e)) = Len(queue) + 1 /\ Append(queue, e)[Len(queue) + 1] = e
          /\ \A i \in 1 .. Len(queue) : Append(queue, e)[i] = queue[i]
      BY <1>0, AppendProperties DEF LogTypeOK
    <3>2. Len(queue) \in Nat
      BY <1>0, LenProperties DEF LogTypeOK
    <3> QED BY <2>2, <3>1, <3>2 DEF Queued
  <2> QED BY <2>1, <2>2 DEF Record
<1>3. stamp'[e] = today /\ \A g \in Line : g = e \/ stamp'[g] = stamp[g]
  BY <1>0, <1>1 DEF LogTypeOK
<1>4. Timely' /\ Down' /\ \A d \in Day : Past(d) => Past(d)'
  BY <1>0, <1>1, <1>2, <1>3, OnTheWay
<1>5. \A g \in flushed : stamp'[g] = stamp[g]
  <2>1. \A g \in flushed : g \in Line /\ stamp[g] # None
    BY <1>0 DEF Order, Timely, LogTypeOK
  <2> QED BY <1>1, <1>3, <2>1
<1>6. Writes({}, None, 1)
  BY <1>1, <1>5 DEF Writes, fileVars, Inode, None
<1>7. Dated' /\ Named' /\ Kept'
  BY <1>0, <1>1, <1>4, <1>6, OrderStays DEF fileVars, Order, Named
<1> QED BY <1>4, <1>7 DEF Order

\* Steps that touch no file.
LEMMA QuietInOrder ==
  ASSUME Inv, Inv', Order, Encode \/ EncodeFails \/ Drain \/ Stop \/ Midnight
  PROVE  Order'
<1>0. LogTypeOK /\ LogTypeOK' /\ Sourced /\ Unopened /\ today \in Nat /\ writer \in Writer
  BY TypesApart DEF Inv, Day
<1>1. /\ UNCHANGED <<fileVars, queue, stamp, flushed>> /\ today' >= today
      /\ mode' = "down" => mode = "down"
      /\ writer'.day = writer.day /\ writer'.open = writer.open
      /\ writer'.hand \cup writer'.buf \subseteq writer.hand \cup writer.buf
  <2>1. CASE Encode
    BY <1>0, <2>1 DEF Encode, Writer
  <2>2. CASE EncodeFails
    BY <1>0, <2>2 DEF EncodeFails, Writer, historyVars
  <2>3. CASE Drain \/ Stop \/ Midnight
    BY <1>0, <2>3 DEF Drain, Stop, Midnight, historyVars
  <2> QED BY <2>1, <2>2, <2>3
<1>2. Timely' /\ Down' /\ \A d \in Day : Past(d) => Past(d)'
  BY <1>0, <1>1, OnTheWay DEF Queued, fileVars
<1>3. Writes({}, None, 1)
  BY <1>1 DEF Writes, fileVars, Inode, None
<1>4. Dated' /\ Named' /\ Kept'
  BY <1>0, <1>1, <1>2, <1>3, OrderStays DEF fileVars, Order, Named
<1> QED BY <1>2, <1>4 DEF Order

\* A flush that ended with ok, whoever asked for it.
LEMMA FlushWrites ==
  ASSUME LogTypeOK, Unopened, NEW ok \in BOOLEAN, Flushing(ok), stamp' = stamp,
         \A x \in Day : Live(x) => plain'[x] = plain[x] /\ gz'[x] = gz[x],
         job' = job
  PROVE  \E W \in SUBSET writer.buf : Writes(W, None, 1)
<1>1. PICK W \in SUBSET writer.buf : W = IF ok THEN writer.buf ELSE {}
  OBVIOUS
<1>2. flushed' = flushed \cup W
  BY <1>1 DEF Flushing
<1>3. ASSUME NEW i \in Inode
      PROVE  data'[i] = IF i = None THEN {} ELSE IF i = writer.open THEN data[i] \cup W ELSE data[i]
  <2>1. data \in [Inode -> SUBSET Line] /\ i # None
    BY TypesApart DEF Inode, None
  <2>2. CASE ok /\ writer.open # None
    BY <1>1, <2>1, <2>2 DEF Flushing
  <2>3. CASE ~ (ok /\ writer.open # None)
    BY <1>1, <2>1, <2>3 DEF Flushing
  <2> QED BY <2>2, <2>3
<1>4. Writes(W, None, 1)
  BY <1>2, <1>3 DEF Writes
<1> QED BY <1>4

\* Steps that flush: of a full bufio, of the writer that returns,
LEMMA FlushInOrder ==
  ASSUME Inv, Inv', Order, EncodeSpills \/ Finish
  PROVE  Order'
<1>0. LogTypeOK /\ LogTypeOK' /\ Sourced /\ Unopened /\ today \in Nat /\ writer \in Writer
  BY TypesApart DEF Inv, Day
<1>1. /\ \E ok \in BOOLEAN : Flushing(ok)
      /\ UNCHANGED <<plain, gz, job, today, queue, stamp>> /\ mode' # "down"
  BY DEF EncodeSpills, Finish, FlushEnds, Inv, Resting, Fresh
<1>2. PICK W \in SUBSET writer.buf : Writes(W, None, 1)
  BY <1>0, <1>1, FlushWrites
<1>3. Timely' /\ Down' /\ \A d \in Day : Past(d) => Past(d)'
  <2>1. CASE EncodeSpills
    <3>1. /\ writer'.day = writer.day
          /\ writer'.hand \cup writer'.buf \subseteq writer.hand \cup writer.buf
      BY <1>0, <2>1 DEF EncodeSpills, Writer
    <3>2. flushed' \subseteq flushed \cup writer.buf
      BY <1>2 DEF Writes
    <3> QED BY <1>0, <1>1, <3>1, <3>2, OnTheWay DEF Queued
  <2>2. CASE Finish
    <3>1. Queued' = {} /\ writer' = Fresh
      <4>1. Len(<< >>) = 0
        BY EmptySeq
      <4> QED BY <1>1, <2>2, <4>1 DEF Finish, Queued
    <3>2. Timely'
      BY <1>0, <1>1, <1>2, <3>1 DEF Writes, Order, Timely, Fresh
    <3> QED BY <1>1, <3>1, <3>2 DEF Down, Past, Fresh
  <2> QED BY <2>1, <2>2
<1>4. writer'.open # None => writer'.open = writer.open /\ writer'.day = writer.day
  <2>1. CASE EncodeSpills
    BY <1>0, <2>1 DEF EncodeSpills, Writer
  <2>2. CASE Finish
    BY <2>2 DEF Finish, Fresh
  <2> QED BY <2>1, <2>2
<1>5. Dated' /\ Named' /\ Kept'
  BY <1>0, <1>1, <1>2, <1>3, <1>4, OrderStays DEF Order, Named
<1> QED BY <1>3, <1>5 DEF Order

\* of onTick, which may also prune; and Prune after a rotation.
LEMMA PruneInOrder ==
  ASSUME Inv, Inv', Order, TickFlushes \/ Prune
  PROVE  Order'
<1>0. LogTypeOK /\ LogTypeOK' /\ Sourced /\ Unopened /\ today \in Nat /\ writer \in Writer
  BY TypesApart DEF Inv, Day
<1>1. /\ UNCHANGED <<job, today, queue, stamp>> /\ mode' = mode /\ mode # "down"
      /\ writer'.day = writer.day /\ writer'.open = writer.open
      /\ writer'.hand = writer.hand /\ writer'.buf \subseteq writer.buf
  BY <1>0 DEF TickFlushes, Ticking, Prune, Writer, Inv, Resting, Fresh
<1>2. /\ \A d \in Day : /\ plain'[d] \in {plain[d], None}
                        /\ gz'[d] = gz[d] \/ ~ (gz'[d].made \/ gz'[d].whole)
                        /\ Live(d) => plain'[d] = plain[d] /\ gz'[d] = gz[d]
      /\ writer.open # None => plain'[writer.day] = plain[writer.day]
  <2>1. CASE plain' = plain /\ gz' = gz
    BY <2>1
  <2>2. CASE plain' = Pruned(writer.day, plain) /\ gz' = PrunedGz(writer.day) /\ writer.day = None
    <3>1. \A d \in Day : ~ Expired(d, writer.day)
      BY <2>2 DEF Expired, Day, None
    <3>2. writer.open = None
      BY <1>0, <2>2 DEF Unopened, Inv, LogTypeOK
    <3> QED BY <1>0, <2>2, <3>1, <3>2 DEF Pruned, PrunedGz
  <2>3. CASE plain' = Pruned(writer.day, plain) /\ gz' = PrunedGz(writer.day) /\ writer.day # None
    <3>1. writer.day \in Day /\ writer.day <= today
      BY <1>0, <2>3 DEF Writer, Order, Timely
    <3> QED BY <1>0, <2>3, <3>1, PruneFrame
  <2> QED BY <2>1, <2>2, <2>3 DEF TickFlushes, Prune
<1>3. PICK W \in SUBSET writer.buf : Writes(W, None, 1)
  <2>1. CASE TickFlushes
    <3>1. PICK ok \in BOOLEAN : Flushing(ok)
      BY <2>1 DEF TickFlushes, FlushEnds
    <3> QED BY <1>0, <1>1, <1>2, <3>1, FlushWrites
  <2>2. CASE Prune
    <3>1. {} \in SUBSET writer.buf /\ Writes({}, None, 1)
      BY <1>1, <1>2, <2>2 DEF Writes, Prune, historyVars, Inode, None
    <3> QED BY <3>1
  <2> QED BY <2>1, <2>2
<1>4. flushed' \subseteq flushed \cup writer.buf
  BY <1>3 DEF Writes
<1>5. Timely' /\ Down' /\ \A d \in Day : Past(d) => Past(d)'
  BY <1>0, <1>1, <1>4, OnTheWay DEF Queued
<1>6. Dated' /\ Named' /\ Kept'
  BY <1>0, <1>1, <1>2, <1>3, <1>5, OrderStays DEF Order, Named
<1> QED BY <1>5, <1>6 DEF Order

\* write(e), up to Encode, of a line of the file's day or of a later one.
LEMMA TakeInOrder ==
  ASSUME Inv, Inv', Order, Take, ~ late'
  PROVE  Order'
<1>0. /\ LogTypeOK /\ LogTypeOK' /\ Sourced /\ Unopened /\ today \in Nat /\ writer \in Writer
      /\ Day \subseteq Nat /\ Timely /\ writer.hand = {}
  BY TypesApart DEF Inv, Day, Order, Handed, Take
<1>1. PICK e \in Line : /\ e = Head(queue) /\ e \in Queued
                        /\ Queued' \subseteq Queued
  <2>1. /\ queue \in Seq(Line) /\ queue # << >> /\ queue' = Tail(queue)
        /\ Queued = Elements(queue) /\ Queued' = Elements(queue') /\ Distinct(queue)
    BY <1>0 DEF LogTypeOK, Take, Queued, Elements, Inv, OnePlace
  <2> QED BY <2>1, Dequeued
<1>2. PICK d \in Day : d = stamp[e] /\ d <= today
  BY <1>0, <1>1 DEF LogTypeOK, Timely
<1>3. /\ UNCHANGED <<today, mode, stamp>> /\ mode # "down" /\ ~ (d < writer.day)
      /\ IF writer.open = None \/ d # writer.day
           THEN RotateTo(d, {e})
           ELSE /\ writer' = [writer EXCEPT !.at = "encode", !.hand = {e}]
                /\ UNCHANGED <<fileVars, flushed, faulty>>
  BY <1>1, <1>2 DEF Take
<1>4. CASE writer.open = None \/ d # writer.day
  <2>1. \A x \in Day : Past(x) => x < d
    BY <1>0, <1>1, <1>2, <1>3 DEF Past, Writer
  <2>2. writer.open # None => writer.day < d
    BY <1>0, <1>2, <1>3, <1>4 DEF Writer, Unopened
  <2>3. PICK hand \in SUBSET Line : hand = {e}
    OBVIOUS
  <2>4. RotateTo(d, hand)
    BY <1>3, <1>4, <2>3
  <2>5. \A g \in hand : g \in Line /\ stamp[g] = d
    BY <1>2, <2>3
  <2> QED BY <1>0, <1>1, <1>2, <1>3, <2>1, <2>2, <2>4, <2>5, RotatesInOrder
<1>5. CASE ~ (writer.open = None \/ d # writer.day)
  <2>1. /\ writer'.day = writer.day /\ writer'.open = writer.open
        /\ writer'.hand = {e} /\ writer'.buf = writer.buf
        /\ UNCHANGED <<plain, data, gz, job, flushed>>
    BY <1>0, <1>3, <1>5 DEF Writer, fileVars
  <2>2. Timely' /\ Down' /\ \A x \in Day : Past(x) => Past(x)'
    BY <1>0, <1>1, <1>2, <1>3, <1>5, <2>1, OnTheWay
  <2>3. Writes({}, None, 1)
    BY <1>3, <2>1 DEF Writes, Inode, None
  <2>4. Dated' /\ Named' /\ Kept'
    BY <1>0, <1>3, <2>1, <2>2, <2>3, OrderStays DEF Order, Named
  <2> QED BY <2>2, <2>4 DEF Order
<1> QED BY <1>4, <1>5

\* onTick on another day,
LEMMA TickRotatesInOrder ==
  ASSUME Inv, Inv', Order, TickRotates
  PROVE  Order'
<1>0. /\ LogTypeOK /\ LogTypeOK' /\ Sourced /\ Unopened /\ today \in Day /\ writer \in Writer
      /\ Day \subseteq Nat /\ Timely
  BY TypesApart DEF Inv, Order
<1>1. PICK hand \in SUBSET Line, d \in Day : hand = {} /\ d = today
  BY <1>0
<1>2. /\ RotateTo(d, hand) /\ UNCHANGED <<today, mode, queue, stamp>> /\ mode # "down"
      /\ writer.open # None /\ today # writer.day
  BY <1>1 DEF TickRotates, Ticking
<1>3. /\ \A x \in Day : Past(x) => x < d
      /\ writer.open # None => writer.day < d
      /\ d <= today /\ Queued' \subseteq Queued
      /\ \A e \in hand : e \in Line /\ stamp[e] = d
  BY <1>0, <1>1, <1>2 DEF Past, Timely, Unopened, Writer, Queued
<1> QED BY <1>0, <1>2, <1>3, RotatesInOrder

\* and with no file open.
LEMMA TickOpensInOrder ==
  ASSUME Inv, Inv', Order, TickOpens
  PROVE  Order'
<1> DEFINE free == CHOOSE i \in FreeInodes : \A k \in FreeInodes : i <= k
<1>0. /\ LogTypeOK /\ LogTypeOK' /\ Sourced /\ Unopened /\ today \in Nat
      /\ plain \in [Day -> Inode \cup {None}] /\ data \in [Inode -> SUBSET Line]
      /\ gz \in [Day -> GzType]
  BY TypesApart DEF Inv, Day
<1>1. PICK d \in Day : d = today
  BY DEF Inv, LogTypeOK
<1>2. PICK opens \in BOOLEAN :
        LET new == opens /\ plain[today] = None
            f   == IF new THEN free ELSE plain[today]
        IN  /\ FreeInodes # {}
            /\ data' = IF new THEN [data EXCEPT ![f] = {}] ELSE data
            /\ plain' = IF new THEN [plain EXCEPT ![today] = f] ELSE plain
            /\ writer' = [Fresh EXCEPT !.day = today, !.open = IF opens THEN f ELSE None]
  BY Zenon DEF TickOpens
<1>3. FreeInodes # {} /\ free \in FreeInodes /\ free \in Inode /\ free # None
  BY <1>2, LeastFree DEF FreeInodes, Inode, None
<1> HIDE DEF free
<1>4. PICK f \in {free, None} : f = IF opens /\ plain[d] = None THEN free ELSE None
  OBVIOUS
<1>5. /\ UNCHANGED <<gz, job, today, mode, queue, stamp, flushed>> /\ mode # "down"
      /\ writer.open = None
  BY DEF TickOpens, Ticking
<1>6. /\ \A x \in Day : plain'[x] = IF f # None /\ x = d THEN f ELSE plain[x]
      /\ \A i \in Inode : data'[i] = IF i = f THEN {} ELSE data[i]
  <2>1. CASE opens /\ plain[d] = None
    BY <1>0, <1>1, <1>2, <1>3, <1>4, <2>1
  <2>2. CASE ~ (opens /\ plain[d] = None)
    BY <1>0, <1>1, <1>2, <1>4, <2>2 DEF Inode, None
  <2> QED BY <2>1, <2>2
<1>7. /\ writer'.day = d /\ writer'.hand = {} /\ writer'.buf = {}
      /\ writer'.open \in {None, plain'[d]}
  BY <1>0, <1>1, <1>2, <1>3, <1>4, <1>6 DEF Fresh
<1>8. f # None => f \in FreeInodes /\ plain[d] = None /\ ~ gz[d].made
  <2>1. ASSUME gz[d].made PROVE FALSE
    <3>1. Past(d)
      BY <2>1 DEF Order, Dated
    <3> QED BY <1>0, <1>1, <3>1 DEF Past
  <2> QED BY <1>3, <1>4, <2>1
<1>9. Writes({}, f, d)
  <2>1. \A i \in Inode : i # writer.open
    BY <1>5 DEF Inode, None
  <2> QED BY <1>5, <1>6, <1>8, <2>1 DEF Writes
<1>10. /\ \A x \in Day : Past(x) => x < d
       /\ d <= today /\ Queued' \subseteq Queued
       /\ \A e \in writer'.hand \cup writer'.buf : e \in Line /\ stamp[e] = d
  BY <1>0, <1>1, <1>5, <1>7 DEF Past, Queued
<1> QED BY <1>0, <1>5, <1>6, <1>7, <1>9, <1>10, OpensNext

\* A crash leaves the files as they are,
LEMMA DieInOrder ==
  ASSUME Inv, Inv', Order, Die
  PROVE  Order'
<1>0. LogTypeOK /\ LogTypeOK' /\ Sourced /\ Unopened /\ today \in Nat
  BY DEF Inv, LogTypeOK, Day
<1>1. /\ writer' = Fresh /\ queue' = << >> /\ job' = [j \in Job |-> NoJob]
      /\ UNCHANGED <<plain, data, gz, today, stamp, flushed>>
  BY DEF Die
<1>2. Queued' = {}
  <2>1. Len(<< >>) = 0
    BY EmptySeq
  <2> QED BY <1>1, <2>1 DEF Queued
<1>3. Timely' /\ Down' /\ \A d \in Day : Past(d) => Past(d)'
  BY <1>1, <1>2 DEF Order, Timely, Down, Past, Fresh
<1>4. \A j \in Job : job'[j].at = "idle"
  BY <1>1 DEF NoJob
<1>5. Writes({}, None, 1)
  BY <1>1, <1>4 DEF Writes, Inode, None
<1>6. writer'.open = None
  BY <1>1 DEF Fresh
<1>7. Dated' /\ Named' /\ Kept'
  BY <1>0, <1>1, <1>3, <1>4, <1>5, <1>6, OrderStays
<1> QED BY <1>3, <1>7 DEF Order

\* and a start compresses those of the days before.
LEMMA RestartInOrder ==
  ASSUME Inv, Inv', Order, Restart
  PROVE  Order'
<1>0. /\ LogTypeOK /\ LogTypeOK' /\ Sourced /\ Unopened /\ today \in Day /\ Day \subseteq Nat
      /\ job \in [Job -> JobType] /\ job' \in [Job -> JobType] /\ 1 \in Day
  BY DEF Inv, LogTypeOK, FilesTypeOK, JobType, Day
<1>1. /\ mode = "down" /\ mode' = "run"
      /\ plain' = Pruned(today, plain) /\ gz' = PrunedGz(today)
      /\ job' = Launched(StaleAtStart)
      /\ UNCHANGED <<data, today, queue, stamp, writer, flushed>>
  BY DEF Restart, historyVars
<1>2. /\ Queued' = Queued /\ Queued = {} /\ writer = Fresh /\ \A j \in Job : job[j] = NoJob
  <2>1. Len(<< >>) = 0
    BY EmptySeq
  <2> QED BY <1>1, <2>1 DEF Order, Down, Queued, Inv, Resting
<1>3. Timely' /\ Down' /\ \A d \in Day : Past(d) => Past(d)'
  BY <1>1, <1>2 DEF Order, Timely, Down, Past
<1>4. \A d \in Day : /\ plain'[d] \in {plain[d], None}
                     /\ gz'[d] = gz[d] \/ ~ (gz'[d].made \/ gz'[d].whole)
                     /\ Live(d) => plain'[d] = plain[d] /\ gz'[d] = gz[d]
  <2>1. PICK t \in Day : t = today
    BY <1>0
  <2> QED BY <1>0, <1>1, <2>1, PruneFrame
<1>5. StaleAtStart \in SUBSET Day
  BY DEF StaleAtStart, StaleDays
<1>6. PICK new \in SUBSET Job :
        /\ \A j \in new : /\ job'[j].at = "open" /\ job'[j].day \in StaleAtStart
                          /\ \A k \in new : job'[k].day = job'[j].day => k = j
        /\ \A j \in Job \ new : job'[j] = job[j]
  BY <1>0, <1>1, <1>5, Launches
<1>7. Dated'
  <2>1. \A d \in StaleAtStart : Past(d)'
    BY <1>0, <1>1, <1>2 DEF StaleAtStart, StaleDays, Past, Fresh, Order, Dated
  <2>2. \A j \in Job : job[j].at = "idle"
    BY <1>2 DEF NoJob
  <2>3. /\ \A d \in StaleAtStart : \A j \in Job : job[j].at # "idle" => job[j].day # d
        /\ \A j \in Job \ new : job'[j].at # "idle" => job[j].at # "idle" /\ job'[j].day = job[j].day
    BY <1>6, <2>2
  <2>4. /\ \A d \in Day : plain'[d] # None => plain[d] # None \/ d <= today'
        /\ \A d \in Day : /\ gz'[d].made => gz[d].made \/ \E k \in Job : job[k].at # "idle" /\ job[k].day = d
                          /\ gz'[d].whole => gz'[d].made
    BY <1>4 DEF Order, Dated
  <2>5. today' \in Day /\ today' >= today
    BY <1>0, <1>1
  <2>6. \A j \in new : /\ job'[j].day \in StaleAtStart
                       /\ \A k \in new : job'[k].day = job'[j].day => k = j
    BY <1>6
  <2> QED BY <1>0, <1>3, <1>5, <2>1, <2>3, <2>4, <2>5, <2>6, DatedAfter
<1>8. Named'
  <2>1. writer'.open = None
    BY <1>1, <1>2 DEF Fresh
  <2> QED BY <1>0, <1>4, <2>1, NamedAfter
<1>9. Kept'
  <2>1. Writes({}, None, 1)
    BY <1>1, <1>4, <1>6 DEF Writes, Inode, None
  <2> QED BY <1>0, <1>1, <2>1, KeptWriting
<1> QED BY <1>3, <1>7, <1>8, <1>9 DEF Order

\* The goroutines of Compress are at days that are past, one at each.
LEMMA CompressInOrder ==
  ASSUME Inv, Inv', Order, NEW j \in Job, Compressing(j) \/ Failing(j)
  PROVE  Order'
<1>0. /\ LogTypeOK /\ LogTypeOK' /\ Sourced /\ Unopened /\ today \in Nat /\ Day \subseteq Nat
      /\ FilesTypeOK /\ job \in [Job -> JobType] /\ job' \in [Job -> JobType] /\ 1 \in Day
      /\ writer \in Writer /\ today' \in Day
  <2>1. LogTypeOK /\ LogTypeOK' /\ Sourced /\ Unopened
    BY DEF Inv
  <2>2. job' \in [Job -> JobType] /\ today' \in Day
    BY <2>1 DEF LogTypeOK, FilesTypeOK, JobType
  <2> QED BY <2>1, <2>2, TypesApart DEF Day
<1>1. /\ CompressStep(j) \/ CompressFails(j)
      /\ UNCHANGED <<today, mode, queue, stamp, writer, flushed>>
  BY DEF Compressing, Failing, historyVars
<1>2. /\ \A d \in Day : \/ plain'[d] = plain[d]
                        \/ /\ \E k \in Job : job[k].at # "idle" /\ job[k].day = d
                           /\ plain'[d] = None
      /\ \A k \in Job : job'[k].at # "idle" => job[k].at # "idle" /\ job'[k].day = job[k].day
      /\ \A d \in Day : \/ gz'[d] = gz[d]
                        \/ /\ \E k \in Job : job[k].at # "idle" /\ job[k].day = d
                           /\ gz'[d].made /\ (gz'[d].whole => gz[d].made)
  BY <1>0, <1>1, CompressFrame
<1>3. mode # "down"
  <2>1. job[j].at # "idle"
    BY <1>1 DEF CompressStep, CompressOpen, CompressCreate, CompressCopy, CompressRemove,
                CompressFails
  <2> QED BY <2>1 DEF Order, Down, NoJob
<1>4. Timely' /\ Down' /\ \A d \in Day : Past(d) => Past(d)'
  BY <1>0, <1>1, <1>3, OnTheWay DEF Queued
<1>5. Dated'
  <2> DEFINE ds == {d \in Day : FALSE}  new == {k \in Job : FALSE}
  <2>1. ds \in SUBSET Day /\ new \in SUBSET Job /\ ds = {} /\ new = {}
    OBVIOUS
  <2> HIDE DEF ds, new
  <2>2. /\ \A d \in ds : Past(d)'
        /\ \A d \in ds : \A k \in Job : job[k].at # "idle" => job[k].day # d
        /\ \A i \in new : /\ job'[i].day \in ds
                          /\ \A k \in new : job'[k].day = job'[i].day => k = i
        /\ \A k \in Job \ new : job'[k].at # "idle" => job[k].at # "idle" /\ job'[k].day = job[k].day
    BY <1>2, <2>1
  <2>3. /\ \A d \in Day : plain'[d] # None => plain[d] # None \/ d <= today'
        /\ \A d \in Day : /\ gz'[d].made => gz[d].made \/ \E k \in Job : job[k].at # "idle" /\ job[k].day = d
                          /\ gz'[d].whole => gz'[d].made
    BY <1>2 DEF Order, Dated
  <2>4. today' >= today
    BY <1>0, <1>1
  <2> QED BY <1>0, <1>4, <2>1, <2>2, <2>3, <2>4, DatedAfter
<1>6. Named'
  <2>1. \A d \in Day : plain'[d] \in {plain[d], None}
    BY <1>2
  <2>2. ASSUME writer.open # None PROVE plain'[writer.day] = plain[writer.day]
    <3>1. PICK d \in Day : d = writer.day /\ d # None
      BY <1>0, <2>2 DEF Unopened, Writer
    <3>2. ASSUME NEW k \in Job, job[k].at # "idle", job[k].day = d PROVE FALSE
      BY <1>0, <3>1, <3>2 DEF Order, Dated, Past
    <3> QED BY <1>2, <3>1, <3>2
  <2>3. writer'.open # None => plain'[writer'.day] = writer'.open
    BY <1>1, <2>2 DEF Order, Named
  <2> QED BY <1>0, <2>1, <2>3, NamedAfter
<1>7. Kept'
  <2>1. PICK S : S = [d \in Day |-> Of(d)]
    OBVIOUS
  <2>2. PICK L \in SUBSET Day : L = {d \in Day : Live(d)}
    OBVIOUS
  <2>3. /\ \A d \in L : Stored(d, S[d])
        /\ \A k \in Job : job[k].day \in L => Faithful(k)
    BY <2>1, <2>2 DEF Order, Kept
  <2>4. /\ \A d \in L : Stored(d, S[d])'
        /\ \A k \in Job : job'[k].day \in L => Faithful(k)'
    BY <1>0, <1>1, <2>3, CompressKeeps DEF Order, Dated
  <2>5. \A d \in Day : Of(d)' = S[d] /\ (Live(d)' <=> d \in L)
    BY <1>1, <2>1, <2>2 DEF Of, Live
  <2>6. ASSUME NEW k \in Job, Live(job[k].day)' PROVE job'[k].day \in L
    <3>1. PICK d \in Day : d = job'[k].day
      BY <1>0 DEF JobType
    <3>2. Live(d)'
      BY <2>6, <3>1 DEF Live
    <3> QED BY <2>5, <3>1, <3>2
  <2>7. \A d \in Day : Live(d)' => Stored(d, Of(d))'
    BY <2>4, <2>5 DEF Stored
  <2> QED BY <2>4, <2>6, <2>7 DEF Kept
<1> QED BY <1>4, <1>5, <1>6, <1>7 DEF Order

\* Until a line is late.
InOrder == ~ late => Order

\* Nothing is written at first.
LEMMA InitInOrder == Init => InOrder
<1> SUFFICES ASSUME Init PROVE Order
  BY DEF InOrder
<1>1. Queued = {}
  <2>1. Len(<< >>) = 0
    BY EmptySeq
  <2> QED BY <2>1 DEF Init, Queued
<1>2. Timely /\ Down
  BY <1>1 DEF Init, Timely, Down, FilesInit, Fresh
<1>3. Dated /\ Named
  BY DEF Init, FilesInit, Dated, Named, Lone, NoGz, NoJob, Fresh
<1>4. Kept
  BY DEF Init, FilesInit, Kept, Stored, Of, Faithful, NoJob
<1> QED BY <1>2, <1>3, <1>4 DEF Order

\* Every step, whoever takes it.
LEMMA NextInOrder == Inv /\ Inv' /\ InOrder /\ [Next]_vars => InOrder'
<1> SUFFICES ASSUME Inv, Inv', InOrder, [Next]_vars, ~ late' PROVE Order'
  BY DEF InOrder
<1>0. Order
  BY DEF InOrder, Next, WriterStep, Tick, Record, Take, Encode, EncodeFails, EncodeSpills, Prune,
         Drain, Finish, TickOpens, TickRotates, TickFlushes, Compressing, Failing, Midnight, Stop,
         Die, Restart, vars, historyVars
<1>1. CASE \E e \in Line : Record(e)
  BY <1>0, <1>1, RecordInOrder
<1>2. CASE WriterStep
  BY <1>0, <1>2, TakeInOrder, QuietInOrder, FlushInOrder, PruneInOrder DEF WriterStep
<1>3. CASE Tick
  BY <1>0, <1>3, TickOpensInOrder, TickRotatesInOrder, PruneInOrder DEF Tick
<1>4. CASE \E j \in Job : Compressing(j) \/ Failing(j)
  BY <1>0, <1>4, CompressInOrder
<1>5. CASE Midnight \/ Stop \/ Die \/ Restart
  BY <1>0, <1>5, QuietInOrder, DieInOrder, RestartInOrder
<1>6. CASE UNCHANGED vars
  BY <1>0, <1>6
     DEF vars, fileVars, historyVars, Order, Timely, Down, Dated, Named, Kept, Past, Lone, Live, Of,
         Stored, Faithful, Queued
<1> QED BY <1>1, <1>2, <1>3, <1>4, <1>5, <1>6 DEF Next

\* rotateTo, openDay, onTick, Compress, Prune and SweepStale: as long as lines
\* reach the writer in the order of their days, a line that was written is found
\* again for as long as it is to be kept, through rotations, failures of any file
\* operation, crashes and restarts.
THEOREM KeptInOrderCorrect == Spec => []KeptInOrder
<1>1. Inv /\ InOrder => KeptInOrder
  <2> SUFFICES ASSUME Inv, Order, NEW e \in flushed, Retained(e) PROVE e \in LinesOf(stamp[e])
    BY DEF InOrder, KeptInOrder
  <2>1. PICK d \in Day : d = stamp[e]
    BY DEF Inv, LogTypeOK, Order, Timely
  <2>2. Live(d)
    BY <2>1 DEF Live, Expired, Retained, Inv, LogTypeOK, Day
  <2>3. Stored(d, Of(d)) /\ e \in Of(d)
    BY <2>1, <2>2 DEF Order, Kept, Of
  <2> QED BY <2>1, <2>3 DEF Stored, LinesOf
<1>2. Spec => []InOrder
  BY InitInOrder, NextInOrder, Invariance, PTL DEF Spec
<1> QED BY <1>1, <1>2, Invariance, PTL
=============================================================================
