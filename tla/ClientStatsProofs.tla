------------------------- MODULE ClientStatsProofs -------------------------
(***************************************************************************)
(* What ClientStats's properties say, for every set of packets and number  *)
(* of clients, every cap and retention, and without bounds on days, files, *)
(* goroutines, crashes and failures.                                       *)
(***************************************************************************)
EXTENDS ClientStats, DailyFileProofs, FiniteSetTheorems

USE DailyFileAssumption, ClientAssumption

\* The state of the background goroutine.
BgType == [at : Places, task : Tasks, i : 1 .. Clients + 1, copy : SUBSET Line,
           victims : SUBSET Client, excess : Nat, now : Day]

-----------------------------------------------------------------------------
(* Clients and their rows *)

\* The clients of a set of packets are finitely many.
LEMMA HeldFinite ==
  ASSUME NEW S \in SUBSET Line
  PROVE  /\ Held(S) \in SUBSET Client
         /\ IsFiniteSet(Held(S)) /\ Cardinality(Held(S)) \in Nat
<1>1. Held(S) \in SUBSET Client
  BY DEF Held, Client
<1>2. IsFiniteSet(Client)
  BY FS_Interval DEF Client
<1> QED BY <1>1, <1>2, FS_Subset, FS_CardinalityType

\* So is every set of clients.
LEMMA ClientsFinite ==
  ASSUME NEW S \in SUBSET Client
  PROVE  IsFiniteSet(S) /\ Cardinality(S) \in Nat
<1>1. IsFiniteSet(Client)
  BY FS_Interval DEF Client
<1> QED BY <1>1, FS_Subset, FS_CardinalityType

\* The first packet of a client is a row more.
LEMMA HeldMore ==
  ASSUME NEW S \in SUBSET Line, NEW p \in Line, ClientOf[p] \notin Held(S)
  PROVE  Cardinality(Held(S \cup {p})) = Cardinality(Held(S)) + 1
<1>1. Held(S \cup {p}) = Held(S) \cup {ClientOf[p]}
  BY DEF Held
<1> QED BY <1>1, HeldFinite, FS_AddElement

\* A client's packets gone, its row is gone.
LEMMA HeldLess ==
  ASSUME NEW S \in SUBSET Line, NEW c \in Held(S)
  PROVE  Cardinality(Held(S \ Rows(c, S))) = Cardinality(Held(S)) - 1
<1>1. Held(S \ Rows(c, S)) = Held(S) \ {c}
  BY DEF Held, Rows
<1> QED BY <1>1, HeldFinite, FS_RemoveElement

-----------------------------------------------------------------------------
(* Types *)

\* The goroutine at rest.
LEMMA IdleType == Idle \in BgType
<1>1. 1 \in 1 .. Clients + 1 /\ 1 \in Day
  BY DEF Day
<1> QED BY <1>1 DEF Idle, BgType, Places, Tasks

\* It starts a pass.
LEMMA CollectingType ==
  ASSUME NEW b \in BgType, NEW task \in Tasks
  PROVE  Collecting(task, b) \in BgType
<1>1. 1 \in 1 .. Clients + 1
  OBVIOUS
<1> QED BY <1>1 DEF Collecting, BgType, Places

\* What it starts with.
LEMMA CollectingFields ==
  ASSUME NEW b \in BgType, NEW task \in Tasks
  PROVE  /\ Collecting(task, b).at = "collect" /\ Collecting(task, b).task = task
         /\ Collecting(task, b).i = 1 /\ Collecting(task, b).copy = {}
         /\ Collecting(task, b).now = b.now /\ Collecting(task, b).excess = b.excess
BY DEF Collecting, BgType

\* Where the write of a snapshot ends.
LEMMA WriteEnds ==
  ASSUME Write
  PROVE  \/ /\ bg.task = "final" /\ job' = Launched({day})
            /\ bg' = [Idle EXCEPT !.at = "prune", !.task = "final", !.now = bg.now]
            /\ bg'.at = "prune" /\ bg'.task = "final" /\ bg'.now = bg.now /\ bg'.copy = {}
            /\ bg'.i = 1
         \/ /\ bg.task # "final" /\ job' = job
            /\ bg' = Idle /\ bg'.at = "idle" /\ bg'.task = "none" /\ bg'.copy = {}
            /\ bg'.i = 1
<1>1. CASE bg.task = "final"
  BY <1>1 DEF Write, Idle
<1>2. CASE bg.task # "final"
  BY <1>2 DEF Write, Idle
<1> QED BY <1>1, <1>2

\* The file a snapshot is written to is one, and in no use.
LEMMA LeastFree ==
  ASSUME FreeInodes # {}
  PROVE  (CHOOSE i \in FreeInodes : \A k \in FreeInodes : i <= k) \in FreeInodes
<1>1. FreeInodes \subseteq Nat
  BY DEF FreeInodes, Inode
<1>2. \E i \in FreeInodes : \A k \in FreeInodes : i <= k
  BY <1>1, LeastExists
<1> QED BY <1>2

\* A snapshot is written to a file that nothing names, or it is not.
LEMMA WrittenCases ==
  ASSUME Written
  PROVE  \/ UNCHANGED <<plain, data, saved>>
         \/ \E f \in FreeInodes :
              /\ data' = [data EXCEPT ![f] = bg.copy]
              /\ plain' = [plain EXCEPT ![day] = f]
              /\ saved' = [saved EXCEPT ![day] = bg.copy]
BY LeastFree DEF Written

\* What a file is in depends on nothing but the types of these.
LEMMA TypesApart ==
  ASSUME StatsTypeOK
  PROVE  /\ FilesTypeOK
         /\ plain \in [Day -> Inode \cup {None}] /\ data \in [Inode -> SUBSET Line]
         /\ gz \in [Day -> GzType] /\ job \in [Job -> JobType]
         /\ today \in Day /\ day \in Day /\ bg \in BgType
         /\ table \in SUBSET Line /\ holding \in SUBSET Line
         /\ tracked \in Nat /\ missed \in Nat
         /\ saved \in [Day -> SUBSET Line] /\ sent \in SUBSET Line
         /\ evicted \in SUBSET Line /\ unread \in BOOLEAN
BY DEF StatsTypeOK, FilesTypeOK, BgType, GzType, JobType

\* The moves of the background goroutine keep its type.
LEMMA BgMoves ==
  ASSUME StatsTypeOK,
         Tick \/ Collect \/ Choose \/ Drop \/ Dropped \/ Check \/ Write \/ Prune
           \/ Clear \/ Reset \/ LastSnapshot
  PROVE  bg' \in BgType
<1>0. bg \in BgType /\ today \in Day /\ tracked \in Nat /\ table \in SUBSET Line
  BY TypesApart
<1>1. CASE Tick
  <2> DEFINE b == [bg EXCEPT !.now = today]
             e == [b EXCEPT !.excess = tracked - MaxIPs]
  <2>1. b \in BgType /\ [b EXCEPT !.at = "check"] \in BgType
    BY <1>0 DEF BgType, Places
  <2>2. CASE tracked > MaxIPs
    <3>1. e \in BgType
      <4>1. tracked - MaxIPs \in Nat
        BY <1>0, <2>2
      <4> QED BY <2>1, <4>1 DEF BgType
    <3>2. bg' = Collecting("evict", e)
      BY <1>1, <2>2 DEF Tick
    <3> HIDE DEF e
    <3> QED BY <3>1, <3>2, CollectingType DEF Tasks
  <2>3. CASE ~ (tracked > MaxIPs)
    BY <1>1, <2>1, <2>3 DEF Tick
  <2> QED BY <2>2, <2>3
<1>2. CASE Collect
  <2>1. bg.i + 1 \in 1 .. Clients + 1 /\ Rows(bg.i, table) \in SUBSET Line
    BY <1>0, <1>2 DEF Collect, Client, Rows
  <2> QED BY <1>0, <1>2, <2>1 DEF Collect, BgType
<1>3. CASE Choose
  <2>1. PICK victims \in SUBSET Held(bg.copy) :
          bg' = [Idle EXCEPT !.at = "drop", !.victims = victims, !.now = bg.now]
    BY <1>3 DEF Choose
  <2>2. bg.copy \in SUBSET Line /\ bg.now \in Day
    BY <1>0 DEF BgType
  <2>3. victims \in SUBSET Client
    BY <2>2, HeldFinite
  <2> QED BY <2>1, <2>2, <2>3, IdleType DEF BgType, Places
<1>4. CASE Drop \/ Dropped
  BY <1>0, <1>4 DEF Drop, Dropped, BgType, Places
<1>5. CASE Check
  <2>1. Collecting("final", bg) \in BgType /\ Collecting("tick", bg) \in BgType
    BY <1>0, CollectingType DEF Tasks
  <2> QED BY <1>5, <2>1, IdleType DEF Check
<1>6. CASE Write
  <2>1. CASE bg.task = "final"
    BY <1>0, <1>6, <2>1, IdleType DEF Write, BgType, Places, Tasks
  <2>2. CASE bg.task # "final"
    BY <1>6, <2>2, IdleType DEF Write
  <2> QED BY <2>1, <2>2
<1>7. CASE Prune
  BY <1>0, <1>7 DEF Prune, BgType, Places
<1>8. CASE Clear
  <2>1. bg.i + 1 \in 1 .. Clients + 1
    BY <1>0, <1>8 DEF Clear, Client
  <2> QED BY <1>0, <1>8, <2>1 DEF Clear, BgType, Places
<1>9. CASE Reset
  BY <1>9, IdleType DEF Reset
<1>10. CASE LastSnapshot
  BY <1>0, <1>10, CollectingType DEF LastSnapshot, Tasks
<1> QED BY <1>1, <1>2, <1>3, <1>4, <1>5, <1>6, <1>7, <1>8, <1>9, <1>10

\* The steps of the background goroutine; those of them that touch no file; and
\* the other steps that do not.
BgStep   == Tick \/ Collect \/ Choose \/ Drop \/ Dropped \/ Check \/ Write \/ Prune
              \/ Clear \/ Reset \/ LastSnapshot
BgQuiet  == Tick \/ Collect \/ Choose \/ Drop \/ Dropped \/ Check \/ Clear \/ Reset
              \/ LastSnapshot
Counting == \E p \in Line : RecordHit(p) \/ RecordMiss(p) \/ RecordInsert(p)
Quiet    == Counting \/ BgQuiet \/ Midnight \/ Stop

\* The goroutines of Compress.
Converting == \E j \in Job : Compressing(j)

\* What a step is.
LEMMA Steps ==
  ASSUME [Next]_vars
  PROVE  Quiet \/ Write \/ Prune \/ Converting \/ Die \/ Restart \/ UNCHANGED vars
BY DEF Next, Quiet, Counting, BgQuiet, Converting

\* Most steps touch no file.
LEMMA QuietFiles ==
  ASSUME Quiet
  PROVE  UNCHANGED fileVars
BY DEF Quiet, Counting, BgQuiet, RecordHit, RecordMiss, RecordInsert, Tick, Collect,
       Choose, Drop, Dropped, Check, Clear, Reset, LastSnapshot, Midnight, Stop

\* The write of a snapshot, as the files and the histories see it.
LEMMA WriteFiles ==
  ASSUME StatsTypeOK, Sourced, Write
  PROVE  /\ FilesTypeOK' /\ Sourced'
         /\ gz' = gz /\ saved' \in [Day -> SUBSET Line]
         /\ job' = job \/ job' = Launched({day})
<1>0. /\ plain \in [Day -> Inode \cup {None}] /\ data \in [Inode -> SUBSET Line]
      /\ gz \in [Day -> GzType] /\ job \in [Job -> JobType] /\ day \in Day
      /\ bg.copy \in SUBSET Line /\ saved \in [Day -> SUBSET Line]
  BY TypesApart DEF BgType
<1>1. gz' = gz /\ Written
  BY DEF Write
<1>2. /\ plain' \in [Day -> Inode \cup {None}] /\ data' \in [Inode -> SUBSET Line]
      /\ saved' \in [Day -> SUBSET Line]
  <2>1. CASE UNCHANGED <<plain, data, saved>>
    BY <1>0, <2>1
  <2>2. ASSUME NEW f \in FreeInodes, data' = [data EXCEPT ![f] = bg.copy],
               plain' = [plain EXCEPT ![day] = f], saved' = [saved EXCEPT ![day] = bg.copy]
        PROVE  /\ plain' \in [Day -> Inode \cup {None}] /\ data' \in [Inode -> SUBSET Line]
               /\ saved' \in [Day -> SUBSET Line]
    BY <1>0, <2>2 DEF FreeInodes
  <2> QED BY <1>1, <2>1, <2>2, WrittenCases
<1>3. job' = job \/ job' = Launched({day})
  BY DEF Write
<1>4. job' \in [Job -> JobType] /\ Sourced'
  <2>1. CASE job' = job
    BY <1>0, <2>1 DEF Sourced
  <2>2. CASE job' = Launched({day})
    BY <1>0, <2>2, LaunchTypes
  <2> QED BY <1>3, <2>1, <2>2
<1> QED BY <1>0, <1>1, <1>2, <1>3, <1>4 DEF FilesTypeOK, GzType, JobType

\* A goroutine of the data path that has a shard's lock adds that client's
\* first row.
Locks == \A p \in holding : /\ ClientOf[p] \notin Held(table)
                            /\ \A q \in holding : ClientOf[q] = ClientOf[p] => q = p

\* An eviction has at most the excess before it that it saw.
Surplus == /\ bg.at = "collect" /\ bg.task = "evict" => tracked >= MaxIPs + bg.excess
           /\ bg.at = "drop" => tracked >= MaxIPs + Cardinality(bg.victims)

\* Of a process that is down there are only the files.
Down == mode = "down" => /\ table = {} /\ holding = {} /\ bg = Idle /\ missed = 0
                         /\ \A j \in Job : job[j] = NoJob

\* The types, and that a goroutine of Compress past its open has a file.
LEMMA TypeStep ==
  ASSUME StatsTypeOK, Sourced, Surplus, [Next]_vars
  PROVE  StatsTypeOK' /\ Sourced'
<1>0. /\ plain \in [Day -> Inode \cup {None}] /\ data \in [Inode -> SUBSET Line]
      /\ gz \in [Day -> GzType] /\ job \in [Job -> JobType]
      /\ today \in Day /\ day \in Day /\ bg \in BgType
      /\ table \in SUBSET Line /\ tracked \in Nat
  BY TypesApart
<1>1. FilesTypeOK' /\ Sourced'
  <2>1. CASE UNCHANGED fileVars
    BY <2>1 DEF StatsTypeOK, FilesTypeOK, Sourced, fileVars
  <2>2. CASE Write
    BY <2>2, WriteFiles
  <2>3. CASE Prune
    BY <1>0, <2>3, PruneTypes DEF Prune, StatsTypeOK, FilesTypeOK, Sourced, GzType
  <2>4. CASE Converting
    BY <2>4, CompressTypes DEF Converting, Compressing, StatsTypeOK
  <2>5. CASE Die
    <3>1. job' \in [Job -> JobType] /\ \A j \in Job : job'[j].at = "idle"
      BY <2>5 DEF Die, NoJob, JobType, JobStep, Day
    <3> QED BY <2>5, <3>1 DEF Die, StatsTypeOK, FilesTypeOK, Sourced, JobType
  <2>6. CASE Restart
    <3>1. StaleDays(today) \in SUBSET Day
      BY DEF StaleDays
    <3>2. job' = Launched(StaleDays(today))
      BY <2>6 DEF Restart
    <3> HIDE DEF StaleDays
    <3>4. job' \in [Job -> JobType] /\ Sourced'
      BY <1>0, <3>1, <3>2, LaunchTypes
    <3>3. /\ plain' \in [Day -> Inode \cup {None}] /\ gz' \in [Day -> GzType]
          /\ data' = data
      BY <2>6, PruneTypes DEF Restart, StatsTypeOK
    <3> QED BY <1>0, <3>3, <3>4 DEF FilesTypeOK, JobType, GzType
  <2> QED BY <2>1, <2>2, <2>3, <2>4, <2>5, <2>6, Steps, QuietFiles DEF vars
<1>2. bg' \in BgType
  <2>1. CASE BgStep
    BY <2>1, BgMoves DEF BgStep
  <2>2. CASE Counting \/ Midnight \/ Stop \/ Converting \/ Restart \/ UNCHANGED vars
    <3>1. bg' = bg
      BY <2>2 DEF Counting, RecordHit, RecordMiss, RecordInsert, Midnight, Stop, Restart,
                  Converting, Compressing, statsVars, vars
    <3> QED BY <1>0, <3>1
  <2>3. CASE Die
    BY <2>3, IdleType DEF Die
  <2> QED BY <2>1, <2>2, <2>3, Steps DEF Quiet, BgQuiet, BgStep
<1>3. CASE Quiet
  <2> USE <1>1, <1>2 DEF BgType
  <2>1. CASE Counting
    BY <1>0, <2>1 DEF Counting, RecordHit, RecordMiss, RecordInsert, StatsTypeOK, historyVars
  <2>2. CASE Tick \/ Collect \/ Choose \/ Dropped \/ Check \/ LastSnapshot
    BY <2>2 DEF Tick, Collect, Choose, Dropped, Check, LastSnapshot, StatsTypeOK, historyVars
  <2>3. CASE Drop
    <3>1. PICK c \in bg.victims :
            /\ table' = table \ Rows(c, table) /\ evicted' = evicted \cup Rows(c, table)
            /\ tracked' = IF c \in Held(table) THEN tracked - 1 ELSE tracked
      BY <2>3 DEF Drop
    <3>2. tracked' \in Nat
      <4>1. bg.victims \in SUBSET Client /\ bg.at = "drop"
        BY <1>0, <2>3 DEF BgType, Drop
      <4>2. tracked >= MaxIPs
        BY <1>0, <4>1, ClientsFinite DEF Surplus
      <4> QED BY <1>0, <3>1, <4>2
    <3>3. UNCHANGED <<today, mode, holding, day, sent, saved, missed, unread>>
      BY <2>3 DEF Drop
    <3>4. Rows(c, table) \in SUBSET Line
      BY <1>0 DEF Rows
    <3> QED BY <3>1, <3>2, <3>3, <3>4 DEF StatsTypeOK
  <2>4. CASE Clear
    <3>1. table' \in SUBSET Line /\ UNCHANGED <<today, mode, tracked, holding, day, historyVars>>
      BY <1>0, <2>4 DEF Clear
    <3> QED BY <3>1 DEF StatsTypeOK, historyVars
  <2>5. CASE Reset
    <3>1. Cardinality(Held(table)) \in Nat /\ bg.now \in Day
      BY <1>0, HeldFinite DEF BgType
    <3> QED BY <2>5, <3>1 DEF Reset, StatsTypeOK
  <2>6. CASE Midnight
    <3>1. today + 1 \in Day
      BY <1>0, <2>6 DEF Midnight, Day
    <3> QED BY <2>6, <3>1 DEF Midnight, StatsTypeOK, historyVars
  <2>7. CASE Stop
    BY <2>7 DEF Stop, StatsTypeOK, historyVars
  <2> QED BY <1>3, <2>1, <2>2, <2>3, <2>4, <2>5, <2>6, <2>7 DEF Quiet, BgQuiet
<1>4. CASE Write \/ Prune \/ Converting \/ UNCHANGED vars
  <2>1. /\ UNCHANGED <<today, table, tracked, holding, day, sent, evicted, missed, unread>>
        /\ mode' \in {mode, "done"}
    BY <1>4 DEF Write, Prune, Converting, Compressing, statsVars, historyVars, vars
  <2>2. saved' \in [Day -> SUBSET Line]
    <3>1. CASE Write
      BY <3>1, WriteFiles
    <3>2. CASE Prune \/ Converting \/ UNCHANGED vars
      <4>1. saved' = saved
        BY <3>2 DEF Prune, Converting, Compressing, historyVars, vars
      <4> QED BY <4>1, TypesApart
    <3> QED BY <1>4, <3>1, <3>2
  <2> QED BY <1>1, <1>2, <2>1, <2>2 DEF StatsTypeOK, BgType
<1>5. CASE Die
  <2>1. /\ mode' = "down" /\ table' = {} /\ tracked' = 0 /\ holding' = {} /\ missed' = 0
        /\ UNCHANGED <<today, day, sent, saved, evicted, unread>>
    BY <1>5 DEF Die
  <2> QED BY <1>1, <1>2, <2>1 DEF StatsTypeOK, BgType
<1>6. CASE Restart
  <2>1. PICK ok \in BOOLEAN :
          /\ table' = IF ok THEN Loaded ELSE {}
          /\ tracked' = Cardinality(Held(table'))
          /\ unread' = (unread \/ ~ok)
    BY <1>6, Zenon DEF Restart
  <2>2. unread' \in BOOLEAN
    BY <2>1, Zenon
  <2>3. Loaded \in SUBSET Line
    BY <1>0 DEF Loaded
  <2>4. table' \in SUBSET Line
    BY <2>1, <2>3
  <2>5. tracked' \in Nat
    BY <2>1, <2>4, HeldFinite
  <2>6. /\ mode' = "run" /\ day' = today
        /\ UNCHANGED <<today, holding, sent, saved, evicted, missed>>
    BY <1>6 DEF Restart
  <2> QED BY <1>1, <1>2, <2>2, <2>4, <2>5, <2>6 DEF StatsTypeOK, BgType
<1> QED BY <1>1, <1>2, <1>3, <1>4, <1>5, <1>6, Steps

-----------------------------------------------------------------------------
(* The count, and what is evicted *)

CountInv == /\ StatsTypeOK /\ Sourced
            /\ Down /\ Locks /\ Surplus /\ TrackedKnown

\* A process that is down does nothing; one that goes down leaves nothing.
LEMMA DownStep ==
  ASSUME StatsTypeOK, Down, [Next]_vars
  PROVE  Down'
<1>1. ASSUME mode = "down", mode' = "down" PROVE Down'
  <2>1. /\ table = {} /\ holding = {} /\ bg = Idle /\ bg.at = "idle" /\ missed = 0
        /\ \A j \in Job : job[j].at = "idle"
    BY <1>1 DEF Down, Idle, NoJob
  <2>2. ~ (Counting \/ BgStep \/ Stop \/ Die \/ Restart \/ Converting)
    BY <1>1, <2>1 DEF Counting, RecordHit, RecordMiss, RecordInsert, BgStep, Tick, Collect,
                      Choose, Drop, Dropped, Check, Write, Prune, Clear, Reset,
                      LastSnapshot, Stop, Die, Restart, Up, Converting, Compressing,
                      CompressStep, CompressOpen, CompressCreate, CompressCopy,
                      CompressRemove, CompressFails
  <2>3. Midnight \/ UNCHANGED vars
    BY <2>2, Steps DEF Quiet, BgQuiet, BgStep
  <2> QED BY <1>1, <2>3 DEF Midnight, Down, fileVars, historyVars, statsVars, vars
<1>2. ASSUME mode # "down", mode' = "down" PROVE Down'
  <2>1. ~ (Quiet \/ Write \/ Prune \/ Converting \/ Restart \/ UNCHANGED vars)
    BY <1>2 DEF Quiet, Counting, RecordHit, RecordMiss, RecordInsert, BgQuiet, Tick,
                Collect, Choose, Drop, Dropped, Check, Clear, Reset, LastSnapshot, Midnight,
                Stop, Write, Prune, Converting, Compressing, Restart, statsVars, vars
  <2>2. Die
    BY <2>1, Steps
  <2> QED BY <2>2 DEF Die, Down
<1> QED BY <1>1, <1>2 DEF Down

\* A start starts from nothing but the files.
LEMMA RestartFrom ==
  ASSUME Down, Restart
  PROVE  /\ bg = Idle /\ bg' = Idle /\ holding' = {} /\ missed' = 0
         /\ table = {} /\ \A j \in Job : job[j] = NoJob
<1>1. mode = "down" /\ UNCHANGED <<holding, bg, missed>>
  BY Zenon DEF Restart
<1> QED BY <1>1 DEF Down

\* The rows and the goroutines that are about to add one.
LEMMA LocksStep ==
  ASSUME StatsTypeOK, Down, Locks, [Next]_vars
  PROVE  Locks'
<1>0. table \in SUBSET Line /\ holding \in SUBSET Line
  BY TypesApart
<1>1. ASSUME holding' \subseteq holding, table' \subseteq table PROVE Locks'
  BY <1>1 DEF Locks, Held
<1>2. ASSUME NEW p \in Line, RecordHit(p) PROVE Locks'
  <2>1. table' = table \cup {p} /\ holding' = holding /\ ClientOf[p] \in Held(table)
    BY <1>2 DEF RecordHit
  <2>2. Held(table') = Held(table)
    BY <2>1 DEF Held
  <2> QED BY <2>1, <2>2 DEF Locks
<1>3. ASSUME NEW p \in Line, RecordMiss(p) PROVE Locks'
  <2>1. /\ holding' \subseteq holding \cup {p} /\ table' = table
        /\ ClientOf[p] \notin Held(table) /\ \A q \in holding : ClientOf[q] # ClientOf[p]
    BY <1>3 DEF RecordMiss, Unlocked
  <2> QED BY <2>1 DEF Locks
<1>4. ASSUME NEW p \in Line, RecordInsert(p) PROVE Locks'
  <2>1. p \in holding /\ holding' = holding \ {p} /\ table' = table \cup {p}
    BY <1>4 DEF RecordInsert
  <2>2. Held(table') = Held(table) \cup {ClientOf[p]}
    BY <2>1 DEF Held
  <2> QED BY <2>1, <2>2 DEF Locks
<1>5. CASE BgStep \/ Midnight \/ Stop \/ Converting \/ Die \/ UNCHANGED vars
  <2>1. holding' \subseteq holding /\ table' \subseteq table
    BY <1>5 DEF BgStep, Tick, Collect, Choose, Drop, Dropped, Check, Write, Prune, Clear,
                Reset, LastSnapshot, Midnight, Stop, Converting, Compressing, Die,
                statsVars, vars
  <2> QED BY <1>1, <2>1
<1>6. CASE Restart
  <2>1. holding' = {}
    BY <1>6, RestartFrom
  <2> QED BY <2>1 DEF Locks
<1> QED BY <1>2, <1>3, <1>4, <1>5, <1>6, Steps DEF Quiet, Counting, BgQuiet, BgStep

\* While an eviction is under way the count only grows, but for what it evicts.
LEMMA SurplusStep ==
  ASSUME StatsTypeOK, Down, Surplus, [Next]_vars
  PROVE  Surplus'
<1>0. tracked \in Nat /\ bg \in BgType /\ table \in SUBSET Line
  BY TypesApart
<1>v. bg.victims \in SUBSET Client /\ bg.excess \in Nat /\ bg.copy \in SUBSET Line
  BY <1>0 DEF BgType
<1>1. ASSUME bg' = bg, tracked' \in Nat, tracked' >= tracked PROVE Surplus'
  BY <1>0, <1>1, <1>v, ClientsFinite DEF Surplus
<1>2. ASSUME bg'.at # "drop", bg'.at # "collect" \/ bg'.task # "evict" PROVE Surplus'
  BY <1>2 DEF Surplus
<1>3. CASE Counting \/ Midnight \/ Stop \/ Converting \/ UNCHANGED vars
  <2>1. bg' = bg /\ tracked' \in {tracked, tracked + 1}
    BY <1>3 DEF Counting, RecordHit, RecordMiss, RecordInsert, Midnight, Stop, Converting,
                Compressing, statsVars, vars
  <2> QED BY <1>0, <1>1, <2>1
<1>4. CASE Tick
  <2>1. CASE tracked > MaxIPs
    <3>1. bg'.at = "collect" /\ bg'.excess = tracked - MaxIPs /\ tracked' = tracked
      BY <1>0, <1>4, <2>1 DEF Tick, Collecting, BgType
    <3> QED BY <1>0, <3>1 DEF Surplus
  <2>2. CASE ~ (tracked > MaxIPs)
    <3>1. bg'.at = "check"
      BY <1>0, <1>4, <2>2 DEF Tick, BgType
    <3> QED BY <1>2, <3>1
  <2> QED BY <2>1, <2>2
<1>5. CASE Collect
  <2>1. /\ bg'.at = bg.at /\ bg'.task = bg.task /\ bg'.excess = bg.excess
        /\ tracked' = tracked /\ bg.at = "collect"
    BY <1>0, <1>5 DEF Collect, BgType
  <2> QED BY <2>1 DEF Surplus
<1>6. CASE Choose
  <2>1. PICK victims \in SUBSET Held(bg.copy) :
          /\ \/ Cardinality(victims) = bg.excess
             \/ Cardinality(victims) < bg.excess /\ victims = Held(bg.copy)
          /\ bg' = [Idle EXCEPT !.at = "drop", !.victims = victims, !.now = bg.now]
    BY <1>6 DEF Choose
  <2>2. victims \in SUBSET Client
    BY <1>v, HeldFinite
  <2>3. Cardinality(victims) \in Nat /\ Cardinality(victims) <= bg.excess
    BY <1>v, <2>1, <2>2, ClientsFinite
  <2>4. /\ bg'.at = "drop" /\ bg'.victims = victims /\ tracked' = tracked
        /\ tracked >= MaxIPs + bg.excess
    BY <1>6, <2>1 DEF Choose, Surplus, Idle
  <2>5. tracked >= MaxIPs + Cardinality(victims)
    BY <1>0, <1>v, <2>3, <2>4
  <2> QED BY <2>4, <2>5 DEF Surplus
<1>7. CASE Drop
  <2>1. PICK c \in bg.victims :
          /\ tracked' = IF c \in Held(table) THEN tracked - 1 ELSE tracked
          /\ bg' = [bg EXCEPT !.victims = @ \ {c}]
    BY <1>7 DEF Drop
  <2>2. bg'.at = "drop" /\ bg'.victims = bg.victims \ {c} /\ bg.at = "drop"
    BY <1>0, <1>7, <2>1 DEF BgType, Drop
  <2>3. /\ Cardinality(bg.victims \ {c}) = Cardinality(bg.victims) - 1
        /\ Cardinality(bg.victims) \in Nat
    BY <1>v, ClientsFinite, FS_RemoveElement
  <2>4. tracked >= MaxIPs + Cardinality(bg.victims)
    BY <2>2 DEF Surplus
  <2>5. tracked' >= MaxIPs + Cardinality(bg.victims \ {c})
    BY <1>0, <2>1, <2>3, <2>4
  <2> QED BY <2>2, <2>5 DEF Surplus
<1>8. CASE Dropped \/ Check \/ Write \/ Prune \/ Clear \/ Reset \/ LastSnapshot \/ Die
  <2>1. bg'.at # "drop" /\ (bg'.at # "collect" \/ bg'.task # "evict")
    <3>1. CASE Dropped \/ Prune \/ Clear
      BY <1>0, <3>1 DEF Dropped, Prune, Clear, BgType
    <3>2. CASE Check \/ LastSnapshot
      BY <1>0, <3>2, CollectingFields DEF Check, LastSnapshot, Idle, Tasks
    <3>3. CASE Write
      BY <3>3, WriteEnds
    <3>4. CASE Reset \/ Die
      BY <3>4 DEF Reset, Die, Idle
    <3> QED BY <1>8, <3>1, <3>2, <3>3, <3>4
  <2> QED BY <1>2, <2>1
<1>9. CASE Restart
  <2>1. bg' = Idle
    BY <1>9, RestartFrom
  <2> QED BY <1>2, <2>1 DEF Idle
<1> QED BY <1>3, <1>4, <1>5, <1>6, <1>7, <1>8, <1>9, Steps DEF Quiet, BgQuiet

\* The count follows the rows.
LEMMA TrackedStep ==
  ASSUME StatsTypeOK, Down, Locks, Surplus, TrackedKnown, [Next]_vars
  PROVE  TrackedKnown'
<1>0. /\ tracked \in Nat /\ missed \in Nat /\ bg \in BgType
      /\ table \in SUBSET Line /\ holding \in SUBSET Line
  BY TypesApart
<1>h. Cardinality(Held(table)) \in Nat
  BY <1>0, HeldFinite
<1>1. ASSUME UNCHANGED <<tracked, missed>>, Held(table') = Held(table),
             bg'.at \in {"clear", "reset"} \/ bg.at \notin {"clear", "reset"}
      PROVE  TrackedKnown'
  BY <1>1 DEF TrackedKnown, Rollover, Held
<1>2. ASSUME NEW p \in Line, RecordHit(p) PROVE TrackedKnown'
  <2>1. /\ table' = table \cup {p} /\ ClientOf[p] \in Held(table)
        /\ UNCHANGED <<tracked, missed, bg>>
    BY <1>2 DEF RecordHit
  <2>2. Held(table') = Held(table)
    BY <2>1 DEF Held
  <2> QED BY <1>1, <2>1, <2>2
<1>3. ASSUME NEW p \in Line, RecordInsert(p) PROVE TrackedKnown'
  <2>1. /\ p \in holding /\ table' = table \cup {p} /\ tracked' = tracked + 1
        /\ UNCHANGED <<missed, bg>>
    BY <1>3 DEF RecordInsert, historyVars
  <2>2. Cardinality(Held(table \cup {p})) = Cardinality(Held(table)) + 1
    BY <1>0, <2>1, HeldMore DEF Locks
  <2>3. tracked' + missed = Cardinality(Held(table \cup {p})) \/ Rollover
    BY <1>0, <1>h, <2>1, <2>2 DEF TrackedKnown
  <2> QED BY <2>1, <2>3 DEF TrackedKnown, Rollover, Held
<1>4. CASE Drop
  <2>1. PICK c \in bg.victims :
          /\ table' = table \ Rows(c, table)
          /\ tracked' = IF c \in Held(table) THEN tracked - 1 ELSE tracked
          /\ bg' = [bg EXCEPT !.victims = @ \ {c}]
    BY <1>4 DEF Drop
  <2>2. bg.at = "drop" /\ bg'.at = "drop" /\ missed' = missed
    BY <1>0, <1>4, <2>1 DEF Drop, BgType
  <2>3. CASE c \in Held(table)
    <3>1. Cardinality(Held(table \ Rows(c, table))) = Cardinality(Held(table)) - 1
      BY <1>0, <2>3, HeldLess
    <3>2. tracked' + missed = Cardinality(Held(table \ Rows(c, table)))
      BY <1>0, <1>h, <2>1, <2>2, <2>3, <3>1 DEF TrackedKnown, Rollover
    <3> QED BY <2>1, <2>2, <3>2 DEF TrackedKnown, Held
  <2>4. CASE c \notin Held(table)
    <3>1. Rows(c, table) = {}
      BY <2>4 DEF Rows, Held
    <3> QED BY <1>1, <2>1, <2>2, <2>4, <3>1
  <2> QED BY <2>3, <2>4
<1>5. CASE Clear
  <2>1. bg'.at \in {"clear", "reset"}
    BY <1>0, <1>5 DEF Clear, BgType
  <2> QED BY <2>1 DEF TrackedKnown, Rollover
<1>6. CASE Reset
  <2>1. tracked' = 0 /\ missed' = Cardinality(Held(table)) /\ table' = table
    BY <1>6 DEF Reset
  <2> QED BY <1>h, <2>1 DEF TrackedKnown, Held
<1>7. ASSUME \/ \E p \in Line : RecordMiss(p)
             \/ Tick \/ Collect \/ Choose \/ Dropped \/ Check \/ LastSnapshot \/ Write \/ Prune
             \/ Midnight \/ Stop \/ Converting \/ UNCHANGED vars
      PROVE  TrackedKnown'
  <2>1. UNCHANGED <<tracked, missed, table>>
    BY <1>7 DEF RecordMiss, Tick, Collect, Choose, Dropped, Check, LastSnapshot, Write,
                Prune, Midnight, Stop, Converting, Compressing, statsVars, historyVars, vars
  <2>2. bg' = bg \/ bg.at \notin {"clear", "reset"}
    BY <1>7 DEF RecordMiss, Tick, Collect, Choose, Dropped, Check, LastSnapshot, Write,
                Prune, Midnight, Stop, Converting, Compressing, statsVars, vars
  <2> QED BY <1>1, <2>1, <2>2
<1>8. CASE Die
  <2>1. table' = {} /\ tracked' = 0 /\ missed' = 0
    BY <1>8 DEF Die
  <2>2. Held({}) = {}
    BY DEF Held
  <2> QED BY <2>1, <2>2, FS_EmptySet DEF TrackedKnown, Held
<1>9. CASE Restart
  <2>1. missed' = 0
    BY <1>9, RestartFrom
  <2>2. tracked' = Cardinality(Held(table'))
    BY <1>9, Zenon DEF Restart
  <2>3. table' = Loaded \/ table' = {}
    BY <1>9, Zenon DEF Restart
  <2>4. Loaded \in SUBSET Line
    BY TypesApart DEF Loaded
  <2>5. Cardinality(Held(table')) \in Nat
    BY <2>3, <2>4, HeldFinite
  <2> QED BY <2>1, <2>2, <2>5 DEF TrackedKnown, Held
<1> QED BY <1>2, <1>3, <1>4, <1>5, <1>6, <1>7, <1>8, <1>9, Steps
        DEF Quiet, Counting, BgQuiet

\* The invariant holds at the start.
LEMMA CountInit == Init => CountInv
<1> SUFFICES ASSUME Init PROVE CountInv
  OBVIOUS
<1>1. /\ plain = [d \in Day |-> None] /\ data = [i \in Inode |-> {}]
      /\ gz = [d \in Day |-> NoGz] /\ job = [j \in Job |-> NoJob]
      /\ today = 1 /\ mode = "run" /\ day = 1 /\ table = {} /\ tracked = 0
      /\ holding = {} /\ bg = Idle /\ sent = {} /\ saved = [d \in Day |-> {}]
      /\ evicted = {} /\ missed = 0 /\ unread = FALSE
  BY DEF Init, FilesInit
<1>2. 1 \in Day
  BY DEF Day
<1>3. FilesTypeOK /\ Sourced
  BY <1>1, <1>2 DEF FilesTypeOK, Sourced, NoGz, NoJob, JobStep
<1>4. StatsTypeOK
  BY <1>1, <1>2, <1>3, IdleType DEF StatsTypeOK, BgType
<1>5. Held({}) = {}
  BY DEF Held
<1> QED BY <1>1, <1>3, <1>4, <1>5, FS_EmptySet
        DEF CountInv, Down, Locks, Surplus, TrackedKnown, Idle

\* Every reachable state has it.
THEOREM CountInvariance == Spec => []CountInv
<1>1. CountInv /\ [Next]_vars => CountInv'
  BY TypeStep, DownStep, LocksStep, SurplusStep, TrackedStep DEF CountInv
<1> QED BY <1>1, CountInit, PTL DEF Spec

\* Every reachable state is well typed.
THEOREM StatsTypeCorrect == Spec => []StatsTypeOK
<1>1. CountInv => StatsTypeOK
  BY DEF CountInv
<1> QED BY <1>1, CountInvariance, PTL

\* Outside a rollover the count of the clients is exact, but for those that the
\* last rollover missed, whatever the data path and the evictions do.
THEOREM TrackedKnownCorrect == Spec => []TrackedKnown
<1>1. CountInv => TrackedKnown
  BY DEF CountInv
<1> QED BY <1>1, CountInvariance, PTL

\* An eviction leaves max_ips clients, on however old a list it works.
THEOREM EvictsOnlyExcessCorrect == Spec => []EvictsOnlyExcess
<1>1. CountInv => EvictsOnlyExcess
  <2> SUFFICES ASSUME CountInv, bg.at = "drop"
               PROVE  Cardinality(Held(table) \ bg.victims) >= MaxIPs
    BY DEF EvictsOnlyExcess
  <2>1. /\ bg.victims \in SUBSET Client /\ table \in SUBSET Line
        /\ tracked \in Nat /\ missed \in Nat
    BY TypesApart DEF CountInv, BgType
  <2>2. tracked >= MaxIPs + Cardinality(bg.victims)
    BY DEF CountInv, Surplus
  <2>3. tracked + missed = Cardinality(Held(table))
    BY DEF CountInv, TrackedKnown, Rollover
  <2> DEFINE H == Held(table)  V == bg.victims
  <2>4. H \in SUBSET Client /\ V \in SUBSET Client
    BY <2>1, HeldFinite
  <2> HIDE DEF H, V
  <2>5. /\ IsFiniteSet(H) /\ IsFiniteSet(V) /\ Cardinality(H) \in Nat /\ Cardinality(V) \in Nat
        /\ H \cap V \in SUBSET V
    BY <2>4, ClientsFinite
  <2>6. Cardinality(H \cap V) \in Nat /\ Cardinality(H \cap V) <= Cardinality(V)
    BY <2>5, FS_Subset, FS_CardinalityType
  <2>7. Cardinality(H \ V) = Cardinality(H) - Cardinality(H \cap V)
    BY <2>5, FS_Difference
  <2>8. tracked >= MaxIPs + Cardinality(V) /\ tracked + missed = Cardinality(H)
    BY <2>2, <2>3 DEF H, V
  <2>9. Cardinality(H \ V) >= MaxIPs
    BY <2>1, <2>5, <2>6, <2>7, <2>8
  <2> QED BY <2>9 DEF H, V
<1> QED BY <1>1, CountInvariance, PTL

-----------------------------------------------------------------------------
(* A packet is counted in one day *)

\* The packets in the files of day d: those that its names stand for, and those
\* its goroutines of Compress have open.
Reach(d) ==
  {p \in Line : \/ plain[d] # None /\ p \in data[plain[d]]
                \/ p \in gz[d].lines
                \/ \E j \in Job : /\ job[j].day = d /\ job[j].file # None
                                  /\ p \in data[job[j].file]}

\* What is counted for one day is not counted for another; a packet that has yet
\* to be counted is counted nowhere.
Apart ==
  /\ \A d, e \in Day : d # e => Reach(d) \cap Reach(e) = {}
  /\ \A d \in Day : d # day => Reach(d) \cap (table \cup bg.copy) = {}
  /\ \A d \in Day : Reach(d) \cap holding = {}
  /\ holding \cap bg.copy = {}

\* Only packets that came are counted.
Known ==
  /\ table \subseteq sent /\ bg.copy \subseteq sent /\ holding \subseteq sent
  /\ \A d \in Day : Reach(d) \subseteq sent

\* What the rollover has cleared is not in the files of the day it closes.
Cleared ==
  /\ bg.at = "prune" => bg.i = 1
  /\ bg.at = "clear" => \A c \in Client : c < bg.i => Rows(c, table) \cap Reach(day) = {}
  /\ bg.at = "reset" => table \cap Reach(day) = {}

ApartInv == Apart /\ Known /\ Cleared

\* Steps that leave the files alone.
LEMMA ReachSame ==
  ASSUME UNCHANGED fileVars
  PROVE  \A d \in Day : Reach(d)' = Reach(d)
BY DEF fileVars, Reach

\* Compress moves a day's packets among the day's files.
LEMMA ReachConverting ==
  ASSUME StatsTypeOK, Sourced, Converting
  PROVE  \A d \in Day : Reach(d)' \subseteq Reach(d)
<1>0. /\ plain \in [Day -> Inode \cup {None}] /\ data \in [Inode -> SUBSET Line]
      /\ gz \in [Day -> GzType] /\ job \in [Job -> JobType]
  BY TypesApart
<1>1. PICK j \in Job : CompressStep(j) \/ CompressFails(j)
  BY DEF Converting, Compressing
<1>d. job[j].day \in Day
  BY <1>0 DEF JobType
<1>q. ASSUME Quit(j) PROVE \A k \in Job : job'[k].file = None \/ job'[k] = job[k]
  BY <1>0, <1>q DEF Quit, NoJob
<1>s. ASSUME NEW next, Step(j, next)
      PROVE  \A k \in Job : job'[k].file = job[k].file /\ job'[k].day = job[k].day
  BY <1>0, <1>s DEF Step, JobType
<1>2. CASE CompressFails(j) \/ CompressRemove(j)
  <2>1. /\ UNCHANGED <<data, gz>> /\ Quit(j)
        /\ \A d \in Day : plain'[d] = None \/ plain'[d] = plain[d]
    BY <1>0, <1>2 DEF CompressFails, CompressRemove
  <2> QED BY <1>q, <2>1 DEF Reach
<1>3. CASE CompressOpen(j)
  <2>1. UNCHANGED <<plain, data, gz>>
    BY <1>3 DEF CompressOpen
  <2>2. CASE plain[job[j].day] = None
    BY <1>3, <1>q, <2>1, <2>2 DEF CompressOpen, Reach
  <2>3. CASE plain[job[j].day] # None
    <3>1. /\ job'[j].day = job[j].day /\ job'[j].file = plain[job[j].day]
          /\ \A k \in Job \ {j} : job'[k] = job[k]
      BY <1>0, <1>3, <2>3 DEF CompressOpen, JobType
    <3> QED BY <2>1, <3>1 DEF Reach
  <2> QED BY <2>2, <2>3
<1>4. CASE CompressCreate(j)
  <2>1. /\ UNCHANGED <<plain, data>> /\ Step(j, "copy")
        /\ \A d \in Day : gz'[d] = gz[d] \/ gz'[d].lines = {}
    BY <1>0, <1>4 DEF CompressCreate, NoGz
  <2> QED BY <1>s, <2>1 DEF Reach
<1>5. CASE CompressCopy(j)
  <2>1. UNCHANGED <<plain, data>> /\ Step(j, "remove") /\ job[j].file # None
    BY <1>5 DEF CompressCopy, Sourced
  <2>2. \A d \in Day : \/ gz'[d].lines = gz[d].lines
                       \/ d = job[j].day /\ gz'[d].lines = data[job[j].file]
    <3>1. PICK whole \in BOOLEAN :
            gz' = IF gz[job[j].day].made
                    THEN [gz EXCEPT ![job[j].day].whole = whole,
                                    ![job[j].day].lines = data[job[j].file]]
                    ELSE gz
      BY <1>5, Zenon DEF CompressCopy
    <3> QED BY <1>0, <1>d, <3>1 DEF GzType
  <2> QED BY <1>s, <2>1, <2>2 DEF Reach
<1> QED BY <1>1, <1>2, <1>3, <1>4, <1>5 DEF CompressStep

\* Prune, alone or in New, and the goroutines launched, add nothing.
LEMMA ReachPruned ==
  ASSUME StatsTypeOK, Prune \/ Restart
  PROVE  \A d \in Day : Reach(d)' \subseteq Reach(d)
<1>0. job \in [Job -> JobType] /\ data' = data
  BY TypesApart DEF Prune, Restart
<1>1. \A k \in Job : job'[k].file = None \/ job'[k] = job[k]
  <2>1. CASE Prune
    BY <2>1 DEF Prune
  <2>2. CASE Restart
    <3>1. StaleDays(today) \in SUBSET Day /\ job' = Launched(StaleDays(today))
      BY <2>2 DEF Restart, StaleDays
    <3> HIDE DEF StaleDays
    <3> QED BY <1>0, <3>1, Launches
  <2> QED BY <2>1, <2>2
<1>2. \A d \in Day : /\ plain'[d] = None \/ plain'[d] = plain[d]
                     /\ gz'[d].lines = {} \/ gz'[d] = gz[d]
  BY DEF Prune, Restart, Pruned, PrunedGz, NoGz
<1> QED BY <1>0, <1>1, <1>2 DEF Reach

\* The end of a process adds nothing.
LEMMA ReachDie ==
  ASSUME Die
  PROVE  \A d \in Day : Reach(d)' \subseteq Reach(d)
BY DEF Die, NoJob, Reach

\* A snapshot adds the copy to its day.
LEMMA ReachWrite ==
  ASSUME StatsTypeOK, Write
  PROVE  \A d \in Day : \A p \in Reach(d)' : p \in Reach(d) \/ (d = day /\ p \in bg.copy)
<1>0. /\ plain \in [Day -> Inode \cup {None}] /\ data \in [Inode -> SUBSET Line]
      /\ job \in [Job -> JobType] /\ day \in Day
  BY TypesApart
<1>1. gz' = gz /\ Written
  BY DEF Write
<1>2. \A k \in Job : job'[k].file = None \/ job'[k] = job[k]
  <2>1. CASE job' = Launched({day})
    <3>1. {day} \in SUBSET Day
      BY <1>0
    <3> QED BY <1>0, <2>1, <3>1, Launches
  <2> QED BY <2>1, WriteEnds
<1>3. CASE UNCHANGED <<plain, data, saved>>
  BY <1>1, <1>2, <1>3 DEF Reach
<1>4. ASSUME NEW f \in FreeInodes, data' = [data EXCEPT ![f] = bg.copy],
             plain' = [plain EXCEPT ![day] = f]
      PROVE  \A d \in Day : \A p \in Reach(d)' : p \in Reach(d) \/ (d = day /\ p \in bg.copy)
  <2>1. /\ \A d \in Day : plain[d] # f
        /\ \A k \in Job : job[k].file # f
    BY DEF FreeInodes, InUse
  <2>2. /\ \A d \in Day \ {day} : plain'[d] = plain[d]
        /\ plain'[day] = f /\ f \in Inode /\ data'[f] = bg.copy
        /\ \A i \in Inode \ {f} : data'[i] = data[i]
    BY <1>0, <1>4 DEF FreeInodes
  <2>3. /\ \A d \in Day : plain[d] # None => plain[d] \in Inode
        /\ \A k \in Job : job[k].file # None => job[k].file \in Inode
    BY <1>0 DEF JobType
  <2>4. ASSUME NEW d \in Day, NEW p \in Reach(d)'
        PROVE  p \in Reach(d) \/ (d = day /\ p \in bg.copy)
    <3>1. CASE plain'[d] # None /\ p \in data'[plain'[d]]
      BY <2>1, <2>2, <2>3, <2>4, <3>1 DEF Reach
    <3>2. CASE p \in gz'[d].lines
      BY <1>1, <2>4, <3>2 DEF Reach
    <3>3. ASSUME NEW j \in Job, job'[j].day = d, job'[j].file # None, p \in data'[job'[j].file]
          PROVE  p \in Reach(d)
      BY <1>2, <2>1, <2>2, <2>3, <2>4, <3>3 DEF Reach
    <3> QED BY <2>4, <3>1, <3>2, <3>3 DEF Reach
  <2> QED BY <2>4
<1> QED BY <1>1, <1>3, <1>4, WrittenCases

\* Steps that count nothing more.
LEMMA ApartStays ==
  ASSUME StatsTypeOK, ApartInv, UNCHANGED <<day, sent>>,
         \A d \in Day : Reach(d)' \subseteq Reach(d),
         table' \subseteq table, holding' \subseteq holding, bg'.copy \subseteq bg.copy,
         bg' = bg \/ bg'.at \notin {"prune", "clear", "reset"}
  PROVE  ApartInv'
<1>1. Apart'
  BY DEF ApartInv, Apart
<1>2. Known'
  BY DEF ApartInv, Known
<1>3. Cleared'
  <2>1. CASE bg' = bg
    <3>1. day \in Day
      BY TypesApart
    <3> QED BY <2>1, <3>1 DEF ApartInv, Cleared, Rows, Reach
  <2>2. CASE bg'.at \notin {"prune", "clear", "reset"}
    BY <2>2 DEF Cleared
  <2> QED BY <2>1, <2>2
<1> QED BY <1>1, <1>2, <1>3 DEF ApartInv

\* A packet that comes is in no file, and goes into the table of the day.
LEMMA ApartCounting ==
  ASSUME StatsTypeOK, Locks, ApartInv, Counting
  PROVE  ApartInv'
<1> USE DEF ApartInv, Apart, Known, Cleared
<1>0. /\ UNCHANGED <<fileVars, day, bg>> /\ day \in Day
      /\ table \in SUBSET Line /\ holding \in SUBSET Line
  BY TypesApart DEF Counting, RecordHit, RecordMiss, RecordInsert
<1>1. \A d \in Day : Reach(d)' = Reach(d)
  BY <1>0, ReachSame
<1>2. PICK p \in Line : RecordHit(p) \/ RecordMiss(p) \/ RecordInsert(p)
  BY DEF Counting
<1>3. Reach(day)' = Reach(day)
  BY <1>0 DEF fileVars, Reach
<1>4. CASE RecordHit(p)
  <2>1. /\ table' = table \cup {p} /\ holding' = holding
        /\ sent' = sent \cup {p} /\ p \notin sent
    BY <1>4 DEF RecordHit
  <2>2. /\ \A d \in Day : p \notin Reach(d)
        /\ \A c \in Client : Rows(c, table') \subseteq Rows(c, table) \cup {p}
    BY <2>1 DEF Rows
  <2> QED BY <1>0, <1>1, <1>3, <2>1, <2>2 DEF Rows
<1>5. CASE RecordMiss(p)
  <2>1. /\ table' = table /\ holding' \subseteq holding \cup {p}
        /\ sent' = sent \cup {p} /\ p \notin sent
    BY <1>5 DEF RecordMiss
  <2> QED BY <1>0, <1>1, <1>3, <2>1 DEF Rows
<1>6. CASE RecordInsert(p)
  <2>1. /\ p \in holding /\ table' = table \cup {p} /\ holding' = holding \ {p}
        /\ sent' = sent
    BY <1>6 DEF RecordInsert, historyVars
  <2>2. \A d \in Day : p \notin Reach(d)
    BY <2>1
  <2> QED BY <1>0, <1>1, <1>3, <2>1, <2>2 DEF Rows
<1> QED BY <1>2, <1>4, <1>5, <1>6

\* The background goroutine: what it copies is the day's, the file it writes the
\* copy to is the day's, and the rollover changes the day once every row that is
\* in the file is gone.
LEMMA ApartBackground ==
  ASSUME StatsTypeOK, Sourced, Locks, ApartInv, BgStep
  PROVE  ApartInv'
<1>0. /\ day \in Day /\ bg \in BgType /\ table \in SUBSET Line /\ holding \in SUBSET Line
      /\ bg.copy \in SUBSET Line /\ bg.now \in Day
  BY TypesApart DEF BgType
<1>1. CASE Tick \/ Choose \/ Drop \/ Dropped \/ Check \/ LastSnapshot
  <2>1. /\ UNCHANGED <<fileVars, day, holding, sent>> /\ table' \subseteq table
    BY <1>1 DEF Tick, Choose, Drop, Dropped, Check, LastSnapshot, historyVars
  <2>2. bg'.copy \subseteq bg.copy /\ bg'.at \notin {"prune", "clear", "reset"}
    <3>1. CASE Tick
      <4>1. CASE tracked > MaxIPs
        BY <1>0, <3>1, <4>1 DEF Tick, Collecting, BgType
      <4>2. CASE ~ (tracked > MaxIPs)
        BY <1>0, <3>1, <4>2 DEF Tick, BgType
      <4> QED BY <4>1, <4>2
    <3>2. CASE Choose
      BY <3>2 DEF Choose, Idle
    <3>3. CASE Drop \/ Dropped
      BY <1>0, <3>3 DEF Drop, Dropped, BgType
    <3>4. CASE Check \/ LastSnapshot
      BY <1>0, <3>4, CollectingFields DEF Check, LastSnapshot, Idle, Tasks
    <3> QED BY <1>1, <3>1, <3>2, <3>3, <3>4
  <2>3. \A d \in Day : Reach(d)' \subseteq Reach(d)
    BY <2>1, ReachSame
  <2> QED BY <2>1, <2>2, <2>3, ApartStays
<1> USE DEF ApartInv, Apart, Known, Cleared
<1>2. CASE Collect
  <2>1. /\ UNCHANGED <<fileVars, day, holding, sent, table>>
        /\ bg'.at = bg.at /\ bg'.at = "collect"
        /\ bg'.copy = bg.copy \cup Rows(bg.i, table)
    BY <1>0, <1>2 DEF Collect, BgType, historyVars
  <2>2. Rows(bg.i, table) \subseteq table /\ holding \cap table = {}
    BY DEF Rows, Locks, Held
  <2>3. \A d \in Day : Reach(d)' = Reach(d)
    BY <2>1, ReachSame
  <2> QED BY <2>1, <2>2, <2>3
<1>3. CASE Write
  <2>1. /\ UNCHANGED <<day, holding, sent, table>> /\ bg'.copy = {}
        /\ bg'.at \in {"idle", "prune"} /\ bg'.i = 1
    <3>1. UNCHANGED <<day, holding, sent, table>>
      BY <1>3 DEF Write
    <3> QED BY <1>3, <3>1, WriteEnds
  <2>2. \A d \in Day : \A p \in Reach(d)' : p \in Reach(d) \/ (d = day /\ p \in bg.copy)
    BY <1>3, ReachWrite
  <2> QED BY <2>1, <2>2
<1>4. CASE Prune
  <2>1. /\ UNCHANGED <<day, holding, sent, table>> /\ bg'.copy = bg.copy
        /\ bg'.at = "clear" /\ bg'.i = 1
    BY <1>0, <1>4 DEF Prune, BgType, historyVars
  <2>2. \A d \in Day : Reach(d)' \subseteq Reach(d)
    BY <1>4, ReachPruned
  <2>3. \A c \in Client : ~ (c < bg'.i)
    BY <2>1 DEF Client
  <2> QED BY <2>1, <2>2, <2>3
<1>5. CASE Clear
  <2>1. /\ UNCHANGED <<fileVars, day, holding, sent>> /\ table' = table \ Rows(bg.i, table)
        /\ bg'.copy = bg.copy /\ bg'.i = bg.i + 1 /\ bg.i \in Client /\ bg.at = "clear"
        /\ bg'.at = IF bg.i = Clients THEN "reset" ELSE "clear"
    BY <1>0, <1>5 DEF Clear, BgType, historyVars
  <2>2. \A d \in Day : Reach(d)' = Reach(d)
    BY <2>1, ReachSame
  <2>3. Reach(day)' = Reach(day)
    BY <2>1 DEF fileVars, Reach
  <2>4. ASSUME NEW c \in Client, c < bg.i + 1 PROVE Rows(c, table') \cap Reach(day) = {}
    <3>1. c < bg.i \/ c = bg.i
      BY <2>1, <2>4 DEF Client
    <3>2. Rows(c, table') \subseteq Rows(c, table) /\ Rows(bg.i, table') = {}
      BY <2>1 DEF Rows
    <3> QED BY <2>1, <3>1, <3>2
  <2>5. bg.i = Clients => table' \cap Reach(day) = {}
    <3> SUFFICES ASSUME bg.i = Clients, NEW p \in table' PROVE p \notin Reach(day)
      OBVIOUS
    <3>1. ClientOf[p] \in Client /\ ClientOf[p] < bg.i + 1 /\ p \in Rows(ClientOf[p], table')
      BY <1>0, <2>1 DEF Client, Rows
    <3> QED BY <2>4, <3>1
  <2>6. Apart' /\ Known'
    BY <2>1, <2>2
  <2>7. Cleared'
    <3>1. CASE bg.i = Clients
      <4>1. bg'.at = "reset"
        BY <2>1, <3>1
      <4> QED BY <2>3, <2>5, <3>1, <4>1
    <3>2. CASE bg.i # Clients
      <4>1. bg'.at = "clear"
        BY <2>1, <3>2
      <4>2. ASSUME NEW c \in Client, c < bg'.i PROVE Rows(c, table)' \cap Reach(day)' = {}
        BY <2>1, <2>3, <2>4, <4>2 DEF Rows
      <4> QED BY <4>1, <4>2
    <3> QED BY <3>1, <3>2
  <2> QED BY <2>6, <2>7
<1>6. CASE Reset
  <2>1. /\ UNCHANGED <<fileVars, holding, sent, table>> /\ bg.at = "reset"
        /\ bg'.copy = {} /\ bg'.at = "idle"
    BY <1>6 DEF Reset, Idle
  <2>2. \A d \in Day : Reach(d)' = Reach(d) /\ Reach(d) \cap table = {}
    BY <2>1, ReachSame
  <2> QED BY <2>1, <2>2
<1> QED BY <1>1, <1>2, <1>3, <1>4, <1>5, <1>6 DEF BgStep

\* The process and its surroundings: a start reads the file of its day.
LEMMA ApartWorld ==
  ASSUME StatsTypeOK, Sourced, Down, ApartInv,
         Midnight \/ Stop \/ Converting \/ Die \/ Restart \/ UNCHANGED vars
  PROVE  ApartInv'
<1>1. CASE Midnight \/ Stop \/ Converting \/ UNCHANGED vars
  <2>1. UNCHANGED <<day, sent, table, holding, bg>>
    BY <1>1 DEF Midnight, Stop, Converting, Compressing, statsVars, historyVars, vars
  <2>2. \A d \in Day : Reach(d)' \subseteq Reach(d)
    <3>1. CASE Converting
      BY <3>1, ReachConverting
    <3>2. CASE Midnight \/ Stop \/ UNCHANGED vars
      BY <3>2, ReachSame DEF Midnight, Stop, vars
    <3> QED BY <1>1, <3>1, <3>2
  <2> QED BY <2>1, <2>2, ApartStays
<1>2. CASE Die
  <2>1. /\ UNCHANGED <<day, sent>> /\ table' = {} /\ holding' = {}
        /\ bg'.copy = {} /\ bg'.at = "idle"
    BY <1>2 DEF Die, Idle
  <2>2. \A d \in Day : Reach(d)' \subseteq Reach(d)
    BY <1>2, ReachDie
  <2> QED BY <2>1, <2>2, ApartStays
<1>3. CASE Restart
  <2>1. /\ holding' = {} /\ bg'.copy = {} /\ bg'.at = "idle"
    BY <1>3, RestartFrom DEF Idle
  <2>2. table' = Loaded \/ table' = {}
    BY <1>3, Zenon DEF Restart
  <2>3. day' = today /\ sent' = sent /\ today \in Day
    BY <1>3, TypesApart DEF Restart
  <2>4. table' \subseteq Reach(today)
    <3>1. data \in [Inode -> SUBSET Line] /\ plain \in [Day -> Inode \cup {None}]
      BY TypesApart
    <3> QED BY <2>2, <2>3, <3>1 DEF Loaded, Reach
  <2>5. \A d \in Day : Reach(d)' \subseteq Reach(d)
    BY <1>3, ReachPruned
  <2> QED BY <2>1, <2>3, <2>4, <2>5 DEF ApartInv, Apart, Known, Cleared
<1> QED BY <1>1, <1>2, <1>3

\* Every reachable state has it.
THEOREM ApartInvariance == Spec => []ApartInv
<1>1. Init => ApartInv
  <2> SUFFICES ASSUME Init PROVE ApartInv
    OBVIOUS
  <2>1. /\ plain = [d \in Day |-> None] /\ gz = [d \in Day |-> NoGz]
        /\ job = [j \in Job |-> NoJob] /\ table = {} /\ holding = {} /\ bg = Idle
    BY DEF Init, FilesInit
  <2>2. \A d \in Day : Reach(d) = {}
    BY <2>1 DEF Reach, NoGz, NoJob
  <2> QED BY <2>1, <2>2 DEF ApartInv, Apart, Known, Cleared, Idle
<1>2. CountInv /\ ApartInv /\ [Next]_vars => ApartInv'
  <2> SUFFICES ASSUME CountInv, ApartInv, [Next]_vars PROVE ApartInv'
    OBVIOUS
  <2>1. StatsTypeOK /\ Sourced /\ Down /\ Locks
    BY DEF CountInv
  <2>2. \/ Counting \/ BgStep
        \/ (Midnight \/ Stop \/ Converting \/ Die \/ Restart \/ UNCHANGED vars)
    BY Steps DEF Quiet, BgQuiet, BgStep
  <2> QED BY <2>1, <2>2, ApartCounting, ApartBackground, ApartWorld
<1> QED BY <1>1, <1>2, CountInvariance, PTL DEF Spec

\* "Counters are per-day": no packet is counted in the files of two days, nor in
\* a file of one day and the table of another.
THEOREM CountedOnceCorrect == Spec => []CountedOnce
<1>1. CountInv /\ ApartInv => CountedOnce
  <2> SUFFICES ASSUME CountInv, ApartInv PROVE CountedOnce
    OBVIOUS
  <2>1. \A d \in Day : LinesOf(d) \subseteq Reach(d)
    <3>1. /\ plain \in [Day -> Inode \cup {None}] /\ data \in [Inode -> SUBSET Line]
          /\ gz \in [Day -> GzType]
      BY TypesApart DEF CountInv
    <3> QED BY <3>1 DEF LinesOf, Reach, GzType
  <2> QED BY <2>1 DEF CountedOnce, ApartInv, Apart
<1> QED BY <1>1, CountInvariance, ApartInvariance, PTL

-----------------------------------------------------------------------------
(* Days *)

RollingOver == bg.at \in {"prune", "clear", "reset"}

\* The table's day is not past today, and a rollover goes forward.
Clock ==
  /\ day <= today /\ bg.now <= today
  /\ bg.at \in {"drop", "check"} \/ bg.task = "evict" => day <= bg.now
  /\ bg.task = "final" => day < bg.now
  /\ RollingOver => bg.task = "final"
  /\ bg.at = "idle" => bg = Idle

\* No file is of a day to come; a day is compressed once it is over, and by one
\* goroutine of Compress.
Dated ==
  /\ \A d \in Day : /\ plain[d] # None => d <= day
                    /\ gz[d].made => d < today
                    /\ gz[d].whole => gz[d].made
                    /\ saved[d] # {} => d <= day
  /\ \A j \in Job : job[j].at # "idle" =>
       /\ job[j].day < today
       /\ job[j].day < day \/ (job[j].day = day /\ RollingOver)
       /\ \A k \in Job : job[k].at # "idle" /\ job[k].day = job[j].day => k = j

\* Every step keeps the clock.
LEMMA ClockStep ==
  ASSUME StatsTypeOK, Down, Clock, [Next]_vars
  PROVE  Clock'
<1> USE DEF Clock, RollingOver
<1>0. /\ bg \in BgType /\ day \in Nat /\ today \in Nat /\ bg.now \in Nat
      /\ today >= 1 /\ day >= 1
  BY TypesApart DEF BgType, Day
<1>i. Idle.at = "idle" /\ Idle.task = "none" /\ Idle.now = 1
  BY DEF Idle
<1>1. CASE Counting \/ Stop \/ Converting \/ UNCHANGED vars
  <2>1. UNCHANGED <<day, today, bg>>
    BY <1>1 DEF Counting, RecordHit, RecordMiss, RecordInsert, Stop, Converting, Compressing,
                statsVars, vars
  <2> QED BY <2>1
<1>2. CASE Midnight
  BY <1>0, <1>2 DEF Midnight
<1>3. CASE Tick
  <2>1. UNCHANGED <<day, today>> /\ bg = Idle
    BY <1>3 DEF Tick
  <2>2. CASE tracked > MaxIPs
    <3>1. bg'.at = "collect" /\ bg'.task = "evict" /\ bg'.now = today
      BY <1>0, <1>3, <2>2 DEF Tick, Collecting, BgType
    <3> QED BY <1>0, <2>1, <3>1
  <2>3. CASE ~ (tracked > MaxIPs)
    <3>1. bg'.at = "check" /\ bg'.task = bg.task /\ bg'.now = today
      BY <1>0, <1>3, <2>3 DEF Tick, BgType
    <3> QED BY <1>0, <1>i, <2>1, <3>1
  <2> QED BY <2>2, <2>3
<1>4. CASE Collect \/ Drop
  <2>1. /\ UNCHANGED <<day, today>> /\ bg'.at = bg.at /\ bg.at # "idle"
        /\ bg'.task = bg.task /\ bg'.now = bg.now
    BY <1>0, <1>4 DEF Collect, Drop, BgType
  <2> QED BY <2>1
<1>5. CASE Choose
  <2>1. /\ UNCHANGED <<day, today>> /\ bg.task = "evict"
        /\ bg'.at = "drop" /\ bg'.task = "none" /\ bg'.now = bg.now
    BY <1>5 DEF Choose, Idle
  <2> QED BY <2>1
<1>6. CASE Dropped
  <2>1. /\ UNCHANGED <<day, today>> /\ bg.at = "drop"
        /\ bg'.at = "check" /\ bg'.task = bg.task /\ bg'.now = bg.now
    BY <1>0, <1>6 DEF Dropped, BgType
  <2> QED BY <2>1
<1>7. CASE Check
  <2>1. UNCHANGED <<day, today>> /\ day <= bg.now
    BY <1>7 DEF Check
  <2>2. \/ /\ bg'.at = "collect" /\ bg'.task = "final" /\ bg'.now = bg.now /\ bg.now # day
        \/ /\ bg'.at = "collect" /\ bg'.task = "tick" /\ bg'.now = bg.now
        \/ bg' = Idle
    BY <1>0, <1>7, CollectingFields DEF Check, Tasks
  <2> QED BY <1>0, <1>i, <2>1, <2>2
<1>8. CASE Write
  <2>1. UNCHANGED <<day, today>>
    BY <1>8 DEF Write
  <2> QED BY <1>0, <1>8, <1>i, <2>1, WriteEnds
<1>9. CASE Prune \/ Clear
  <2>1. /\ UNCHANGED <<day, today>> /\ bg'.task = bg.task /\ bg'.now = bg.now
        /\ RollingOver /\ bg'.at \in {"clear", "reset"}
    BY <1>0, <1>9 DEF Prune, Clear, BgType
  <2> QED BY <2>1
<1>10. CASE Reset
  <2>1. today' = today /\ day' = bg.now /\ bg' = Idle
    BY <1>10 DEF Reset
  <2> QED BY <1>0, <1>i, <2>1
<1>11. CASE LastSnapshot
  <2>1. /\ UNCHANGED <<day, today>> /\ bg'.at = "collect" /\ bg'.task = "stop"
        /\ bg'.now = bg.now
    BY <1>0, <1>11, CollectingFields DEF LastSnapshot, Tasks
  <2> QED BY <2>1
<1>12. CASE Die
  <2>1. UNCHANGED <<day, today>> /\ bg' = Idle
    BY <1>12 DEF Die
  <2> QED BY <1>0, <1>i, <2>1
<1>13. CASE Restart
  <2>1. today' = today /\ day' = today /\ bg' = Idle
    BY <1>13, RestartFrom DEF Restart
  <2> QED BY <1>0, <1>i, <2>1
<1> QED BY <1>1, <1>2, <1>3, <1>4, <1>5, <1>6, <1>7, <1>8, <1>9, <1>10, <1>11, <1>12,
           <1>13, Steps DEF Quiet, BgQuiet

\* The goroutines of Compress touch files only, and those of their days.
LEMMA ConvertingFrame ==
  ASSUME StatsTypeOK, Converting
  PROVE  /\ UNCHANGED <<statsVars, historyVars, data>>
         /\ \A d \in Day : plain'[d] \in {plain[d], None}
         /\ \A k \in Job : job'[k].at # "idle" =>
              job[k].at # "idle" /\ job'[k].day = job[k].day
         /\ \A d \in Day :
              \/ gz'[d] = gz[d]
              \/ /\ \E k \in Job : job[k].at # "idle" /\ job[k].day = d
                 /\ gz'[d].made /\ (gz'[d].whole => gz[d].made)
<1>1. PICK j \in Job : Compressing(j)
  BY DEF Converting
<1>2. UNCHANGED <<statsVars, historyVars>> /\ (CompressStep(j) \/ CompressFails(j))
  BY <1>1 DEF Compressing
<1> QED BY <1>2, CompressFrame DEF StatsTypeOK

\* Steps that leave no file, snapshot or goroutine of Compress of another day, and
\* turn the day forward if at all.
LEMMA DatedStays ==
  ASSUME StatsTypeOK, Clock, Dated,
         today' \in Day, today' >= today,
         day' \in Day, (day' = day /\ (RollingOver => RollingOver')) \/ day' > day,
         saved' = saved,
         \A d \in Day : /\ plain'[d] \in {plain[d], None}
                        /\ gz'[d].made => gz[d].made \/ d < today
                        /\ gz'[d].whole => gz'[d].made,
         \A k \in Job : job'[k].at # "idle" => job[k].at # "idle" /\ job'[k].day = job[k].day
  PROVE  Dated'
<1>0. /\ day \in Nat /\ today \in Nat /\ day' \in Nat /\ today' \in Nat /\ Day \subseteq Nat
      /\ job \in [Job -> JobType] /\ day' >= day
  BY TypesApart DEF Day
<1>1. ASSUME NEW d \in Day
      PROVE  /\ plain'[d] # None => d <= day'
             /\ gz'[d].made => d < today'
             /\ gz'[d].whole => gz'[d].made
             /\ saved'[d] # {} => d <= day'
  BY <1>0 DEF Dated
<1>2. ASSUME NEW j \in Job, job'[j].at # "idle"
      PROVE  /\ job'[j].day < today'
             /\ job'[j].day < day' \/ (job'[j].day = day' /\ RollingOver')
             /\ \A k \in Job : job'[k].at # "idle" /\ job'[k].day = job'[j].day => k = j
  <2>1. job[j].at # "idle" /\ job'[j].day = job[j].day /\ job[j].day \in Nat
    BY <1>0, <1>2 DEF JobType
  <2>2. /\ job[j].day < today
        /\ job[j].day < day \/ (job[j].day = day /\ RollingOver)
        /\ \A k \in Job : job[k].at # "idle" /\ job[k].day = job[j].day => k = j
    BY <2>1 DEF Dated
  <2> HIDE DEF RollingOver
  <2>3. job'[j].day < today'
    BY <1>0, <2>1, <2>2
  <2>4. job'[j].day < day' \/ (job'[j].day = day' /\ RollingOver')
    BY <1>0, <2>1, <2>2
  <2> QED BY <2>1, <2>2, <2>3, <2>4
<1> QED BY <1>1, <1>2 DEF Dated

\* A snapshot is of the table's day, and that day is over when the rollover
\* compresses it.
LEMMA DatedWrite ==
  ASSUME StatsTypeOK, Clock, Dated, Write
  PROVE  Dated'
<1>0. /\ day \in Nat /\ today \in Nat /\ Day \subseteq Nat /\ day \in Day /\ bg.now \in Nat
      /\ job \in [Job -> JobType] /\ plain \in [Day -> Inode \cup {None}]
      /\ saved \in [Day -> SUBSET Line]
  BY TypesApart DEF Day, BgType
<1>1. UNCHANGED <<day, today, gz>> /\ bg.at = "collect" /\ Written
  BY DEF Write
<1>2. \A d \in Day \ {day} : plain'[d] = plain[d] /\ saved'[d] = saved[d]
  BY <1>0, <1>1, WrittenCases
<1>3. ASSUME NEW d \in Day
      PROVE  /\ plain'[d] # None => d <= day'
             /\ gz'[d].made => d < today'
             /\ gz'[d].whole => gz'[d].made
             /\ saved'[d] # {} => d <= day'
  BY <1>0, <1>1, <1>2 DEF Dated
<1>4. \A j \in Job : job[j].at # "idle" =>
        /\ job[j].day \in Nat /\ job[j].day < today /\ job[j].day < day
        /\ \A k \in Job : job[k].at # "idle" /\ job[k].day = job[j].day => k = j
  BY <1>0, <1>1 DEF Dated, RollingOver, JobType
<1>5. CASE bg.task # "final"
  <2>1. job' = job
    BY <1>5, WriteEnds
  <2> QED BY <1>1, <1>3, <1>4, <2>1 DEF Dated
<1>6. CASE bg.task = "final"
  <2> DEFINE ds == {day}
  <2>1. job' = Launched(ds) /\ bg'.at = "prune" /\ ds \in SUBSET Day /\ \A d \in ds : d = day
    BY <1>0, <1>6, WriteEnds
  <2> HIDE DEF ds
  <2>2. PICK new \in SUBSET Job :
          /\ \A j \in new : /\ job'[j].at = "open" /\ job'[j].day \in ds
                            /\ \A k \in new : job'[k].day = job'[j].day => k = j
          /\ \A j \in Job \ new : job'[j] = job[j]
    BY <1>0, <2>1, Launches
  <2>3. day < today
    BY <1>0, <1>6 DEF Clock
  <2>4. ASSUME NEW j \in Job, job'[j].at # "idle"
        PROVE  /\ job'[j].day < today'
               /\ job'[j].day < day' \/ (job'[j].day = day' /\ RollingOver')
               /\ \A k \in Job : job'[k].at # "idle" /\ job'[k].day = job'[j].day => k = j
    <3>1. RollingOver'
      BY <2>1 DEF RollingOver
    <3>2. CASE j \in new
      <4>1. job'[j].day = day
        BY <2>1, <2>2, <3>2
      <4>2. ASSUME NEW k \in Job, job'[k].at # "idle", job'[k].day = job'[j].day PROVE k = j
        <5>1. CASE k \in new
          BY <2>2, <3>2, <4>2, <5>1
        <5>2. CASE k \notin new
          <6>1. job[k].day = day /\ job[k].at # "idle"
            BY <2>2, <4>1, <4>2, <5>2
          <6> QED BY <1>0, <1>4, <6>1
        <5> QED BY <5>1, <5>2
      <4> QED BY <1>1, <2>3, <3>1, <4>1, <4>2
    <3>3. CASE j \notin new
      <4>1. job'[j] = job[j]
        BY <2>2, <3>3
      <4>2. ASSUME NEW k \in Job, job'[k].at # "idle", job'[k].day = job'[j].day PROVE k = j
        <5>1. CASE k \in new
          <6>1. job[j].day = day /\ job[j].at # "idle"
            BY <2>1, <2>2, <2>4, <4>1, <4>2, <5>1
          <6> QED BY <1>0, <1>4, <6>1
        <5>2. CASE k \notin new
          <6>1. job'[k] = job[k]
            BY <2>2, <5>2
          <6> QED BY <1>4, <2>4, <4>1, <4>2, <6>1
        <5> QED BY <5>1, <5>2
      <4> QED BY <1>1, <1>4, <2>4, <4>1, <4>2
    <3> QED BY <3>2, <3>3
  <2> QED BY <1>3, <2>4 DEF Dated
<1> QED BY <1>5, <1>6

\* A start finds what its predecessors left, and compresses what is of days
\* before its own.
LEMMA DatedRestart ==
  ASSUME StatsTypeOK, Down, Clock, Dated, Restart
  PROVE  Dated'
<1>0. /\ day \in Nat /\ today \in Nat /\ Day \subseteq Nat /\ day <= today
      /\ job \in [Job -> JobType]
  BY TypesApart DEF Day, Clock
<1>1. /\ today' = today /\ day' = today /\ saved' = saved
      /\ plain' = Pruned(today, plain) /\ gz' = PrunedGz(today)
      /\ job' = Launched(StaleDays(today))
  BY DEF Restart
<1>2. \A d \in Day : /\ plain'[d] \in {plain[d], None}
                     /\ gz'[d] = gz[d] \/ ~ (gz'[d].made \/ gz'[d].whole)
  BY <1>1 DEF Pruned, PrunedGz, NoGz
<1>3. ASSUME NEW d \in Day
      PROVE  /\ plain'[d] # None => d <= day'
             /\ gz'[d].made => d < today'
             /\ gz'[d].whole => gz'[d].made
             /\ saved'[d] # {} => d <= day'
  BY <1>0, <1>1, <1>2 DEF Dated
<1>4. /\ StaleDays(today) \in SUBSET Day
      /\ \A d \in StaleDays(today) : d < today
  <2>1. \A d \in StaleDays(today) : d \in Day /\ plain[d] # None /\ d # today
    BY DEF StaleDays
  <2> HIDE DEF StaleDays
  <2>2. \A d \in Day : plain[d] # None => d <= day
    BY DEF Dated
  <2>3. \A d \in Day : d <= day /\ d # today => d < today
    BY <1>0
  <2> QED BY <2>1, <2>2, <2>3
<1> HIDE DEF StaleDays
<1>5. PICK new \in SUBSET Job :
        /\ \A j \in new : /\ job'[j].at = "open" /\ job'[j].day \in StaleDays(today)
                          /\ \A k \in new : job'[k].day = job'[j].day => k = j
        /\ \A j \in Job \ new : job'[j] = job[j]
  BY <1>0, <1>1, <1>4, Launches
<1>6. \A j \in Job : job[j].at = "idle"
  BY RestartFrom DEF NoJob
<1>7. \A j \in Job : job'[j].at # "idle" => j \in new
  BY <1>5, <1>6
<1> QED BY <1>1, <1>3, <1>4, <1>5, <1>7 DEF Dated

\* Every step keeps the dates.
LEMMA DatedStep ==
  ASSUME StatsTypeOK, StatsTypeOK', Down, Clock, Dated, [Next]_vars
  PROVE  Dated'
<1>0. /\ day \in Nat /\ today \in Nat /\ bg \in BgType /\ bg.now \in Nat
      /\ job \in [Job -> JobType] /\ day \in Day /\ today \in Day
      /\ day' \in Day /\ today' \in Day
  BY TypesApart DEF Day, BgType, StatsTypeOK
<1>s. \A d \in Day : gz[d].whole => gz[d].made
  BY DEF Dated
<1>1. CASE Quiet
  <2>1. UNCHANGED <<plain, gz, job, saved>>
    <3>1. saved' = saved
      BY <1>1 DEF Quiet, Counting, RecordHit, RecordMiss, RecordInsert, BgQuiet, Tick, Collect,
                  Choose, Drop, Dropped, Check, Clear, Reset, LastSnapshot, Midnight, Stop,
                  historyVars
    <3> QED BY <1>1, <3>1, QuietFiles DEF fileVars
  <2>2. today' >= today
    <3>1. today' \in {today, today + 1}
      BY <1>1 DEF Quiet, Counting, RecordHit, RecordMiss, RecordInsert, BgQuiet, Tick, Collect,
                  Choose, Drop, Dropped, Check, Clear, Reset, LastSnapshot, Midnight, Stop
    <3> QED BY <1>0, <3>1
  <2>3. (day' = day /\ (RollingOver => RollingOver')) \/ day' > day
    <3>1. CASE Counting \/ Midnight \/ Stop
      BY <3>1 DEF Counting, RecordHit, RecordMiss, RecordInsert, Midnight, Stop, RollingOver
    <3>2. CASE Tick \/ Collect \/ Choose \/ Drop \/ Dropped \/ Check \/ LastSnapshot
      BY <3>2 DEF Tick, Collect, Choose, Drop, Dropped, Check, LastSnapshot, RollingOver
    <3>3. CASE Clear
      BY <1>0, <3>3 DEF Clear, RollingOver, BgType
    <3>4. CASE Reset
      BY <1>0, <3>4 DEF Reset, RollingOver, Clock
    <3> QED BY <1>1, <3>1, <3>2, <3>3, <3>4 DEF Quiet, BgQuiet
  <2> QED BY <1>0, <1>s, <2>1, <2>2, <2>3, DatedStays
<1>2. CASE Converting
  <2>1. UNCHANGED <<today, day, bg, saved>>
    BY <1>2, ConvertingFrame DEF statsVars, historyVars
  <2>2. \A d \in Day : /\ plain'[d] \in {plain[d], None}
                       /\ gz'[d].made => gz[d].made \/ d < today
                       /\ gz'[d].whole => gz'[d].made
    BY <1>2, <1>s, ConvertingFrame DEF Dated
  <2>3. \A k \in Job : job'[k].at # "idle" => job[k].at # "idle" /\ job'[k].day = job[k].day
    BY <1>2, ConvertingFrame
  <2>4. RollingOver => RollingOver'
    BY <2>1 DEF RollingOver
  <2> QED BY <1>0, <2>1, <2>2, <2>3, <2>4, DatedStays
<1>3. CASE Prune
  <2>1. UNCHANGED <<today, day, job, saved>> /\ RollingOver'
    BY <1>0, <1>3 DEF Prune, BgType, RollingOver, historyVars
  <2>2. \A d \in Day : /\ plain'[d] \in {plain[d], None}
                       /\ gz'[d].made => gz[d].made \/ d < today
                       /\ gz'[d].whole => gz'[d].made
    BY <1>3, <1>s DEF Prune, Pruned, PrunedGz, NoGz
  <2> QED BY <1>0, <2>1, <2>2, DatedStays
<1>4. CASE Die
  <2>1. UNCHANGED <<today, day, plain, gz, saved>> /\ \A k \in Job : job'[k].at = "idle"
    BY <1>4 DEF Die, NoJob
  <2>2. ASSUME NEW d \in Day
        PROVE  /\ plain'[d] # None => d <= day'
               /\ gz'[d].made => d < today'
               /\ gz'[d].whole => gz'[d].made
               /\ saved'[d] # {} => d <= day'
    BY <2>1 DEF Dated
  <2> QED BY <2>1, <2>2 DEF Dated
<1>5. CASE UNCHANGED vars
  BY <1>5 DEF Dated, RollingOver, vars, fileVars, statsVars, historyVars
<1> QED BY <1>1, <1>2, <1>3, <1>4, <1>5, DatedWrite, DatedRestart, Steps

-----------------------------------------------------------------------------
(* Snapshots are kept *)

\* A day whose files are to be kept.
Live(d) == ~ Expired(d, today)

Kept == /\ \A d \in Day : Live(d) => Stored(d, saved[d])
        /\ \A j \in Job : Live(job[j].day) => Faithful(j)

\* What was expired stays so.
LEMMA LiveBefore ==
  ASSUME StatsTypeOK, today' \in Day, today' >= today
  PROVE  \A d \in Day : Live(d)' => Live(d)
<1>1. today \in Int /\ today' \in Int /\ Day \subseteq Int
  BY TypesApart DEF Day
<1>2. \A d \in Day : Expired(d, today) => Expired(d, today')
  BY <1>1, ExpiresOnce
<1>3. ASSUME NEW d \in Day, Live(d)' PROVE Live(d)
  <2>1. ~ Expired(d, today')
    BY <1>3 DEF Live, Expired
  <2> QED BY <1>2, <2>1 DEF Live
<1> QED BY <1>3

\* Steps that leave the files of the days that are to be kept, and whose
\* goroutines of Compress are as before or have not opened theirs.
LEMMA KeptStays ==
  ASSUME StatsTypeOK, Sourced, Kept, today' \in Day, today' >= today,
         UNCHANGED <<data, saved>>,
         \A d \in Day : Live(d) => plain'[d] = plain[d] /\ gz'[d] = gz[d],
         \A j \in Job : job'[j] = job[j] \/ job'[j].at \in {"idle", "open"}
  PROVE  Kept'
<1>0. job \in [Job -> JobType] /\ \A d \in Day : Live(d)' => Live(d)
  BY TypesApart, LiveBefore
<1>1. ASSUME NEW d \in Day, Live(d)' PROVE Stored(d, saved[d])'
  <2>1. Live(d)
    BY <1>0, <1>1
  <2>2. Stored(d, saved[d]) /\ plain'[d] = plain[d] /\ gz'[d] = gz[d]
    BY <2>1 DEF Kept
  <2> QED BY <2>2 DEF Stored
<1>2. ASSUME NEW j \in Job, job'[j] = job[j], Live(job[j].day)' PROVE Faithful(j)'
  <2>1. PICK d \in Day : d = job[j].day /\ job'[j].day = d
    BY <1>0, <1>2 DEF JobType
  <2>2. Live(job[j].day)
    <3>1. Live(d)'
      BY <1>2, <2>1 DEF Live, Expired
    <3> QED BY <1>0, <2>1, <3>1
  <2>3. Faithful(j) /\ plain'[job[j].day] = plain[job[j].day]
                    /\ gz'[job[j].day] = gz[job[j].day]
    BY <2>1, <2>2 DEF Kept
  <2> QED BY <1>2, <2>3 DEF Faithful
<1>3. ASSUME NEW j \in Job, job'[j].at \in {"idle", "open"} PROVE Faithful(j)'
  BY <1>3 DEF Faithful
<1> QED BY <1>1, <1>2, <1>3 DEF Kept

\* A snapshot replaces the one before it, under a file of its own; nobody
\* compresses its day yet.
LEMMA KeptWrite ==
  ASSUME StatsTypeOK, Sourced, Dated, Kept, Write
  PROVE  Kept'
<1>0. /\ day \in Nat /\ Day \subseteq Nat /\ day \in Day /\ today' = today
      /\ job \in [Job -> JobType] /\ plain \in [Day -> Inode \cup {None}]
      /\ data \in [Inode -> SUBSET Line] /\ saved \in [Day -> SUBSET Line]
  BY TypesApart DEF Day, Write
<1>1. gz' = gz /\ bg.at = "collect" /\ Written
  BY DEF Write
<1>2. \A j \in Job : job'[j] = job[j] \/ job'[j].at = "open"
  <2> DEFINE ds == {day}
  <2>1. (job' = Launched(ds) \/ job' = job) /\ ds \in SUBSET Day
    BY <1>0, WriteEnds
  <2> HIDE DEF ds
  <2> QED BY <1>0, <2>1, Launches
<1>3. CASE UNCHANGED <<plain, data, saved>>
  <2>1. today' \in Day /\ today' >= today
    BY <1>0, TypesApart DEF Day
  <2> QED BY <1>1, <1>2, <1>3, <2>1, KeptStays
<1>4. ASSUME NEW f \in FreeInodes, data' = [data EXCEPT ![f] = bg.copy],
             plain' = [plain EXCEPT ![day] = f], saved' = [saved EXCEPT ![day] = bg.copy]
      PROVE  Kept'
  <2>1. /\ \A d \in Day : plain[d] # f
        /\ \A k \in Job : job[k].file # f
    BY DEF FreeInodes, InUse
  <2>2. /\ \A d \in Day \ {day} : plain'[d] = plain[d] /\ saved'[d] = saved[d]
        /\ plain'[day] = f /\ f \in Inode /\ f # None
        /\ data'[f] = bg.copy /\ saved'[day] = bg.copy
        /\ \A i \in Inode \ {f} : data'[i] = data[i]
    BY <1>0, <1>4 DEF FreeInodes, Inode, None
  <2>3. ASSUME NEW d \in Day, Live(d)' PROVE Stored(d, saved[d])'
    <3>1. CASE d = day
      BY <2>2, <3>1 DEF Stored
    <3>2. CASE d # day
      <4>1. Live(d)
        BY <1>0, <2>3 DEF Live, Expired
      <4>2. Stored(d, saved[d])
        BY <4>1 DEF Kept
      <4>3. /\ plain'[d] = plain[d] /\ saved'[d] = saved[d]
            /\ plain[d] # None => data'[plain[d]] = data[plain[d]]
        BY <1>0, <2>1, <2>2, <3>2
      <4> QED BY <1>1, <4>2, <4>3 DEF Stored
    <3> QED BY <3>1, <3>2
  <2>4. ASSUME NEW j \in Job, Live(job[j].day)' PROVE Faithful(j)'
    <3>1. CASE job'[j].at \notin {"create", "copy", "remove"}
      BY <3>1 DEF Faithful
    <3>2. CASE job'[j].at \in {"create", "copy", "remove"}
      <4>1. job'[j] = job[j] /\ job[j].at # "idle" /\ job[j].day \in Day /\ job[j].day \in Nat
        BY <1>0, <1>2, <3>2 DEF JobType
      <4>2. job[j].day # day
        BY <1>0, <1>1, <4>1 DEF Dated, RollingOver
      <4>3. Live(job[j].day)
        BY <1>0, <2>4, <4>1 DEF Live, Expired
      <4>4. Faithful(j)
        BY <4>3 DEF Kept
      <4>5. plain'[job[j].day] = plain[job[j].day]
        BY <2>2, <4>1, <4>2
      <4>6. job[j].file \in Inode /\ data'[job[j].file] = data[job[j].file]
        BY <1>0, <2>1, <2>2, <3>2, <4>1 DEF Sourced, JobType
      <4> QED BY <1>1, <4>1, <4>4, <4>5, <4>6 DEF Faithful
    <3> QED BY <3>1, <3>2
  <2> QED BY <2>3, <2>4 DEF Kept
<1> QED BY <1>1, <1>3, <1>4, WrittenCases

\* Compress keeps them.
LEMMA KeptConverting ==
  ASSUME StatsTypeOK, Sourced, Dated, Kept, Converting
  PROVE  Kept'
<1>1. PICK j \in Job : Compressing(j)
  BY DEF Converting
<1>2. UNCHANGED <<today, saved>> /\ (CompressStep(j) \/ CompressFails(j))
  BY <1>1 DEF Compressing, statsVars, historyVars
<1>3. FilesTypeOK /\ Lone
  BY TypesApart DEF Dated, Lone
<1> DEFINE L == {d \in Day : Live(d)}
<1>4. /\ \A d \in L : Stored(d, saved[d])
      /\ \A k \in Job : job[k].day \in L => Faithful(k)
  BY DEF Kept
<1>5. L' = L
  BY <1>2 DEF Live, Expired
<1>6. L \in SUBSET Day
  OBVIOUS
<1> HIDE DEF L
<1>7. /\ \A d \in L : Stored(d, saved[d])'
      /\ \A k \in Job : job'[k].day \in L => Faithful(k)'
  BY <1>2, <1>3, <1>4, <1>5, <1>6, CompressKeeps
<1>8. ASSUME NEW d \in Day, Live(d)' PROVE Stored(d, saved[d])'
  <2>1. d \in L
    BY <1>5, <1>8 DEF L
  <2> QED BY <1>7, <2>1
<1>9. ASSUME NEW k \in Job, Live(job[k].day)' PROVE Faithful(k)'
  <2>1. job'[k].day \in L
    BY <1>2, <1>9, CompressTypes DEF L, Live, Expired, StatsTypeOK, FilesTypeOK
  <2> QED BY <1>7, <2>1
<1> QED BY <1>8, <1>9 DEF Kept

\* Every step keeps the snapshots.
LEMMA KeptStep ==
  ASSUME StatsTypeOK, StatsTypeOK', Sourced, Down, Clock, Dated, Kept, [Next]_vars
  PROVE  Kept'
<1>0. /\ today \in Nat /\ today \in Day /\ today' \in Day /\ bg.now \in Nat
      /\ job \in [Job -> JobType] /\ plain \in [Day -> Inode \cup {None}]
      /\ gz \in [Day -> GzType] /\ KeepDays \in Nat /\ Day \subseteq Int
  BY TypesApart DEF Day, BgType, StatsTypeOK
<1>1. CASE Quiet \/ Die \/ UNCHANGED vars
  <2>1. today' >= today
    <3>1. today' \in {today, today + 1}
      BY <1>1 DEF Quiet, Counting, RecordHit, RecordMiss, RecordInsert, BgQuiet, Tick, Collect,
                  Choose, Drop, Dropped, Check, Clear, Reset, LastSnapshot, Midnight, Stop,
                  Die, vars, statsVars
    <3> QED BY <1>0, <3>1
  <2>2. UNCHANGED <<plain, data, gz>> /\ \A j \in Job : job'[j] = job[j] \/ job'[j].at = "idle"
    BY <1>1, QuietFiles DEF fileVars, Die, NoJob, vars
  <2>3. saved' = saved
    BY <1>1 DEF Quiet, Counting, RecordHit, RecordMiss, RecordInsert, BgQuiet, Tick, Collect,
                Choose, Drop, Dropped, Check, Clear, Reset, LastSnapshot, Midnight, Stop,
                Die, vars, historyVars
  <2> QED BY <1>0, <2>1, <2>2, <2>3, KeptStays
<1>2. ASSUME NEW t \in Nat, t <= today, today' = today, plain' = Pruned(t, plain),
             gz' = PrunedGz(t), UNCHANGED <<data, saved>>,
             \A j \in Job : job'[j] = job[j] \/ job'[j].at = "open"
      PROVE  Kept'
  <2>1. ASSUME NEW d \in Day, Live(d) PROVE ~ Expired(d, t)
    <3>1. t \in Int /\ today \in Int /\ t <= today /\ d \in Int
      BY <1>0, <1>2
    <3> QED BY <2>1, <3>1, ExpiresOnce DEF Live
  <2>2. \A d \in Day : Live(d) => plain'[d] = plain[d] /\ gz'[d] = gz[d]
    BY <1>2, <2>1 DEF Pruned, PrunedGz
  <2> QED BY <1>0, <1>2, <2>2, KeptStays
<1>3. CASE Prune
  BY <1>0, <1>2, <1>3 DEF Prune, historyVars, Clock
<1>4. CASE Restart
  <2>1. StaleDays(today) \in SUBSET Day /\ job' = Launched(StaleDays(today))
    BY <1>4 DEF Restart, StaleDays
  <2>2. \A j \in Job : job'[j] = job[j] \/ job'[j].at = "open"
    <3> HIDE DEF StaleDays
    <3> QED BY <1>0, <2>1, Launches
  <2>3. /\ today' = today /\ plain' = Pruned(today, plain) /\ gz' = PrunedGz(today)
        /\ UNCHANGED <<data, saved>>
    BY <1>4 DEF Restart
  <2> QED BY <1>0, <1>2, <2>2, <2>3
<1> QED BY <1>1, <1>3, <1>4, KeptWrite, KeptConverting, Steps

FilesInv == Clock /\ Dated /\ Kept

\* Every day's files and jobs are where the clock says, through crashes as well.
THEOREM FilesInvariance == Spec => []FilesInv
<1>1. Init => FilesInv
  <2> SUFFICES ASSUME Init PROVE FilesInv
    OBVIOUS
  <2>1. /\ plain = [d \in Day |-> None] /\ gz = [d \in Day |-> NoGz]
        /\ job = [j \in Job |-> NoJob] /\ saved = [d \in Day |-> {}]
        /\ bg = Idle /\ bg.at = "idle" /\ bg.task = "none" /\ bg.now = 1
        /\ today = 1 /\ day = 1
    BY DEF Init, FilesInit, Idle
  <2>2. Clock
    BY <2>1 DEF Clock, RollingOver
  <2>3. Dated /\ Kept
    BY <2>1 DEF Dated, Kept, Stored, Faithful, NoGz, NoJob
  <2> QED BY <2>2, <2>3 DEF FilesInv
<1>2. CountInv /\ CountInv' /\ FilesInv /\ [Next]_vars => FilesInv'
  BY ClockStep, DatedStep, KeptStep DEF CountInv, FilesInv
<1> QED BY <1>1, <1>2, CountInvariance, PTL DEF Spec

\* What a snapshot saved is found, plain or compressed, for as long as it is to
\* be kept, whatever fails or crashes.
THEOREM SnapshotKeptCorrect == Spec => []SnapshotKept
<1>1. CountInv /\ FilesInv => SnapshotKept
  <2> SUFFICES ASSUME CountInv, FilesInv, NEW d \in Day, d >= today - KeepDays
               PROVE  saved[d] \subseteq LinesOf(d)
    BY DEF SnapshotKept
  <2>1. today \in Int /\ KeepDays \in Int /\ d \in Int
    BY TypesApart DEF CountInv, Day
  <2>2. Live(d)
    <3>1. \A b \in Int : d >= b => ~ (d < b)
      BY <2>1
    <3> QED BY <2>1, <3>1 DEF Live, Expired
  <2> QED BY <2>2 DEF FilesInv, Kept, Stored, LinesOf
<1> QED BY <1>1, CountInvariance, FilesInvariance, PTL

-----------------------------------------------------------------------------
(* A day's snapshots lose nothing but what was evicted *)

\* Unless it could not be read at the start, what the day's snapshot has is still
\* counted until the rollover clears the table, and is in the copy for the next
\* one once its shard is.
Grows ==
  /\ Up /\ ~ unread /\ bg.at \notin {"clear", "reset"} => saved[day] \ evicted \subseteq table
  /\ ~ unread /\ bg.at = "collect" =>
       \A p \in saved[day] \ evicted : ClientOf[p] < bg.i => p \in bg.copy
  /\ bg.at = "collect" => bg.copy \subseteq table

\* Steps that save, evict and forget nothing; a pass over the shards begins, or
\* it goes on as it was.
LEMMA GrowsStays ==
  ASSUME StatsTypeOK, Grows, UNCHANGED <<day, saved, evicted, unread>>,
         table \subseteq table', mode' # "down" => Up,
         bg.at \in {"clear", "reset"} => bg'.at \in {"clear", "reset"},
         bg'.at = "collect" => bg' = bg \/ (bg'.i = 1 /\ bg'.copy = {})
  PROVE  Grows'
<1>1. ASSUME NEW p \in Line PROVE ~ (ClientOf[p] < 1)
  BY DEF Client
<1>2. saved[day] \in SUBSET Line
  BY TypesApart
<1>3. (Up /\ ~ unread /\ bg.at \notin {"clear", "reset"} => saved[day] \ evicted \subseteq table)'
  BY DEF Grows, Up
<1>4. ASSUME bg'.at = "collect"
      PROVE  /\ (~ unread => \A p \in saved[day] \ evicted : ClientOf[p] < bg.i => p \in bg.copy)'
             /\ bg'.copy \subseteq table'
  <2>1. CASE bg' = bg
    BY <1>4, <2>1 DEF Grows
  <2>2. CASE bg'.i = 1 /\ bg'.copy = {}
    BY <1>1, <1>2, <2>2
  <2> QED BY <1>4, <2>1, <2>2
<1> QED BY <1>3, <1>4 DEF Grows

\* Every step keeps it; a start finds the day's snapshot, which is not compressed
\* before its day is over.
LEMMA GrowsStep ==
  ASSUME CountInv, FilesInv, Grows, [Next]_vars
  PROVE  Grows'
<1>0. /\ StatsTypeOK /\ Down /\ Clock /\ Dated /\ Kept
      /\ bg \in BgType /\ day \in Day /\ today \in Day /\ bg.now \in Day
      /\ table \in SUBSET Line /\ saved \in [Day -> SUBSET Line] /\ Day \subseteq Nat
      /\ evicted \in SUBSET Line /\ bg.copy \in SUBSET Line /\ bg.i \in Nat
  BY TypesApart DEF CountInv, FilesInv, BgType, Day
<1>1. CASE Counting
  <2>1. UNCHANGED <<day, saved, evicted, unread, mode, bg>> /\ table \subseteq table'
    BY <1>1 DEF Counting, RecordHit, RecordMiss, RecordInsert, historyVars
  <2> QED BY <1>0, <2>1, GrowsStays DEF Up
<1>2. CASE Midnight \/ Stop \/ Converting \/ UNCHANGED vars
  <2>1. UNCHANGED <<day, saved, evicted, unread, bg, table>> /\ (mode' # "down" => Up)
    BY <1>2 DEF Midnight, Stop, Converting, Compressing, Up, statsVars, historyVars, vars
  <2> QED BY <1>0, <2>1, GrowsStays
<1>3. CASE Tick \/ Choose \/ Dropped \/ Check \/ LastSnapshot
  <2>1. UNCHANGED <<day, saved, evicted, unread, mode, table>>
    BY <1>3 DEF Tick, Choose, Dropped, Check, LastSnapshot, historyVars
  <2>2. bg.at \notin {"clear", "reset"}
    BY <1>3 DEF Tick, Choose, Dropped, Check, LastSnapshot
  <2>3. bg'.at = "collect" => bg'.i = 1 /\ bg'.copy = {}
    <3>1. CASE Tick
      <4>1. CASE tracked > MaxIPs
        BY <1>0, <3>1, <4>1 DEF Tick, Collecting, BgType
      <4>2. CASE ~ (tracked > MaxIPs)
        BY <1>0, <3>1, <4>2 DEF Tick, BgType
      <4> QED BY <4>1, <4>2
    <3>2. CASE Choose
      BY <3>2 DEF Choose, Idle
    <3>3. CASE Dropped
      BY <1>0, <3>3 DEF Dropped, BgType
    <3>4. CASE Check \/ LastSnapshot
      BY <1>0, <3>4, CollectingFields DEF Check, LastSnapshot, Idle, Tasks
    <3> QED BY <1>3, <3>1, <3>2, <3>3, <3>4
  <2> QED BY <1>0, <2>1, <2>2, <2>3, GrowsStays DEF Up
<1>4. CASE Collect
  <2>1. /\ UNCHANGED <<day, saved, evicted, unread, mode, table>> /\ bg.at = "collect"
        /\ bg'.at = "collect" /\ bg'.i = bg.i + 1 /\ bg'.copy = bg.copy \cup Rows(bg.i, table)
    BY <1>0, <1>4 DEF Collect, BgType, historyVars
  <2>2. Up
    BY <1>0, <2>1 DEF Down, Up, Idle
  <2>3. ASSUME ~ unread, NEW p \in saved[day] \ evicted, ClientOf[p] < bg.i + 1
        PROVE  p \in bg.copy \cup Rows(bg.i, table)
    <3>1. p \in table /\ ClientOf[p] \in Nat
      BY <1>0, <2>1, <2>2, <2>3 DEF Grows
    <3>2. ClientOf[p] < bg.i \/ ClientOf[p] = bg.i
      BY <1>0, <2>3, <3>1
    <3> QED BY <2>1, <2>3, <3>1, <3>2 DEF Grows, Rows
  <2>4. bg.copy \cup Rows(bg.i, table) \subseteq table
    BY <2>1 DEF Grows, Rows
  <2>5. ~ unread => saved[day] \ evicted \subseteq table
    BY <2>1, <2>2 DEF Grows
  <2> QED BY <2>1, <2>3, <2>4, <2>5 DEF Grows
<1>5. CASE Drop
  <2>1. PICK c \in bg.victims :
          /\ table' = table \ Rows(c, table) /\ evicted' = evicted \cup Rows(c, table)
          /\ bg' = [bg EXCEPT !.victims = @ \ {c}]
    BY <1>5 DEF Drop
  <2>2. UNCHANGED <<day, saved, unread, mode>> /\ bg.at = "drop" /\ bg'.at = "drop"
    BY <1>0, <1>5 DEF Drop, BgType
  <2>3. Up /\ ~ unread => saved[day] \ evicted' \subseteq table'
    BY <2>1, <2>2 DEF Grows
  <2> QED BY <2>2, <2>3 DEF Grows, Up
<1>6. CASE Write
  <2>1. /\ UNCHANGED <<day, table, evicted, unread>> /\ bg.at = "collect"
        /\ bg'.at \in {"idle", "prune"} /\ Written
    <3>1. UNCHANGED <<day, table, evicted, unread>> /\ bg.at = "collect" /\ Written
      BY <1>6 DEF Write
    <3> QED BY <1>6, <3>1, WriteEnds
  <2>2. Up
    BY <1>0, <2>1 DEF Down, Up, Idle
  <2>3. saved'[day] \in {saved[day], bg.copy}
    BY <1>0, <2>1, WrittenCases
  <2>4. ~ unread => saved'[day] \ evicted \subseteq table
    BY <2>1, <2>2, <2>3 DEF Grows
  <2> QED BY <2>1, <2>4 DEF Grows
<1>7. CASE Prune \/ Clear
  <2>1. bg'.at \in {"clear", "reset"}
    BY <1>0, <1>7 DEF Prune, Clear, BgType
  <2> QED BY <2>1 DEF Grows
<1>8. CASE Reset
  <2>1. UNCHANGED <<saved, evicted, table>> /\ day' = bg.now /\ bg'.at = "idle" /\ bg.at = "reset"
    BY <1>8 DEF Reset, Idle
  <2>2. day < bg.now /\ day \in Nat /\ bg.now \in Nat
    BY <1>0, <2>1 DEF Clock, RollingOver
  <2>3. saved[bg.now] = {}
    <3>1. saved[bg.now] # {} => bg.now <= day
      BY <1>0 DEF Dated
    <3> QED BY <2>2, <3>1
  <2> QED BY <2>1, <2>3 DEF Grows
<1>9. CASE Die
  <2>1. mode' = "down" /\ bg'.at = "idle"
    BY <1>9 DEF Die, Idle
  <2> QED BY <2>1 DEF Grows, Up
<1>10. CASE Restart
  <2>1. PICK ok \in BOOLEAN :
          /\ table' = IF ok THEN Loaded ELSE {}
          /\ unread' = (unread \/ ~ ok)
    BY <1>10, Zenon DEF Restart
  <2>2. ~ unread' => ok
    BY <2>1, Zenon
  <2>3. UNCHANGED <<saved, evicted, today>> /\ day' = today /\ bg'.at = "idle"
    BY <1>0, <1>10, RestartFrom DEF Restart, Idle
  <2>4. saved[today] \subseteq Loaded
    <3>1. Live(today)
      BY <1>0 DEF Live, Expired
    <3>2. Stored(today, saved[today])
      BY <1>0, <3>1 DEF Kept
    <3>3. ~ gz[today].whole
      BY <1>0 DEF Dated
    <3> QED BY <3>2, <3>3 DEF Stored, Loaded
  <2>5. ~ unread' => saved[today] \ evicted \subseteq table'
    BY <2>1, <2>2, <2>4
  <2> QED BY <2>3, <2>5 DEF Grows
<1> QED BY <1>1, <1>2, <1>3, <1>4, <1>5, <1>6, <1>7, <1>8, <1>9, <1>10, Steps
        DEF Quiet, BgQuiet

\* "A restart continues the current day's totals instead of starting from zero":
\* the snapshots of a day lose nothing but what was evicted, also when another
\* process writes the next one, unless it could not read the last.
THEOREM DayNeverShrinksCorrect == Spec => DayNeverShrinks
<1> DEFINE Inv == CountInv /\ FilesInv /\ Grows
           Monotone == \A d \in Day : unread \/ saved[d] \ evicted \subseteq saved'[d]
<1>1. Init => Grows
  <2>1. 1 \in Day
    BY DEF Day
  <2> QED BY <2>1 DEF Init, Grows, Idle
<1>2. CountInv /\ FilesInv /\ Grows /\ [Next]_vars => Grows'
  BY GrowsStep
<1>3. Inv /\ [Next]_vars => [Monotone]_vars
  <2> SUFFICES ASSUME Inv, [Next]_vars, NEW d \in Day, ~ unread
               PROVE  saved[d] \ evicted \subseteq saved'[d]
    OBVIOUS
  <2>1. saved \in [Day -> SUBSET Line] /\ day \in Day /\ bg.i \in Nat /\ bg.copy \in SUBSET Line
    BY TypesApart DEF CountInv, BgType
  <2>2. CASE Write
    <3>1. bg.at = "collect" /\ bg.i > Clients /\ Written
      BY <2>2 DEF Write
    <3>2. CASE UNCHANGED <<plain, data, saved>>
      BY <3>2
    <3>3. CASE saved' = [saved EXCEPT ![day] = bg.copy]
      <4>1. ASSUME NEW p \in saved[day] \ evicted PROVE p \in bg.copy
        <5>1. ClientOf[p] \in 1 .. Clients
          BY <2>1
        <5>2. ClientOf[p] < bg.i
          BY <2>1, <3>1, <5>1
        <5> QED BY <3>1, <4>1, <5>2 DEF Grows
      <4> QED BY <2>1, <3>3, <4>1
    <3> QED BY <3>1, <3>2, <3>3, WrittenCases
  <2>3. CASE ~ Write
    <3>1. saved' = saved
      BY <2>3, Steps DEF Quiet, Counting, RecordHit, RecordMiss, RecordInsert, BgQuiet, Tick,
         Collect, Choose, Drop, Dropped, Check, Clear, Reset, LastSnapshot, Midnight, Stop,
         Prune, Converting, Compressing, Die, Restart, vars, historyVars
    <3> QED BY <3>1
  <2> QED BY <2>2, <2>3
<1>4. Spec => []Inv
  <2>1. CountInv /\ FilesInv /\ Grows => Inv
    OBVIOUS
  <2> HIDE DEF Inv
  <2> QED BY <1>1, <1>2, <2>1, CountInvariance, FilesInvariance, PTL DEF Spec
<1>5. [Monotone]_vars => [\A d \in Day : unread \/ saved[d] \ evicted \subseteq saved'[d]]_vars
  OBVIOUS
<1> HIDE DEF Inv, Monotone
<1> QED BY <1>3, <1>4, <1>5, PTL DEF Spec, DayNeverShrinks
=============================================================================
