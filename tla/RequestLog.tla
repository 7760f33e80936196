----------------------------- MODULE RequestLog -----------------------------
(***************************************************************************)
(* The request log, internal/requestlog/requestlog.go: any goroutine       *)
(* records lines into a bounded queue, one writer goroutine takes them off *)
(* it and owns the open file, and the process may stop, crash and start    *)
(* again.  The files and their compression are DailyFile's.                *)
(*                                                                         *)
(* An iteration of the writer's select is cut where a goroutine of         *)
(* Compress can come in between: after a rotation, after its Prune.  Flush *)
(* and open of a rotation are one step, as they are on different names.    *)
(***************************************************************************)
EXTENDS DailyFile, Sequences

CONSTANT QueueSize

ASSUME QueueAssumption == QueueSize \in Nat \ {0}

VARIABLES
  today,    \* what the clock shows
  mode,     \* of the process: running, being stopped (Stop called, the writer
            \* draining, done), or down
  queue,    \* Logger.ch
  stamp,    \* per line: the day it was recorded on, None before that
  writer,   \* the writer: its place (at), Logger.day, the open file, the line
            \* at hand, what bufio holds (buf) and its sticky error (broken)
  pruned,   \* lastPruneDay
  dropped,  \* Logger.dropped
  recorded, \* history: the lines recorded by this process
  encoded,  \* history: those of them that reached bufio
  before,   \* history: those recorded when Stop was called
  flushed,  \* history: the lines that reached a file, ever
  late,     \* history: the writer took a line of an earlier day than its file's
  faulty    \* history: an operation on a file failed

historyVars == <<recorded, encoded, before, flushed, late, faulty>>
vars == <<fileVars, today, mode, queue, stamp, writer, pruned, dropped, historyVars>>

Modes  == {"run", "stopping", "draining", "done", "down"}
Places == {"select", "prune", "encode"}
Fresh  == [at |-> "select", day |-> None, open |-> None, hand |-> {}, buf |-> {},
           broken |-> FALSE]

Up      == mode # "down"

Init ==
  /\ FilesInit
  /\ today = 1 /\ mode = "run" /\ queue = << >>
  /\ stamp = [e \in Line |-> None]
  /\ writer = Fresh /\ pruned = None /\ dropped = 0
  /\ recorded = {} /\ encoded = {} /\ before = {} /\ flushed = {}
  /\ late = FALSE /\ faulty = FALSE

-----------------------------------------------------------------------------
(* Record *)

\* Mutant of Record: a line that finds the queue full goes uncounted.
RecordSilently(e) ==
  /\ Up /\ stamp[e] = None
  /\ stamp' = [stamp EXCEPT ![e] = today]
  /\ recorded' = recorded \cup {e}
  /\ queue' = IF Len(queue) < QueueSize THEN Append(queue, e) ELSE queue
  /\ UNCHANGED <<fileVars, today, mode, writer, pruned, dropped, encoded, before,
                 flushed, late, faulty>>

\* The caller stamps the line and enqueues it, or drops and counts it.
Record(e) ==
  /\ Up /\ stamp[e] = None
  /\ stamp' = [stamp EXCEPT ![e] = today]
  /\ recorded' = recorded \cup {e}
  /\ IF Len(queue) < QueueSize
       THEN queue' = Append(queue, e) /\ UNCHANGED dropped
       ELSE dropped' = dropped + 1 /\ UNCHANGED queue
  /\ UNCHANGED <<fileVars, today, mode, writer, pruned, encoded, before,
                 flushed, late, faulty>>

-----------------------------------------------------------------------------
(* The writer *)

\* How a flush may end: an error of bufio stays.
FlushEnds ==
  IF writer.broken THEN {FALSE} ELSE IF writer.buf = {} THEN {TRUE} ELSE BOOLEAN

\* The flush of what bufio holds ended with ok.
Flushing(ok) ==
  /\ flushed' = IF ok THEN flushed \cup writer.buf ELSE flushed
  /\ data' = IF ok /\ writer.open # None
               THEN [data EXCEPT ![writer.open] = @ \cup writer.buf] ELSE data

FreeInodes == Inode \ (InUse \cup {writer.open})

\* closeFile, openDay(d) and `go Compress` of rotateTo(d); its Prune is next.
\* With no file open there is none to flush or to compress.
RotateTo(d, hand) ==
  \E ok \in FlushEnds, opens \in BOOLEAN :
    LET new == opens /\ plain[d] = None
        f   == IF new THEN CHOOSE i \in FreeInodes : \A k \in FreeInodes : i <= k
                      ELSE plain[d]
        old == IF writer.open = None THEN {} ELSE {writer.day}
    IN  /\ FreeInodes # {} /\ Cardinality(old) <= Cardinality(IdleJobs)
        /\ flushed' = IF ok THEN flushed \cup writer.buf ELSE flushed
        /\ data' = [i \in Inode |->
                      IF new /\ i = f THEN {}
                      ELSE IF ok /\ i = writer.open THEN data[i] \cup writer.buf
                      ELSE data[i]]
        /\ plain' = IF new THEN [plain EXCEPT ![d] = f] ELSE plain
        /\ job' = Launched(old)
        /\ writer' = [Fresh EXCEPT !.at = "prune", !.day = d, !.hand = hand,
                                   !.open = IF opens THEN f ELSE None]
        /\ faulty' = (faulty \/ ~ok \/ ~opens)
        /\ UNCHANGED gz

\* The Prune that ends rotateTo.
Prune ==
  /\ writer.at = "prune"
  /\ plain' = Pruned(writer.day, plain) /\ gz' = PrunedGz(writer.day)
  /\ pruned' = writer.day
  /\ writer' = [writer EXCEPT !.at = IF writer.hand = {} THEN "select" ELSE "encode"]
  /\ UNCHANGED <<data, job, today, mode, queue, stamp, dropped, historyVars>>

\* write(e) up to Encode: the line's own day decides its file.
Take ==
  /\ writer.at = "select" /\ mode \in {"run", "stopping", "draining"} /\ queue # << >>
  /\ LET e == Head(queue)
         d == stamp[e]
     IN  /\ IF writer.open = None \/ d # writer.day
              THEN RotateTo(d, {e})
              ELSE /\ writer' = [writer EXCEPT !.at = "encode", !.hand = {e}]
                   /\ UNCHANGED <<fileVars, flushed, faulty>>
         /\ late' = (late \/ d < writer.day)
  /\ queue' = Tail(queue)
  /\ UNCHANGED <<today, mode, stamp, pruned, dropped, recorded, encoded, before>>

\* No file is open, or bufio has failed before.
EncodeFails ==
  /\ writer.at = "encode" /\ (writer.open = None \/ writer.broken)
  /\ dropped' = dropped + 1
  /\ writer' = [writer EXCEPT !.at = "select", !.hand = {}]
  /\ UNCHANGED <<fileVars, today, mode, queue, stamp, pruned, historyVars>>

\* The line goes to bufio.
Encode ==
  /\ writer.at = "encode" /\ writer.open # None /\ ~writer.broken
  /\ encoded' = encoded \cup writer.hand
  /\ writer' = [writer EXCEPT !.at = "select", !.hand = {}, !.buf = @ \cup writer.hand]
  /\ UNCHANGED <<fileVars, today, mode, queue, stamp, pruned, dropped, recorded, before,
                 flushed, late, faulty>>

\* bufio is full: it writes out what it holds to make room, and the line is
\* dropped when that fails.
EncodeSpills ==
  /\ writer.at = "encode" /\ writer.open # None /\ ~writer.broken /\ writer.buf # {}
  /\ \E ok \in BOOLEAN :
       /\ Flushing(ok)
       /\ writer' = [writer EXCEPT !.at = "select", !.hand = {}, !.broken = ~ok,
                                   !.buf = IF ok THEN writer.hand ELSE {}]
       /\ encoded' = IF ok THEN encoded \cup writer.hand ELSE encoded
       /\ dropped' = IF ok THEN dropped ELSE dropped + 1
       /\ faulty' = (faulty \/ ~ok)
  /\ UNCHANGED <<plain, gz, job, today, mode, queue, stamp, pruned, recorded, before, late>>

Ticking == writer.at = "select" /\ mode \in {"run", "stopping"}

\* onTick with no file open: the open is tried again.
TickOpens ==
  /\ Ticking /\ writer.open = None
  /\ \E opens \in BOOLEAN :
       LET new == opens /\ plain[today] = None
           f   == IF new THEN CHOOSE i \in FreeInodes : \A k \in FreeInodes : i <= k
                         ELSE plain[today]
       IN  /\ FreeInodes # {}
           /\ data' = IF new THEN [data EXCEPT ![f] = {}] ELSE data
           /\ plain' = IF new THEN [plain EXCEPT ![today] = f] ELSE plain
           /\ writer' = [Fresh EXCEPT !.day = today, !.open = IF opens THEN f ELSE None]
           /\ faulty' = (faulty \/ ~opens)
  /\ UNCHANGED <<gz, job, today, mode, queue, stamp, pruned, dropped, recorded, encoded,
                 before, flushed, late>>

\* Mutant of TickRotates: only a line makes the file change.
TickNeverRotates == FALSE

\* onTick on another day.
TickRotates ==
  /\ Ticking /\ writer.open # None /\ today # writer.day
  /\ RotateTo(today, {})
  /\ UNCHANGED <<today, mode, queue, stamp, pruned, dropped, recorded, encoded, before, late>>

\* onTick on the file's day: flush, and Prune once a day.
TickFlushes ==
  /\ Ticking /\ writer.open # None /\ today = writer.day
  /\ \E ok \in FlushEnds :
       /\ Flushing(ok)
       /\ writer' = [writer EXCEPT !.buf = {}, !.broken = ~ok]
       /\ faulty' = (faulty \/ ~ok)
  /\ IF pruned # today
       THEN plain' = Pruned(today, plain) /\ gz' = PrunedGz(today) /\ pruned' = today
       ELSE UNCHANGED <<plain, gz, pruned>>
  /\ UNCHANGED <<job, today, mode, queue, stamp, dropped, recorded, encoded, before, late>>

\* The writer sees that Stop was called and drains the queue,
Drain ==
  /\ writer.at = "select" /\ mode = "stopping"
  /\ mode' = "draining"
  /\ UNCHANGED <<fileVars, today, queue, stamp, writer, pruned, dropped, historyVars>>

\* Mutant of Finish: the writer returns without draining the queue.
FinishAtOnce ==
  /\ writer.at = "select" /\ mode = "draining"
  /\ \E ok \in FlushEnds : Flushing(ok) /\ faulty' = (faulty \/ ~ok)
  /\ writer' = Fresh /\ mode' = "done"
  /\ UNCHANGED <<plain, gz, job, today, queue, stamp, pruned, dropped, recorded, encoded,
                 before, late>>

\* finds it empty, closes the file and returns.
Finish ==
  /\ writer.at = "select" /\ mode = "draining" /\ queue = << >>
  /\ \E ok \in FlushEnds : Flushing(ok) /\ faulty' = (faulty \/ ~ok)
  /\ writer' = Fresh /\ mode' = "done"
  /\ UNCHANGED <<plain, gz, job, today, queue, stamp, pruned, dropped, recorded, encoded,
                 before, late>>

-----------------------------------------------------------------------------
(* The process and its surroundings *)

Midnight ==
  /\ today < LastDay
  /\ today' = today + 1
  /\ UNCHANGED <<fileVars, mode, queue, stamp, writer, pruned, dropped, historyVars>>

Stop ==
  /\ mode = "run"
  /\ mode' = "stopping" /\ before' = recorded
  /\ UNCHANGED <<fileVars, today, queue, stamp, writer, pruned, dropped, recorded, encoded,
                 flushed, late, faulty>>

\* The process exits or crashes: only the files remain.
Die ==
  /\ Up
  /\ mode' = "down"
  /\ queue' = << >> /\ writer' = Fresh /\ pruned' = None /\ dropped' = 0
  /\ recorded' = {} /\ encoded' = {} /\ before' = {}
  /\ job' = [j \in Job |-> NoJob]
  /\ UNCHANGED <<plain, data, gz, today, stamp, flushed, late, faulty>>

\* Mutant of StaleAtStart: the start leaves alone what a crash left behind.
StaleNothing == {}

StaleAtStart == StaleDays(today)

\* New: Prune, then a Compress for each day a crash left behind.
Restart ==
  /\ mode = "down"
  /\ Cardinality(StaleAtStart) <= Cardinality(IdleJobs)
  /\ mode' = "run"
  /\ plain' = Pruned(today, plain) /\ gz' = PrunedGz(today)
  /\ job' = Launched(StaleAtStart)
  /\ UNCHANGED <<data, today, queue, stamp, writer, pruned, dropped, historyVars>>

Compressing(j) ==
  /\ CompressStep(j)
  /\ UNCHANGED <<today, mode, queue, stamp, writer, pruned, dropped, historyVars>>

Failing(j) ==
  /\ CompressFails(j)
  /\ faulty' = TRUE
  /\ UNCHANGED <<today, mode, queue, stamp, writer, pruned, dropped, recorded, encoded,
                 before, flushed, late>>

-----------------------------------------------------------------------------
WriterStep == Take \/ Encode \/ EncodeFails \/ EncodeSpills \/ Prune \/ Drain \/ Finish
Tick == TickOpens \/ TickRotates \/ TickFlushes

Next ==
  \/ \E e \in Line : Record(e)
  \/ WriterStep \/ Tick
  \/ \E j \in Job : Compressing(j) \/ Failing(j)
  \/ Midnight \/ Stop \/ Die \/ Restart

Spec == Init /\ [][Next]_vars

\* The writer goroutine runs, its ticker fires, and so do the goroutines of
\* Compress run.
FairSpec ==
  /\ Spec
  /\ WF_vars(WriterStep) /\ SF_vars(Tick)
  /\ \A j \in Job : WF_vars(Compressing(j))

-----------------------------------------------------------------------------
(* Properties *)

\* Every variable has its type.
LogTypeOK ==
  /\ FilesTypeOK
  /\ today \in Day /\ mode \in Modes
  /\ queue \in Seq(Line) /\ Len(queue) <= QueueSize
  /\ stamp \in [Line -> Day \cup {None}]
  /\ writer \in [at : Places, day : Day \cup {None}, open : Inode \cup {None},
                 hand : SUBSET Line, buf : SUBSET Line, broken : BOOLEAN]
  /\ pruned \in Day \cup {None} /\ dropped \in Nat
  /\ recorded \in SUBSET Line /\ encoded \in SUBSET Line /\ before \in SUBSET Line
  /\ flushed \in SUBSET Line /\ late \in BOOLEAN /\ faulty \in BOOLEAN

Queued == {queue[i] : i \in 1 .. Len(queue)}

\* "Dropped reports how many entries were lost to a full queue or a failed
\* open": every line recorded is still on its way, or reached the buffer of a
\* file, or is counted, once.
Accounted ==
  Cardinality(recorded)
    = Len(queue) + Cardinality(writer.hand) + Cardinality(encoded) + dropped

\* "Flush what was recorded before Stop": when Stop returns, none of those
\* lines is left behind, whatever the writer was doing, unless a file failed.
StopFlushes ==
  mode = "done" => /\ before \cap Queued = {}
                   /\ faulty \/ before \cap encoded \subseteq flushed

Retained(e) == stamp[e] >= today - KeepDays

\* As long as lines reach the writer in the order of their days, a line that
\* was written is found again, plain or compressed, for as long as it is to be
\* kept: through rotations, failures of any file operation, crashes and restarts.
KeptInOrder ==
  ~late => \A e \in flushed : Retained(e) => e \in LinesOf(stamp[e])

\* "A queued entry consumed after a rollover still lands in the file matching
\* the printed timestamp" (write's comment): and is found there, with the lines
\* that were there before, as long as no file operation failed.
LateLineKept ==
  ~faulty => \A e \in flushed : Retained(e) => e \in LinesOf(stamp[e])

\* The writer has the file of a day that is over open.
DayOver(d) == mode = "run" /\ writer.open # None /\ writer.day = d /\ d < today

\* "At day rollover the previous day's file is gzip-compressed in the
\* background" (README, Request log): the plain file goes, while the process runs
\* and no file operation fails, also when late lines open it again.
DayCompressed ==
  \A d \in Day : DayOver(d) ~> (plain[d] = None \/ mode # "run" \/ faulty)

\* "SweepStale compresses plain files left behind by a crash": what a process
\* that is down leaves of a finished day is gone once a process keeps running
\* and no file operation fails.
LeftoverCompressed ==
  <>[](mode = "run" /\ ~faulty) =>
    \A d \in Day : (mode = "down" /\ d < today) ~> (plain[d] = None)
=============================================================================
