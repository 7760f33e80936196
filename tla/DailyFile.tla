----------------------------- MODULE DailyFile -----------------------------
(***************************************************************************)
(* The files of internal/dailyfile/dailyfile.go: one plain file per day,   *)
(* its compressed twin, and the goroutines that make the one out of the    *)
(* other.  A name and the file it stands for are different things here, as *)
(* they are for the code: a file that was removed or replaced lives on for *)
(* whoever has it open.                                                    *)
(*                                                                         *)
(* A file's content is the set of lines in it.  A goroutine of Compress    *)
(* takes a step per file operation, each of which may fail.                *)
(***************************************************************************)
EXTENDS Integers, FiniteSets, Functions

CONSTANTS LastDay,  \* bound on the days
          KeepDays, \* RetentionDays
          Line,     \* what the files are made of
          Inodes,   \* bound on the files that exist or are open at a time
          Jobs      \* bound on the Compress goroutines at a time

ASSUME DailyFileAssumption ==
  /\ LastDay \in Nat \ {0} /\ KeepDays \in Nat \ {0}
  /\ Inodes \in Nat \ {0} /\ Jobs \in Nat

VARIABLES
  plain, \* per day: the file under the plain name, or None
  data,  \* per file: the lines in it
  gz,    \* per day: the compressed twin: made, the lines its stream was given
         \* (lines), that the stream is complete (whole), and that no other
         \* goroutine had it open when it was last truncated (alone)
  job    \* per Compress goroutine: its next step (at), its day, the file it
         \* has open (file)

fileVars == <<plain, data, gz, job>>

Day   == 1 .. LastDay
Inode == 1 .. Inodes
Job   == 1 .. Jobs
None  == 0

NoGz    == [made |-> FALSE, whole |-> FALSE, alone |-> FALSE, lines |-> {}]
NoJob   == [at |-> "idle", day |-> 1, file |-> None]
JobStep == {"idle", "open", "create", "copy", "remove"}

FilesInit ==
  /\ plain = [d \in Day |-> None]
  /\ data = [i \in Inode |-> {}]
  /\ gz = [d \in Day |-> NoGz]
  /\ job = [j \in Job |-> NoJob]

\* The files named on disk or open in a goroutine of Compress.
InUse == {plain[d] : d \in Day} \cup {job[j].file : j \in Job}

IdleJobs == {j \in Job : job[j].at = "idle"}

\* The jobs after `go Compress` for each day of ds; there must be idle ones for
\* them.
Launched(ds) ==
  LET m == CHOOSE m \in Injection(ds, IdleJobs) : TRUE IN
  [j \in Job |-> IF \E d \in ds : m[d] = j
                   THEN [NoJob EXCEPT !.at = "open", !.day = CHOOSE d \in ds : m[d] = j]
                   ELSE job[j]]

\* Mutant of Expired: a day too early.
ExpiredEarly(d, today) == d <= today - KeepDays

\* What Prune deletes, called on day `today`.
Expired(d, today) == d < today - KeepDays

Pruned(today, names) == [d \in Day |-> IF Expired(d, today) THEN None ELSE names[d]]
PrunedGz(today)      == [d \in Day |-> IF Expired(d, today) THEN NoGz ELSE gz[d]]

\* The days SweepStale starts a Compress for, after Prune.
StaleDays(today) == {d \in Day : plain[d] # None /\ d # today /\ ~Expired(d, today)}

-----------------------------------------------------------------------------
(* Compress *)

Step(j, next) == job' = [job EXCEPT ![j].at = next]
Quit(j)       == job' = [job EXCEPT ![j] = NoJob]

\* os.Open(src)
CompressOpen(j) ==
  /\ job[j].at = "open"
  /\ IF plain[job[j].day] = None
       THEN Quit(j)
       ELSE job' = [job EXCEPT ![j].at = "create", ![j].file = plain[job[j].day]]
  /\ UNCHANGED <<plain, data, gz>>

\* os.Create(src + ".gz"), which truncates the twin that is there.
CompressCreate(j) ==
  /\ job[j].at = "create"
  /\ gz' = [gz EXCEPT ![job[j].day] =
             [NoGz EXCEPT !.made = TRUE,
                          !.alone = \A k \in Job : job[k].at = "copy" => job[k].day # job[j].day]]
  /\ Step(j, "copy")
  /\ UNCHANGED <<plain, data>>

\* io.Copy, and both closes of the twin, unless Prune has removed it.  Two
\* goroutines that write the same twin may leave anything in it.
CompressCopy(j) ==
  LET d == job[j].day IN
  /\ job[j].at = "copy"
  /\ \E whole \in BOOLEAN :
       /\ gz[d].alone => whole
       /\ gz' = IF gz[d].made
                  THEN [gz EXCEPT ![d].whole = whole, ![d].lines = data[job[j].file]]
                  ELSE gz
  /\ Step(j, "remove")
  /\ UNCHANGED <<plain, data>>

\* Mutant of CompressFails: the source is removed although the copy failed.
CompressFailsRemoving(j) ==
  /\ job[j].at \in {"create", "copy"}
  /\ Step(j, "remove")
  /\ UNCHANGED <<plain, data, gz>>

\* A file operation fails: what is there of the twin stays, and so does the
\* source.
CompressFails(j) ==
  /\ job[j].at # "idle"
  /\ Quit(j)
  /\ UNCHANGED <<plain, data, gz>>

\* os.Remove(src), which takes whatever file has the name by now.
CompressRemove(j) ==
  /\ job[j].at = "remove"
  /\ plain' = [plain EXCEPT ![job[j].day] = None]
  /\ Quit(j)
  /\ UNCHANGED <<data, gz>>

CompressStep(j) ==
  CompressOpen(j) \/ CompressCreate(j) \/ CompressCopy(j) \/ CompressRemove(j)

-----------------------------------------------------------------------------

FilesTypeOK ==
  /\ plain \in [Day -> Inode \cup {None}]
  /\ data \in [Inode -> SUBSET Line]
  /\ gz \in [Day -> [made : BOOLEAN, whole : BOOLEAN, alone : BOOLEAN, lines : SUBSET Line]]
  /\ job \in [Job -> [at : JobStep, day : Day, file : Inode \cup {None}]]

\* The lines a reader finds for day d: in the plain file, or in the compressed
\* one if its stream is complete.
LinesOf(d) == (IF plain[d] # None THEN data[plain[d]] ELSE {})
                \cup (IF gz[d].whole THEN gz[d].lines ELSE {})
=============================================================================
