-------------------------- MODULE DailyFileProofs --------------------------
(***************************************************************************)
(* What the proofs about the request log and the client statistics share:  *)
(* the files keep their types through Compress, Prune and SweepStale, and  *)
(* Compress loses nothing as long as one goroutine of it is at a day.      *)
(***************************************************************************)
EXTENDS DailyFile, WellFoundedInduction, TLAPS

JobType == [at : JobStep, day : Day, file : Inode \cup {None}]
GzType == [made : BOOLEAN, whole : BOOLEAN, alone : BOOLEAN, lines : SUBSET Line]

\* A goroutine of Compress that is past its open has a file.
Sourced == \A j \in Job : job[j].at \in {"create", "copy", "remove"} => job[j].file # None

USE DailyFileAssumption

\* The file that an open takes, the least that is free, exists.
LEMMA LeastExists ==
  ASSUME NEW S, S \subseteq Nat, S # {}
  PROVE  \E m \in S : \A k \in S : m <= k
<1>1. PICK m \in S : \A k \in S : ~ (<<k, m>> \in OpToRel(<, Nat))
  BY NatLessThanWellFounded, WFMin, Zenon
<1>2. ASSUME NEW k \in S PROVE m <= k
  <2>1. ~ (k < m) BY <1>1 DEF OpToRel
  <2> QED BY <2>1
<1> QED BY <1>2

\* Prune leaves files of their type.
LEMMA PruneTypes ==
  ASSUME FilesTypeOK, NEW d
  PROVE  /\ Pruned(d, plain) \in [Day -> Inode \cup {None}]
         /\ PrunedGz(d) \in [Day -> GzType]
BY DEF FilesTypeOK, Pruned, PrunedGz, NoGz, GzType

\* What is expired stays so.
LEMMA ExpiresOnce ==
  ASSUME NEW a \in Int, NEW b \in Int, a <= b, NEW d \in Int, Expired(d, a)
  PROVE  Expired(d, b)
<1>1. KeepDays \in Int /\ d < a - KeepDays
  BY DEF Expired
<1>2. \A k \in Int : d < a - k => d < b - k
  OBVIOUS
<1> QED BY <1>1, <1>2 DEF Expired

\* Whichever goroutines get them, the days go to goroutines of Compress.
LEMMA LaunchTypes ==
  ASSUME job \in [Job -> JobType], Sourced, NEW ds \in SUBSET Day, job' = Launched(ds)
  PROVE  job' \in [Job -> JobType] /\ Sourced'
<1> DEFINE m == CHOOSE m \in Injection(ds, IdleJobs) : TRUE
           one(j) == IF \E d \in ds : m[d] = j
                       THEN [NoJob EXCEPT !.at = "open", !.day = CHOOSE d \in ds : m[d] = j]
                       ELSE job[j]
<1>1. Launched(ds) = [j \in Job |-> one(j)] BY DEF Launched
<1> HIDE DEF m
<1>2. ASSUME NEW j \in Job
      PROVE  /\ one(j) \in JobType
             /\ one(j).at \in {"create", "copy", "remove"} => one(j).file # None
  <2>1. CASE \E d \in ds : m[d] = j
    <3>1. (CHOOSE d \in ds : m[d] = j) \in Day BY <2>1
    <3> QED BY <2>1, <3>1 DEF NoJob, JobStep, JobType
  <2>2. CASE ~ \E d \in ds : m[d] = j
    BY <2>2 DEF Sourced
  <2> QED BY <2>1, <2>2
<1> HIDE DEF one
<1>3. job' = [j \in Job |-> one(j)] BY <1>1
<1> QED BY <1>2, <1>3 DEF Sourced

\* A goroutine that steps on.
LEMMA StepTypes ==
  ASSUME job \in [Job -> JobType], Sourced, NEW j \in Job,
         NEW next \in JobStep, NEW file \in Inode \cup {None},
         next \in {"create", "copy", "remove"} => file # None,
         job' = [job EXCEPT ![j] = [@ EXCEPT !.at = next, !.file = file]]
  PROVE  job' \in [Job -> JobType] /\ Sourced'
<1>1. ASSUME NEW k \in Job PROVE /\ job'[k] \in JobType
                                 /\ job'[k].at \in {"create", "copy", "remove"} => job'[k].file # None
  BY DEF JobType, Sourced
<1> QED BY <1>1 DEF Sourced

\* One that ends.
LEMMA QuitTypes ==
  ASSUME job \in [Job -> JobType], Sourced, NEW j \in Job, Quit(j)
  PROVE  job' \in [Job -> JobType] /\ Sourced'
<1>1. NoJob \in JobType /\ NoJob.at = "idle" BY DEF NoJob, JobType, JobStep, Day
<1>2. job' = [job EXCEPT ![j] = NoJob] BY DEF Quit
<1> HIDE DEF NoJob
<1> QED BY <1>1, <1>2 DEF Sourced

\* A goroutine of Compress keeps the types, and has a source once it is past
\* its open.
LEMMA CompressTypes ==
  ASSUME FilesTypeOK, Sourced, NEW j \in Job, CompressStep(j) \/ CompressFails(j)
  PROVE  FilesTypeOK' /\ Sourced'
<1>0. /\ plain \in [Day -> Inode \cup {None}] /\ data \in [Inode -> SUBSET Line]
      /\ gz \in [Day -> GzType] /\ job \in [Job -> JobType]
  BY DEF FilesTypeOK, GzType, JobType
<1>d. job[j].day \in Day /\ job[j].file \in Inode \cup {None} /\ job[j].at \in JobStep
  BY <1>0 DEF JobType
<1> SUFFICES /\ plain' \in [Day -> Inode \cup {None}] /\ data' \in [Inode -> SUBSET Line]
             /\ gz' \in [Day -> GzType] /\ job' \in [Job -> JobType] /\ Sourced'
  BY DEF FilesTypeOK, GzType, JobType
<1>1. CASE CompressOpen(j)
  <2>1. UNCHANGED <<plain, data, gz>> BY <1>1 DEF CompressOpen
  <2>2. CASE plain[job[j].day] = None
    BY <1>0, <1>1, <2>1, <2>2, QuitTypes DEF CompressOpen
  <2>3. CASE plain[job[j].day] # None
    <3>1. job' = [job EXCEPT ![j] = [@ EXCEPT !.at = "create", !.file = plain[job[j].day]]]
      BY <1>0, <1>1, <2>3 DEF CompressOpen, JobType
    <3>2. plain[job[j].day] \in Inode \cup {None} /\ "create" \in JobStep
      BY <1>0, <1>d DEF JobStep
    <3>3. job' \in [Job -> JobType] /\ Sourced'
      BY <1>0, <2>3, <3>1, <3>2, StepTypes
    <3> QED BY <1>0, <2>1, <3>3
  <2> QED BY <2>2, <2>3
<1>s. ASSUME NEW next \in JobStep, Step(j, next), job[j].at \in {"create", "copy", "remove"}
      PROVE  job' \in [Job -> JobType] /\ Sourced'
  <2>0. [job[j] EXCEPT !.at = next] = [job[j] EXCEPT !.at = next, !.file = job[j].file]
    BY <1>0 DEF JobType
  <2>1. job' = [job EXCEPT ![j] = [@ EXCEPT !.at = next, !.file = job[j].file]]
    BY <1>s, <2>0 DEF Step
  <2>2. job[j].file # None BY <1>s DEF Sourced
  <2> QED BY <1>0, <1>d, <2>1, <2>2, StepTypes
<1>2. CASE CompressCreate(j)
  <2>1. Step(j, "copy") /\ job[j].at = "create" /\ UNCHANGED <<plain, data>> BY <1>2 DEF CompressCreate
  <2>2. "copy" \in JobStep BY DEF JobStep
  <2>3. job' \in [Job -> JobType] /\ Sourced' BY <1>s, <2>1, <2>2
  <2>4. gz' \in [Day -> GzType] BY <1>0, <1>2 DEF CompressCreate, NoGz, GzType
  <2> QED BY <1>0, <2>1, <2>3, <2>4
<1>3. CASE CompressCopy(j)
  <2>1. Step(j, "remove") /\ job[j].at = "copy" /\ UNCHANGED <<plain, data>> BY <1>3 DEF CompressCopy
  <2>2. "remove" \in JobStep BY DEF JobStep
  <2>3. job' \in [Job -> JobType] /\ Sourced' BY <1>s, <2>1, <2>2
  <2>4. data[job[j].file] \in SUBSET Line BY <1>0, <1>d, <2>1 DEF Sourced
  <2>5. PICK whole \in BOOLEAN :
          gz' = IF gz[job[j].day].made
                  THEN [gz EXCEPT ![job[j].day].whole = whole,
                                  ![job[j].day].lines = data[job[j].file]]
                  ELSE gz
    BY <1>3, Zenon DEF CompressCopy
  <2>6. [gz[job[j].day] EXCEPT !.whole = whole, !.lines = data[job[j].file]] \in GzType
    BY <1>0, <1>d, <2>4 DEF GzType
  <2>7. gz' = IF gz[job[j].day].made
                THEN [gz EXCEPT ![job[j].day] =
                       [@ EXCEPT !.whole = whole, !.lines = data[job[j].file]]]
                ELSE gz
    BY <1>0, <1>d, <2>5
  <2>8. gz' \in [Day -> GzType] BY <1>0, <1>d, <2>6, <2>7
  <2> QED BY <1>0, <2>1, <2>3, <2>8
<1>4. CASE CompressRemove(j)
  <2>1. Quit(j) /\ UNCHANGED <<data, gz>> /\ plain' = [plain EXCEPT ![job[j].day] = None]
    BY <1>4 DEF CompressRemove
  <2> QED BY <1>0, <1>d, <2>1, QuitTypes
<1>5. CASE CompressFails(j)
  <2>1. Quit(j) /\ UNCHANGED <<plain, data, gz>> BY <1>5 DEF CompressFails
  <2> QED BY <1>0, <2>1, QuitTypes
<1> QED BY <1>1, <1>2, <1>3, <1>4, <1>5 DEF CompressStep

\* The goroutines of Compress that are launched have a day of
\* their own each, and no file yet.
LEMMA Launches ==
  ASSUME job \in [Job -> JobType], NEW ds \in SUBSET Day, job' = Launched(ds)
  PROVE  \E new \in SUBSET Job :
           /\ \A j \in new : /\ job'[j].at = "open" /\ job'[j].file = None
                             /\ job'[j].day \in ds
                             /\ \A k \in new : job'[k].day = job'[j].day => k = j
           /\ \A j \in Job \ new : job'[j] = job[j]
<1> DEFINE m == CHOOSE m \in Injection(ds, IdleJobs) : TRUE
           of(j) == CHOOSE d \in ds : m[d] = j
           new == {j \in Job : \E d \in ds : m[d] = j}
           one(j) == IF \E d \in ds : m[d] = j
                       THEN [NoJob EXCEPT !.at = "open", !.day = of(j)] ELSE job[j]
<1>1. job' = [j \in Job |-> one(j)]
  BY DEF Launched
<1> HIDE DEF m
<1>2. ASSUME NEW j \in new
      PROVE  /\ one(j).at = "open" /\ one(j).file = None
             /\ one(j).day = of(j) /\ of(j) \in ds /\ m[of(j)] = j
  BY DEF NoJob
<1>3. ASSUME NEW j \in Job \ new PROVE one(j) = job[j]
  OBVIOUS
<1> HIDE DEF one, of
<1>4. \A j \in Job : job'[j] = one(j)
  BY <1>1
<1>5. new \in SUBSET Job
  OBVIOUS
<1> HIDE DEF new
<1>6. \A j, k \in new : job'[k].day = job'[j].day => k = j
  BY <1>2, <1>4, <1>5
<1> QED BY <1>2, <1>3, <1>4, <1>5, <1>6

\* What a goroutine of Compress does: it goes on with its day, or ends; it makes
\* and fills the twin of that day, and removes its source.
LEMMA CompressFrame ==
  ASSUME FilesTypeOK, NEW j \in Job, CompressStep(j) \/ CompressFails(j)
  PROVE  /\ data' = data
         /\ \A d \in Day : \/ plain'[d] = plain[d]
                           \/ /\ \E k \in Job : job[k].at # "idle" /\ job[k].day = d
                              /\ plain'[d] = None
         /\ \A k \in Job : job'[k].at # "idle" =>
              job[k].at # "idle" /\ job'[k].day = job[k].day
         /\ \A d \in Day :
              \/ gz'[d] = gz[d]
              \/ /\ \E k \in Job : job[k].at # "idle" /\ job[k].day = d
                 /\ gz'[d].made /\ (gz'[d].whole => gz[d].made)
<1>0. /\ plain \in [Day -> Inode \cup {None}] /\ gz \in [Day -> GzType]
      /\ job \in [Job -> JobType]
  BY DEF FilesTypeOK, GzType, JobType
<1>3. job[j].day \in Day
  BY <1>0 DEF JobType
<1>4. CASE CompressFails(j) \/ CompressRemove(j)
  BY <1>0, <1>4 DEF CompressFails, CompressRemove, Quit, NoJob
<1>5. CASE CompressOpen(j)
  <2>1. CASE plain[job[j].day] = None
    BY <1>0, <1>5, <2>1 DEF CompressOpen, Quit, NoJob
  <2>2. CASE plain[job[j].day] # None
    BY <1>0, <1>5, <2>2 DEF CompressOpen, JobType
  <2> QED BY <2>1, <2>2
<1>6. CASE CompressCreate(j)
  <2>1. \A k \in Job : job'[k].at # "idle" =>
          job[k].at # "idle" /\ job'[k].day = job[k].day
    BY <1>0, <1>6 DEF CompressCreate, Step, JobType
  <2>2. \A d \in Day \ {job[j].day} : gz'[d] = gz[d]
    BY <1>0, <1>6 DEF CompressCreate
  <2>3. gz'[job[j].day].made /\ ~ gz'[job[j].day].whole
    BY <1>0, <1>3, <1>6 DEF CompressCreate, NoGz
  <2>4. job[j].at # "idle" /\ UNCHANGED <<plain, data>>
    BY <1>6 DEF CompressCreate
  <2> QED BY <2>1, <2>2, <2>3, <2>4
<1>7. CASE CompressCopy(j)
  <2>1. \A k \in Job : job'[k].at # "idle" =>
          job[k].at # "idle" /\ job'[k].day = job[k].day
    BY <1>0, <1>7 DEF CompressCopy, Step, JobType
  <2>2. PICK whole \in BOOLEAN :
          gz' = IF gz[job[j].day].made
                  THEN [gz EXCEPT ![job[j].day].whole = whole,
                                  ![job[j].day].lines = data[job[j].file]]
                  ELSE gz
    BY <1>7, Zenon DEF CompressCopy
  <2>3. \A d \in Day \ {job[j].day} : gz'[d] = gz[d]
    BY <1>0, <2>2
  <2>4. gz' = gz \/ (gz[job[j].day].made /\ gz'[job[j].day].made)
    BY <1>0, <1>3, <2>2 DEF GzType
  <2>5. job[j].at # "idle" /\ UNCHANGED <<plain, data>>
    BY <1>7 DEF CompressCopy
  <2> QED BY <2>1, <2>3, <2>4, <2>5
<1> QED BY <1>4, <1>5, <1>6, <1>7 DEF CompressStep

-----------------------------------------------------------------------------
(* What is stored for a day is kept *)

\* The goroutines of Compress have a day each.
Lone == \A j, k \in Job :
          job[j].at # "idle" /\ job[k].at # "idle" /\ job[k].day = job[j].day => k = j

\* What is to be found of a day is in its plain file, or is nothing, or is
\* compressed.
Stored(d, s) ==
  \/ plain[d] # None /\ s \subseteq data[plain[d]]
  \/ plain[d] = None /\ s = {}
  \/ plain[d] = None /\ gz[d].whole /\ s \subseteq gz[d].lines

\* A goroutine of Compress reads the day's plain file, has the twin for itself,
\* and removes the file once the twin has all of it.
Faithful(j) ==
  /\ job[j].at \in {"create", "copy", "remove"} => job[j].file = plain[job[j].day]
  /\ job[j].at = "copy" => gz[job[j].day].made /\ gz[job[j].day].alone
  /\ job[j].at = "remove" => /\ gz[job[j].day].whole
                             /\ data[job[j].file] \subseteq gz[job[j].day].lines

\* A goroutine of Compress removes the day's file after a copy that nobody else
\* has touched.
LEMMA CompressKeeps ==
  ASSUME FilesTypeOK, Sourced, Lone, NEW j \in Job, CompressStep(j) \/ CompressFails(j),
         NEW S, NEW L \in SUBSET Day,
         \A d \in L : Stored(d, S[d]),
         \A k \in Job : job[k].day \in L => Faithful(k)
  PROVE  /\ \A d \in L : Stored(d, S[d])'
         /\ \A k \in Job : job'[k].day \in L => Faithful(k)'
<1>0. /\ plain \in [Day -> Inode \cup {None}] /\ gz \in [Day -> GzType]
      /\ job \in [Job -> JobType]
  BY DEF FilesTypeOK, GzType, JobType
<1>2. data' = data
  BY CompressFrame
<1>3. PICK D \in Day : D = job[j].day /\ job[j].at # "idle"
  BY <1>0, <1>2 DEF JobType, CompressStep, CompressOpen, CompressCreate, CompressCopy,
                    CompressRemove, CompressFails
<1> USE <1>3
<1>4. \A k \in Job \ {j} : job[k].at # "idle" => job[k].day # D
  BY <1>3 DEF Lone
<1>5. /\ \A k \in Job \ {j} : job'[k] = job[k]
      /\ \A d \in Day \ {D} : plain'[d] = plain[d] /\ gz'[d] = gz[d]
  <2>1. CASE CompressOpen(j)
    BY <1>0, <2>1 DEF CompressOpen, Quit
  <2>2. CASE CompressCreate(j)
    BY <1>0, <2>2 DEF CompressCreate, Step
  <2>3. CASE CompressCopy(j)
    <3>1. PICK whole \in BOOLEAN :
            gz' = IF gz[job[j].day].made
                    THEN [gz EXCEPT ![job[j].day].whole = whole,
                                    ![job[j].day].lines = data[job[j].file]]
                    ELSE gz
      BY <2>3, Zenon DEF CompressCopy
    <3> QED BY <1>0, <2>3, <3>1 DEF CompressCopy, Step
  <2>4. CASE CompressRemove(j) \/ CompressFails(j)
    BY <1>0, <2>4 DEF CompressRemove, CompressFails, Quit
  <2> QED BY <1>2, <2>1, <2>2, <2>3, <2>4 DEF CompressStep
<1>6. D \in L => /\ Stored(D, S[D]) /\ Faithful(j)
                 /\ job[j].at \in {"create", "copy", "remove"} =>
                      plain[D] = job[j].file /\ plain[D] # None
  BY <1>3 DEF Faithful, Sourced
<1>7. ASSUME D \in L
      PROVE  /\ Stored(D, S[D])'
             /\ job'[j].day = D \/ job'[j].at = "idle"
             /\ Faithful(j)'
  <2> USE <1>6, <1>7
  <2>1. CASE CompressFails(j)
    <3>1. job'[j].at = "idle" /\ UNCHANGED <<plain, gz>>
      BY <1>0, <2>1 DEF CompressFails, Quit, NoJob
    <3> QED BY <1>2, <3>1 DEF Stored, Faithful
  <2>2. CASE CompressOpen(j)
    <3>1. UNCHANGED <<plain, gz>>
      BY <2>2 DEF CompressOpen
    <3>2. CASE plain[D] = None
      <4>1. job'[j].at = "idle"
        BY <1>0, <2>2, <3>2 DEF CompressOpen, Quit, NoJob
      <4> QED BY <1>2, <3>1, <4>1 DEF Stored, Faithful
    <3>3. CASE plain[D] # None
      <4>1. job'[j].at = "create" /\ job'[j].day = D /\ job'[j].file = plain[D]
        BY <1>0, <2>2, <3>3 DEF CompressOpen, JobType
      <4> QED BY <1>2, <3>1, <4>1 DEF Stored, Faithful
    <3> QED BY <3>2, <3>3
  <2>3. CASE CompressCreate(j)
    <3>1. /\ plain' = plain /\ job[j].at = "create"
          /\ job'[j].at = "copy" /\ job'[j].day = D /\ job'[j].file = job[j].file
      BY <1>0, <2>3 DEF CompressCreate, Step, JobType
    <3>2. \A k \in Job : job[k].at = "copy" => job[k].day # D
      BY <1>4, <3>1
    <3>3. gz'[D].made /\ gz'[D].alone
      <4> DEFINE alone == \A k \in Job : job[k].at = "copy" => job[k].day # job[j].day
      <4>1. gz' = [gz EXCEPT ![job[j].day] = [NoGz EXCEPT !.made = TRUE, !.alone = alone]]
        BY <2>3 DEF CompressCreate
      <4>2. alone
        BY <3>2
      <4> HIDE DEF alone
      <4> QED BY <1>0, <1>3, <4>1, <4>2 DEF NoGz
    <3> QED BY <1>2, <3>1, <3>3 DEF Stored, Faithful
  <2>4. CASE CompressCopy(j)
    <3>1. PICK whole \in BOOLEAN :
            /\ gz[job[j].day].alone => whole
            /\ gz' = IF gz[job[j].day].made
                       THEN [gz EXCEPT ![job[j].day].whole = whole,
                                       ![job[j].day].lines = data[job[j].file]]
                       ELSE gz
      BY <2>4, Zenon DEF CompressCopy
    <3>2. /\ plain' = plain /\ job[j].at = "copy"
          /\ job'[j].at = "remove" /\ job'[j].day = D /\ job'[j].file = job[j].file
      BY <1>0, <2>4 DEF CompressCopy, Step, JobType
    <3>3. gz[D].made /\ gz[D].alone
      BY <3>2 DEF Faithful
    <3>4. gz'[D].whole = whole /\ gz'[D].lines = data[job[j].file]
      BY <1>0, <3>1, <3>3 DEF GzType
    <3>5. whole
      BY <3>1, <3>3
    <3>6. gz'[D].whole
      BY <3>4, <3>5, Zenon
    <3> QED BY <1>2, <3>2, <3>4, <3>6 DEF Stored, Faithful
  <2>5. CASE CompressRemove(j)
    <3>1. /\ plain'[D] = None /\ gz' = gz /\ job[j].at = "remove" /\ job'[j].at = "idle"
      BY <1>0, <1>3, <2>5 DEF CompressRemove, Quit, NoJob
    <3>2. /\ gz[D].whole /\ data[job[j].file] \subseteq gz[D].lines
          /\ S[D] \subseteq data[job[j].file]
      BY <3>1 DEF Faithful, Stored
    <3> QED BY <1>2, <3>1, <3>2 DEF Stored, Faithful
  <2> QED BY <1>2, <2>1, <2>2, <2>3, <2>4, <2>5 DEF CompressStep
<1>8. ASSUME NEW d \in L PROVE Stored(d, S[d])'
  <2>1. CASE d = D
    BY <1>7, <1>8, <2>1
  <2>2. CASE d # D
    BY <1>2, <1>5, <1>8, <2>2 DEF Stored
  <2> QED BY <2>1, <2>2
<1>9. ASSUME NEW k \in Job, job'[k].day \in L PROVE Faithful(k)'
  <2>1. CASE k = j
    <3>1. job'[j].at = "idle" => Faithful(j)'
      BY DEF Faithful
    <3>2. job'[j].day = D \/ job'[j].at = "idle"
      BY CompressFrame
    <3> QED BY <1>7, <1>9, <2>1, <3>1, <3>2
  <2>2. CASE k # j
    <3>1. job'[k] = job[k] /\ job[k].day \in Day /\ Faithful(k)
      BY <1>0, <1>5, <1>9, <2>2 DEF JobType
    <3>2. CASE job[k].at = "idle"
      BY <3>1, <3>2 DEF Faithful
    <3>3. CASE job[k].at # "idle"
      <4>1. plain'[job[k].day] = plain[job[k].day] /\ gz'[job[k].day] = gz[job[k].day]
        BY <1>4, <1>5, <2>2, <3>1, <3>3
      <4> QED BY <1>2, <3>1, <4>1 DEF Faithful
    <3> QED BY <3>2, <3>3
  <2> QED BY <2>1, <2>2
<1> QED BY <1>8, <1>9
=============================================================================
