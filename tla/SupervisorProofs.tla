-------------------------- MODULE SupervisorProofs --------------------------
(***************************************************************************)
(* What Supervisor's properties say, for every set of listeners,           *)
(* configurations, entries and clients, and without bounds on edits, calls *)
(* and deaths.                                                             *)
(***************************************************************************)
EXTENDS Supervisor, TLAPS

(* NoBlockedSession is inductive beside the types, because a rebuild        *)
(* sweeps exactly what the list gains.  AddHolds is not: that a poll or a   *)
(* reload leaves a kept entry effective depends on what the file, the       *)
(* lines that the watcher holds and the configured entries had in common    *)
(* when the entry was acknowledged.                                         *)
Merged == effective = (cfgEntries \cup adds) \ dels
Exclusive == adds \cap dels = {} /\ promise.kept \cap dels = {}
HeldAdded == promise.held \subseteq adds
KeptInFile == promise.kept \subseteq file
Inherited == promise.kept \ promise.held
ReadInherits == watcher.at = "read" => Inherited \subseteq watcher.content
ListInherits == phase = "serving" /\ cfg.listed => Inherited \subseteq cfgEntries
Unconfigured == phase # "serving" => cfg = NoConfig

Kept == /\ Merged /\ Exclusive /\ HeldAdded /\ KeptInFile
        /\ ReadInherits /\ ListInherits /\ Unconfigured

Inv == SupervisorTypeOK /\ NoBlockedSession /\ Kept

USE BlacklistAssumption, SupervisorAssumption

-----------------------------------------------------------------------------
(* The operations of the blacklist *)

\* A rebuild over valid entries leaves the list merged, and no session of a
\* client that it blocks.
LEMMA RebuildMerges ==
  ASSUME NEW entries \in SUBSET Entry, NEW added \in SUBSET Entry,
         NEW deleted \in SUBSET Entry, NEW refresh \in BOOLEAN, NEW own,
         Rebuild(entries, added, deleted, refresh, own)
  PROVE  /\ adds' = added /\ cfgEntries' = entries
         /\ dels' \subseteq deleted
         /\ effective' \in SUBSET Entry
         /\ Merged'
         /\ sessions' \subseteq sessions
BY DEF Rebuild, Unioned, Merged

\* rebuildBlacklistLocked leaves no session of a blocked client, as it found none.
LEMMA RebuildSweeps ==
  ASSUME NEW entries, NEW added, NEW deleted, NEW refresh, NEW own,
         Rebuild(entries, added, deleted, refresh, own), NoBlockedSession
  PROVE  NoBlockedSession'
<1> DEFINE list == Unioned(entries, added, deleted, refresh)
<1>1. effective' = list /\ sessions' = sessions \ Swept(own \cup (list \ effective))
  BY DEF Rebuild, Newly
<1> SUFFICES ASSUME NEW s \in sessions', NEW e \in effective', s[2] \in Covers[e]
             PROVE  FALSE
  BY DEF NoBlockedSession, Blocked
<1>2. s \in sessions /\ s \notin Swept(own \cup (list \ effective))
  BY <1>1
<1>3. CASE e \in effective
  BY <1>2, <1>3 DEF NoBlockedSession, Blocked
<1>4. CASE e \notin effective
  BY <1>1, <1>2, <1>4 DEF Swept, Blocked
<1> QED BY <1>3, <1>4

\* Valid lines are entries.
LEMMA ValidLines ==
  ASSUME NEW lines \in Content, Valid(lines)
  PROVE  lines \in SUBSET Entry
<1>1. lines \in SUBSET Line BY DEF Content, Valid, Parses
<1>2. Crooked \notin lines /\ Unparsable \notin lines BY DEF Valid, Parses
<1>3. ASSUME NEW x \in lines PROVE x \in Entry BY <1>1, <1>2 DEF Line
<1> QED BY <1>3

\* Any write leaves a file of lines, and a watcher whose stat is old.
LEMMA WriteWrites ==
  ASSUME NEW content \in Content, Write(content)
  PROVE  /\ file' = content /\ file' \in Content /\ known' \in BOOLEAN
         /\ watcher' = [watcher EXCEPT !.fresh = FALSE]
BY DEF Write

\* listFileAdd keeps what the file had, and has the entry.
LEMMA ListFileAddAdds ==
  ASSUME NEW e \in Entry, file \in Content, known \in BOOLEAN, ListFileAdd(e)
  PROVE  /\ file' \in Content /\ known' \in BOOLEAN /\ e \in file'
         /\ \A x \in Entry : x \in file => x \in file'
         /\ \/ watcher' = watcher
            \/ watcher' = [watcher EXCEPT !.fresh = FALSE]
<1>1. CASE file = Missing /\ Write({e})
  <2>1. {e} \in Content BY DEF Content, Line
  <2>2. Absent \notin Entry BY DEF Line
  <2> QED BY <1>1, <2>1, <2>2, WriteWrites DEF Missing
<1>2. CASE Parses(file) /\ e \notin file /\ Write(file \cup {e})
  <2>1. file \cup {e} \in Content BY <1>2 DEF Content, Line, Parses
  <2> QED BY <1>2, <2>1, WriteWrites
<1>3. CASE Parses(file) /\ e \in file /\ UNCHANGED disk
  BY <1>3 DEF disk
<1> QED BY <1>1, <1>2, <1>3 DEF ListFileAdd

\* listFileRemove takes out the entry and nothing else.
LEMMA InFileRemoves ==
  ASSUME NEW e \in Entry, file \in Content, InFile(e)
  PROVE  file \ {e} \in Content
BY DEF InFile, Parses, Content

-----------------------------------------------------------------------------
(* Steps that leave the blacklist alone *)

\* Neither the list nor the file nor what they owe to earlier adds.
Still == UNCHANGED <<cfg, memory, file, watcher, promise>>

\* Such steps keep what the blacklist is about, if they create no session.
LEMMA StillKeeps ==
  ASSUME Inv, Still, sessions' \subseteq sessions,
         phase' = phase \/ (phase' = "starting" /\ cfg = NoConfig)
  PROVE  NoBlockedSession' /\ Kept'
<1>1. NoBlockedSession'
  BY DEF Inv, NoBlockedSession, Still, memory, Blocked
<1>2. Kept'
  BY DEF Inv, Kept, Merged, Exclusive, HeldAdded, KeptInFile, Inherited, ReadInherits,
         ListInherits, Unconfigured, Still, memory, NoConfig
<1> QED BY <1>1, <1>2

\* The start.
LEMMA StartKeeps == ASSUME Inv, Start PROVE Inv'
<1> USE DEF Inv
<1>1. cfg = NoConfig BY DEF Start, Kept, Unconfigured
<1>2. NoBlockedSession' /\ Kept'
  BY <1>1, StillKeeps DEF Start, Still, disk
<1>3. SupervisorTypeOK'
  BY DEF Start, SupervisorTypeOK, memory, disk, world
<1> QED BY <1>2, <1>3

\* A reload, up to its Apply.
LEMMA ReloadKeeps == ASSUME Inv, Reload PROVE Inv'
<1> USE DEF Inv
<1>1. NoBlockedSession' /\ Kept'
  BY StillKeeps DEF Reload, Still, disk
<1>2. left' \in Budget
  BY DEF Reload, Spend, SupervisorTypeOK, Budget
<1>3. SupervisorTypeOK'
  BY <1>2 DEF Reload, SupervisorTypeOK, memory, disk, world
<1> QED BY <1>1, <1>3

\* Apply takes the lock.
LEMMA ApplyBeginKeeps == ASSUME Inv, ApplyBegin PROVE Inv'
<1> USE DEF Inv
<1>1. NoBlockedSession' /\ Kept'
  BY StillKeeps DEF ApplyBegin, Still, disk
<1>2. job' \in [want : Config, first : BOOLEAN, rest : SUBSET Listener, held : BOOLEAN]
  BY DEF ApplyBegin, SupervisorTypeOK
<1>3. SupervisorTypeOK'
  BY <1>2 DEF ApplyBegin, SupervisorTypeOK, memory, disk, world
<1> QED BY <1>1, <1>3

\* A stop closes sessions, and leaves what its balancer had under way.
LEMMA StopListenerKeeps ==
  ASSUME Inv, NEW l \in Listener, StopListener(l)
  PROVE  /\ binds' \in Binds /\ sessions' \subseteq sessions
         /\ sessions' \in SUBSET (Listener \X Client)
         /\ probe' \in [Listener -> {"none", "out", "told"}]
         /\ stray' \in SUBSET (Listener \X {"mute", "told"})
<1> USE DEF Inv
<1>1. binds' \in Binds BY DEF StopListener, SupervisorTypeOK, Binds
<1>2. Abandoned(l) \subseteq {"mute", "told"}
  BY DEF Abandoned, Detached, SupervisorTypeOK
<1>3. stray' \in SUBSET (Listener \X {"mute", "told"})
  BY <1>2 DEF StopListener, SupervisorTypeOK
<1> QED BY <1>1, <1>3 DEF StopListener, SupervisorTypeOK

\* Apply stops a listener that is no longer wanted,
LEMMA ApplyRemoveKeeps == ASSUME Inv, NEW l \in Listener, ApplyRemove(l) PROVE Inv'
<1>1. NoBlockedSession' /\ Kept'
  BY StillKeeps, StopListenerKeeps DEF ApplyRemove, Still, disk
<1>2. SupervisorTypeOK'
  BY StopListenerKeeps DEF Inv, ApplyRemove, SupervisorTypeOK, memory, disk, world
<1> QED BY <1>1, <1>2 DEF Inv

\* or that moves;
LEMMA ApplyMoveKeeps == ASSUME Inv, NEW l \in Listener, ApplyMove(l) PROVE Inv'
<1>1. NoBlockedSession' /\ Kept'
  BY StillKeeps, StopListenerKeeps DEF ApplyMove, Still, disk
<1>2. SupervisorTypeOK'
  BY StopListenerKeeps DEF Inv, ApplyMove, SupervisorTypeOK, memory, disk, world
<1> QED BY <1>1, <1>2 DEF Inv

\* A listener seen to.
LEMMA DoneTyped ==
  ASSUME SupervisorTypeOK, NEW l, Done(l)
  PROVE  job' \in [want : Config, first : BOOLEAN, rest : SUBSET Listener, held : BOOLEAN]
BY DEF Done, SupervisorTypeOK

\* it updates one that stays,
LEMMA ApplyUpdateKeeps == ASSUME Inv, NEW l \in Listener, ApplyUpdate(l) PROVE Inv'
<1>1. NoBlockedSession' /\ Kept'
  BY StillKeeps DEF ApplyUpdate, Still, disk
<1>2. SupervisorTypeOK'
  BY DoneTyped DEF Inv, ApplyUpdate, SupervisorTypeOK, memory, disk, world
<1> QED BY <1>1, <1>2 DEF Inv

\* and starts one that is not there.
LEMMA ApplyStartKeeps == ASSUME Inv, NEW l \in Listener, ApplyStart(l) PROVE Inv'
<1>1. NoBlockedSession' /\ Kept'
  BY StillKeeps DEF ApplyStart, Still, disk
<1>2. binds' \in Binds
  BY DEF Inv, ApplyStart, SupervisorTypeOK, Binds, Config
<1>3. SupervisorTypeOK'
  BY <1>2, DoneTyped DEF Inv, ApplyStart, SupervisorTypeOK, memory, disk, world
<1> QED BY <1>1, <1>3 DEF Inv

-----------------------------------------------------------------------------
(* The end of the process *)

\* No configuration is one.
LEMMA NoConfigTyped == NoConfig \in Config /\ NoConfig.bind \in Binds /\ ~ NoConfig.listed
BY DEF NoConfig, Config, Binds

\* What a death leaves of the process.
LEMMA DieKeeps == ASSUME Inv, Die, left' \in Budget PROVE Inv'
<1> USE DEF Inv
<1>1. NoBlockedSession' BY DEF Die, NoBlockedSession
<1>2. Kept'
  <2>1. promise'.held = {} /\ promise'.kept = promise.kept
    BY DEF Die, SupervisorTypeOK
  <2>2. Merged' /\ Exclusive' /\ HeldAdded' /\ Unconfigured'
    BY <2>1 DEF Die, Merged, Exclusive, HeldAdded, Unconfigured
  <2>3. KeptInFile'
    BY <2>1 DEF Die, Kept, KeptInFile
  <2>4. ReadInherits' /\ ListInherits'
    BY DEF Die, Idle, ReadInherits, ListInherits
  <2> QED BY <2>2, <2>3, <2>4 DEF Kept
<1>3. watcher' \in [at : {"idle", "stat", "read"}, content : SUBSET Line, fresh : BOOLEAN]
  BY DEF Die, Idle
<1>4. job' \in [want : Config, first : BOOLEAN, rest : SUBSET Listener, held : BOOLEAN]
  BY NoConfigTyped DEF Die, Free
<1>5. promise' \in [held : SUBSET Entry, kept : SUBSET Entry]
  BY DEF Die, SupervisorTypeOK
<1>6. SupervisorTypeOK'
  BY <1>3, <1>4, <1>5, NoConfigTyped DEF Die, SupervisorTypeOK, world
<1> QED BY <1>1, <1>2, <1>6

\* Apply fails, and the first one ends the process.
LEMMA ApplyErrorKeeps == ASSUME Inv, ApplyError PROVE Inv'
<1>1. CASE job.first
  BY <1>1, DieKeeps DEF ApplyError, Inv, SupervisorTypeOK
<1>2. CASE ~ job.first
  <2>1. NoBlockedSession' /\ Kept'
    BY <1>2, StillKeeps DEF ApplyError, Still, disk
  <2>0. job' = Free BY <1>2 DEF ApplyError
  <2>2. job' \in [want : Config, first : BOOLEAN, rest : SUBSET Listener, held : BOOLEAN]
    BY <2>0, NoConfigTyped DEF Free
  <2>3. SupervisorTypeOK'
    BY <1>2, <2>2 DEF Inv, ApplyError, SupervisorTypeOK, memory, disk, world
  <2> QED BY <2>1, <2>3 DEF Inv
<1> QED BY <1>1, <1>2

\* A death from outside.
LEMMA KillKeeps == ASSUME Inv, Kill PROVE Inv'
<1>1. left' \in Budget
  BY DEF Inv, Kill, Spend, SupervisorTypeOK, Budget
<1> QED BY <1>1, DieKeeps DEF Kill

-----------------------------------------------------------------------------
(* Sessions, probes and the world *)

\* A packet of a client that is not blocked creates its session.
LEMMA PacketKeeps ==
  ASSUME Inv, NEW l \in Listener, NEW c \in Client, Packet(l, c)
  PROVE  Inv'
<1> USE DEF Inv
<1>1. NoBlockedSession'
  <2>1. \A s \in sessions' : s[2] \notin Blocked(effective)
    BY DEF Packet, NoBlockedSession
  <2> QED BY <2>1 DEF Packet, memory, NoBlockedSession, Blocked
<1>2. Kept'
  BY DEF Packet, disk, memory, process, Kept, Merged, Exclusive, HeldAdded, KeptInFile,
         Inherited, ReadInherits, ListInherits, Unconfigured, NoConfig
<1>3. SupervisorTypeOK'
  BY DEF Packet, SupervisorTypeOK, memory, disk, process, world
<1> QED BY <1>1, <1>2, <1>3

\* A session expires.
LEMMA ExpireKeeps == ASSUME Inv, NEW s \in sessions, Expire(s) PROVE Inv'
<1>1. NoBlockedSession' /\ Kept'
  BY StillKeeps DEF Expire, Still, disk, process
<1>2. SupervisorTypeOK'
  BY DEF Inv, Expire, SupervisorTypeOK, memory, disk, process, world
<1> QED BY <1>1, <1>2 DEF Inv

\* A probe is sent,
LEMMA ProbeOutKeeps == ASSUME Inv, NEW l \in Listener, ProbeOut(l) PROVE Inv'
<1>1. NoBlockedSession' /\ Kept'
  BY StillKeeps DEF ProbeOut, Still, disk
<1>2. left' \in Budget
  BY DEF Inv, ProbeOut, Spend, SupervisorTypeOK, Budget
<1>3. SupervisorTypeOK'
  BY <1>2 DEF Inv, ProbeOut, SupervisorTypeOK, memory, disk, world
<1> QED BY <1>1, <1>3 DEF Inv

\* reports,
LEMMA ProbeDownKeeps == ASSUME Inv, NEW l \in Listener, ProbeDown(l) PROVE Inv'
<1>1. NoBlockedSession' /\ Kept'
  BY StillKeeps DEF ProbeDown, Still, disk
<1>2. SupervisorTypeOK'
  BY DEF Inv, ProbeDown, SupervisorTypeOK, memory, disk, world
<1> QED BY <1>1, <1>2 DEF Inv

\* A callback only closes.
LEMMA CloseBackendCloses ==
  ASSUME SupervisorTypeOK, NEW l \in Listener, CloseBackend(l)
  PROVE  sessions' \subseteq sessions /\ sessions' \in SUBSET (Listener \X Client)
BY DEF CloseBackend, SupervisorTypeOK

\* and has its callback close sessions.
LEMMA ProbeClosesKeeps == ASSUME Inv, NEW l \in Listener, ProbeCloses(l) PROVE Inv'
<1>1. NoBlockedSession' /\ Kept'
  BY CloseBackendCloses, StillKeeps DEF Inv, ProbeCloses, Still, disk
<1>2. SupervisorTypeOK'
  BY CloseBackendCloses DEF Inv, ProbeCloses, SupervisorTypeOK, memory, disk, world
<1> QED BY <1>1, <1>2 DEF Inv

\* No balancer that was dropped has its callback.
LEMMA StrayIsMute ==
  ASSUME SupervisorTypeOK, NEW l \in Listener, StrayReports(l)
  PROVE  stray' = stray \ {<<l, "mute">>}
BY DEF StrayReports, SupervisorTypeOK

\* A probe of a balancer that was dropped reports,
LEMMA StrayReportsKeeps == ASSUME Inv, NEW l \in Listener, StrayReports(l) PROVE Inv'
<1>1. NoBlockedSession' /\ Kept'
  BY StillKeeps DEF StrayReports, Still, disk
<1>2. SupervisorTypeOK'
  BY StrayIsMute DEF Inv, StrayReports, SupervisorTypeOK, memory, disk, world
<1> QED BY <1>1, <1>2 DEF Inv

\* and its callback, if it still has one, closes sessions.
LEMMA StrayClosesKeeps == ASSUME Inv, NEW l \in Listener, StrayCloses(l) PROVE Inv'
<1>1. NoBlockedSession' /\ Kept'
  BY CloseBackendCloses, StillKeeps DEF Inv, StrayCloses, Still, disk
<1>2. SupervisorTypeOK'
  BY CloseBackendCloses DEF Inv, StrayCloses, SupervisorTypeOK, memory, disk, world
<1> QED BY <1>1, <1>2 DEF Inv

\* Other programs change the configuration,
LEMMA EditYamlKeeps == ASSUME Inv, NEW c \in Configs, EditYaml(c) PROVE Inv'
<1>1. NoBlockedSession' /\ Kept'
  BY StillKeeps DEF EditYaml, Still, disk, process
<1>2. left' \in Budget
  BY DEF Inv, EditYaml, Spend, SupervisorTypeOK, Budget
<1>3. SupervisorTypeOK'
  BY <1>2 DEF Inv, EditYaml, SupervisorTypeOK, memory, disk, process
<1> QED BY <1>1, <1>3 DEF Inv

\* or take and leave addresses.
LEMMA EditAddressKeeps == ASSUME Inv, NEW a \in Addr, EditAddress(a) PROVE Inv'
<1>1. NoBlockedSession' /\ Kept'
  BY StillKeeps DEF EditAddress, Still, disk, process
<1>2. left' \in Budget
  BY DEF Inv, EditAddress, Spend, SupervisorTypeOK, Budget
<1>3. SupervisorTypeOK'
  BY <1>2 DEF Inv, EditAddress, SupervisorTypeOK, memory, disk, process
<1> QED BY <1>1, <1>3 DEF Inv

\* Another program's write ends what was kept, and the watcher's lines stay.
LEMMA EditFileKeeps == ASSUME Inv, NEW content \in Edits, EditFile(content) PROVE Inv'
<1> USE DEF Inv
<1>1. content \in Content OBVIOUS
<1>2. /\ file' \in Content /\ known' \in BOOLEAN
      /\ watcher' = [watcher EXCEPT !.fresh = FALSE]
  BY <1>1, WriteWrites DEF EditFile
<1>3. promise' = [promise EXCEPT !.kept = {}]
  BY DEF EditFile
<1>4. NoBlockedSession' BY DEF EditFile, memory, NoBlockedSession, Blocked
<1>5. promise'.held = promise.held /\ promise'.kept = {}
  BY <1>3 DEF SupervisorTypeOK
<1>6. Kept'
  BY <1>5 DEF EditFile, memory, process, Kept, Merged, Exclusive, HeldAdded, KeptInFile,
              Inherited, ReadInherits, ListInherits, Unconfigured, NoConfig
<1>7. watcher' \in [at : {"idle", "stat", "read"}, content : SUBSET Line, fresh : BOOLEAN]
  BY <1>2 DEF SupervisorTypeOK
<1>8. promise' \in [held : SUBSET Entry, kept : SUBSET Entry]
  BY <1>3 DEF SupervisorTypeOK
<1>9. left' \in Budget
  BY DEF EditFile, Spend, SupervisorTypeOK, Budget
<1>10. SupervisorTypeOK'
  BY <1>2, <1>7, <1>8, <1>9 DEF EditFile, SupervisorTypeOK, memory, process, world
<1> QED BY <1>4, <1>6, <1>10

-----------------------------------------------------------------------------
(* Steps that rebuild the list *)

\* A write or none leaves the lines that the watcher holds.
LEMMA WatcherHolds ==
  ASSUME SupervisorTypeOK,
         \/ watcher' = watcher
         \/ watcher' = [watcher EXCEPT !.fresh = FALSE]
  PROVE  /\ watcher' \in [at : {"idle", "stat", "read"}, content : SUBSET Line, fresh : BOOLEAN]
         /\ watcher'.at = watcher.at /\ watcher'.content = watcher.content
BY DEF SupervisorTypeOK

\* An added entry is held, and is in the file when the file is listed.
LEMMA AddKeeps == ASSUME Inv, NEW e \in Entry, Add(e) PROVE Inv'
<1> USE DEF Inv
<1> DEFINE entries == IF cfg.listed THEN cfgEntries \cup {e} ELSE cfgEntries
<1>1. /\ entries \in SUBSET Entry /\ adds \cup {e} \in SUBSET Entry
      /\ dels \ {e} \in SUBSET Entry
  BY DEF SupervisorTypeOK
<1>2. Rebuild(entries, adds \cup {e}, dels \ {e}, FALSE, {e})
  BY DEF Add, BlacklistAdd
<1> HIDE DEF entries
<1>3. /\ adds' = adds \cup {e} /\ cfgEntries' = entries
      /\ dels' \subseteq dels \ {e} /\ effective' \in SUBSET Entry
      /\ Merged' /\ sessions' \subseteq sessions
  BY <1>1, <1>2, RebuildMerges
<1>4. NoBlockedSession' BY <1>2, RebuildSweeps
<1>5. cfgEntries \subseteq cfgEntries'
  BY <1>3 DEF entries
<1>6. /\ promise'.held = promise.held \cup {e}
      /\ promise'.kept = IF cfg.listed THEN promise.kept \cup {e} ELSE promise.kept
      /\ promise' \in [held : SUBSET Entry, kept : SUBSET Entry]
  BY DEF Add, SupervisorTypeOK
<1>7. Inherited' \subseteq Inherited
  BY <1>6 DEF Inherited
<1>8. /\ file' \in Content /\ known' \in BOOLEAN
      /\ \A x \in Entry : x \in file => x \in file'
      /\ cfg.listed => e \in file'
      /\ \/ watcher' = watcher
         \/ watcher' = [watcher EXCEPT !.fresh = FALSE]
  <2>1. CASE cfg.listed
    <3>1. ListFileAdd(e) BY <2>1 DEF Add, BlacklistAdd
    <3>2. file \in Content /\ known \in BOOLEAN BY DEF SupervisorTypeOK
    <3> QED BY <2>1, <3>1, <3>2, ListFileAddAdds
  <2>2. CASE ~ cfg.listed
    BY <2>2 DEF Add, BlacklistAdd, disk, SupervisorTypeOK
  <2> QED BY <2>1, <2>2
<1>9. cfg' = cfg /\ phase' = phase
  BY DEF Add, BlacklistAdd, process
<1>10. Exclusive'
  BY <1>3, <1>6 DEF Kept, Exclusive
<1>11. HeldAdded'
  BY <1>3, <1>6 DEF Kept, HeldAdded
<1>12. KeptInFile'
  <2>1. \A x \in promise.kept : x \in Entry /\ x \in file'
    BY <1>8 DEF Kept, KeptInFile, SupervisorTypeOK
  <2> QED BY <1>6, <1>8, <2>1 DEF KeptInFile
<1>13. ReadInherits'
  BY <1>7, <1>8, WatcherHolds DEF Kept, ReadInherits
<1>14. ListInherits'
  BY <1>5, <1>7, <1>9 DEF Kept, ListInherits
<1>15. Unconfigured'
  BY <1>9 DEF Kept, Unconfigured, NoConfig
<1>16. left' \in Budget
  BY DEF Add, Spend, SupervisorTypeOK, Budget
<1>17. SupervisorTypeOK'
  BY <1>1, <1>3, <1>6, <1>8, <1>9, <1>16, WatcherHolds DEF Add, SupervisorTypeOK, process, world
<1> QED BY <1>3, <1>4, <1>10, <1>11, <1>12, <1>13, <1>14, <1>15, <1>17 DEF Kept

\* A deleted entry is nobody's promise any more; the others stay where they are.
LEMMA DeleteKeeps == ASSUME Inv, NEW e \in Entry, Delete(e) PROVE Inv'
<1> USE DEF Inv
<1> DEFINE entries == IF InFile(e) THEN cfgEntries \ {e} ELSE cfgEntries
<1>1. /\ entries \in SUBSET Entry /\ adds \ {e} \in SUBSET Entry
      /\ dels \cup {e} \in SUBSET Entry
  BY DEF SupervisorTypeOK
<1>2. Rebuild(entries, adds \ {e}, dels \cup {e}, FALSE, {})
  BY DEF Delete, BlacklistDel
<1>3. cfgEntries \ {e} \subseteq entries
  OBVIOUS
<1> HIDE DEF entries
<1>4. /\ adds' = adds \ {e} /\ cfgEntries' = entries
      /\ dels' \subseteq dels \cup {e} /\ effective' \in SUBSET Entry
      /\ Merged' /\ sessions' \subseteq sessions
  BY <1>1, <1>2, RebuildMerges
<1>5. NoBlockedSession' BY <1>2, RebuildSweeps
<1>6. /\ promise'.held = promise.held \ {e} /\ promise'.kept = promise.kept \ {e}
      /\ promise' \in [held : SUBSET Entry, kept : SUBSET Entry]
  BY DEF Delete, SupervisorTypeOK
<1>7. Inherited' \subseteq Inherited \ {e}
  BY <1>6 DEF Inherited
<1>8. /\ file' \in Content /\ known' \in BOOLEAN /\ file \ {e} \subseteq file'
      /\ \/ watcher' = watcher
         \/ watcher' = [watcher EXCEPT !.fresh = FALSE]
  <2>1. CASE InFile(e)
    <3>1. Write(file \ {e}) BY <2>1 DEF Delete, BlacklistDel
    <3>2. file \ {e} \in Content
      BY <2>1, InFileRemoves DEF SupervisorTypeOK
    <3> QED BY <3>1, <3>2, WriteWrites
  <2>2. CASE ~ InFile(e)
    BY <2>2 DEF Delete, BlacklistDel, disk, SupervisorTypeOK
  <2> QED BY <2>1, <2>2
<1>9. cfg' = cfg /\ phase' = phase
  BY DEF Delete, BlacklistDel, process
<1>10. Exclusive'
  BY <1>4, <1>6 DEF Kept, Exclusive
<1>11. HeldAdded'
  BY <1>4, <1>6 DEF Kept, HeldAdded
<1>12. KeptInFile'
  BY <1>6, <1>8 DEF Kept, KeptInFile
<1>13. ReadInherits'
  BY <1>7, <1>8, WatcherHolds DEF Kept, ReadInherits
<1>14. ListInherits'
  BY <1>3, <1>4, <1>7, <1>9 DEF Kept, ListInherits
<1>15. Unconfigured'
  BY <1>9 DEF Kept, Unconfigured, NoConfig
<1>16. left' \in Budget
  BY DEF Delete, Spend, SupervisorTypeOK, Budget
<1>17. SupervisorTypeOK'
  BY <1>1, <1>4, <1>6, <1>8, <1>9, <1>16, WatcherHolds DEF Delete, SupervisorTypeOK, process, world
<1> QED BY <1>4, <1>5, <1>10, <1>11, <1>12, <1>13, <1>14, <1>15, <1>17 DEF Kept

\* The end of an Apply reads the file itself.
LEMMA ApplyFinishKeeps == ASSUME Inv, ApplyFinish PROVE Inv'
<1> USE DEF Inv
<1> DEFINE want == job.want
           entries == want.inline \cup (IF want.listed THEN file ELSE {})
<1>1. want \in Config BY DEF SupervisorTypeOK
<1>2. entries \in SUBSET Entry
  <2>1. want.listed => Valid(file) BY DEF ApplyFinish, ApplyList, ApplyListFails
  <2>2. want.listed => file \in SUBSET Entry
    BY <2>1, ValidLines DEF SupervisorTypeOK
  <2>3. want.inline \in SUBSET Entry BY <1>1 DEF Config
  <2> QED BY <2>2, <2>3
<1>3. Rebuild(entries, adds, dels, TRUE, {})
  BY DEF ApplyFinish, ApplyList
<1>4. want.listed => file \subseteq entries OBVIOUS
<1>5. cfg' = want /\ phase' = "serving" /\ file' = file /\ watcher' = watcher
  BY DEF ApplyFinish, ApplyList, disk
<1>6. promise' = promise BY DEF ApplyFinish
<1> HIDE DEF want, entries
<1>7. /\ adds' = adds /\ cfgEntries' = entries /\ dels' \subseteq dels
      /\ effective' \in SUBSET Entry /\ Merged' /\ sessions' \subseteq sessions
  BY <1>2, <1>3, RebuildMerges DEF SupervisorTypeOK
<1>8. NoBlockedSession' BY <1>3, RebuildSweeps
<1>9. Inherited' = Inherited BY <1>6 DEF Inherited
<1>10. Exclusive' /\ HeldAdded' /\ KeptInFile'
  BY <1>5, <1>6, <1>7 DEF Kept, Exclusive, HeldAdded, KeptInFile
<1>11. ReadInherits'
  BY <1>5, <1>9 DEF Kept, ReadInherits
<1>12. ListInherits'
  BY <1>4, <1>5, <1>7, <1>9 DEF Kept, ListInherits, KeptInFile, Inherited
<1>13. Unconfigured' BY <1>5 DEF Unconfigured
<1>14. job' = Free BY DEF ApplyFinish
<1>15. job' \in [want : Config, first : BOOLEAN, rest : SUBSET Listener, held : BOOLEAN]
  BY <1>14, NoConfigTyped DEF Free
<1>16. dels' \in SUBSET Entry BY <1>7 DEF SupervisorTypeOK
<1>17. sessions' \in SUBSET (Listener \X Client) BY <1>7 DEF SupervisorTypeOK
<1>18. SupervisorTypeOK'
  BY <1>1, <1>2, <1>5, <1>6, <1>7, <1>15, <1>16, <1>17
  DEF ApplyFinish, ApplyList, disk, SupervisorTypeOK, world
<1> QED BY <1>7, <1>8, <1>10, <1>11, <1>12, <1>13, <1>18 DEF Kept

\* What the watcher has read stays what it is: Still, but for the place.
LEMMA PollKeeps ==
  ASSUME Inv, UNCHANGED <<cfg, memory, sessions, file, promise, phase>>,
         watcher'.at = "read" => Inherited \subseteq watcher'.content
  PROVE  NoBlockedSession' /\ Kept'
<1>1. NoBlockedSession'
  BY DEF Inv, NoBlockedSession, memory, Blocked
<1>2. Kept'
  BY DEF Inv, Kept, Merged, Exclusive, HeldAdded, KeptInFile, Inherited, ReadInherits,
         ListInherits, Unconfigured, memory, NoConfig
<1> QED BY <1>1, <1>2

\* The watcher stats the file,
LEMMA PollStatKeeps ==
  ASSUME Inv, PollStat, UNCHANGED <<process, world, promise, left>>
  PROVE  Inv'
<1>1. watcher' = [at |-> "stat", content |-> {}, fresh |-> TRUE]
  BY DEF PollStat, Idle
<1>2. NoBlockedSession' /\ Kept'
  BY <1>1, PollKeeps DEF PollStat, process
<1>3. watcher' \in [at : {"idle", "stat", "read"}, content : SUBSET Line, fresh : BOOLEAN]
  BY <1>1
<1>4. UNCHANGED <<cfg, memory, sessions, file, known>> BY DEF PollStat
<1>5. SupervisorTypeOK'
  BY <1>3, <1>4 DEF Inv, SupervisorTypeOK, memory, process, world
<1> QED BY <1>2, <1>5 DEF Inv

\* reads it,
LEMMA PollReadKeeps ==
  ASSUME Inv, PollRead, UNCHANGED <<process, world, promise, left>>
  PROVE  Inv'
<1> DEFINE Holds == watcher'.at = "read" => Inherited \subseteq watcher'.content
           Typed == watcher' \in [at : {"idle", "stat", "read"}, content : SUBSET Line, fresh : BOOLEAN]
<1>0. UNCHANGED <<cfg, memory, sessions, file, known>> BY DEF PollRead
<1>1. ASSUME file = Missing PROVE Holds /\ Typed
  <2>1. watcher' = [at |-> "idle", content |-> {}, fresh |-> FALSE]
    BY <1>1 DEF PollRead, Idle
  <2>2. watcher'.at # "read" BY <2>1
  <2>3. watcher' \in [at : {"idle", "stat", "read"}, content : SUBSET Line, fresh : BOOLEAN]
    BY <2>1
  <2> QED BY <2>2, <2>3
<1>2. ASSUME file # Missing PROVE Holds /\ Typed
  <2>1. watcher' = [watcher EXCEPT !.at = "read", !.content = file]
    BY <1>2 DEF PollRead
  <2>2. watcher'.content = file /\ file \in SUBSET Line
    BY <1>2, <2>1 DEF Inv, SupervisorTypeOK, Content
  <2>3. Inherited \subseteq watcher'.content
    BY <2>2 DEF Inv, Kept, KeptInFile, Inherited
  <2>4. watcher' \in [at : {"idle", "stat", "read"}, content : SUBSET Line, fresh : BOOLEAN]
    BY <2>1, <2>2 DEF Inv, SupervisorTypeOK
  <2> QED BY <2>3, <2>4
<1>3. Holds /\ Typed
  BY <1>1, <1>2
<1>4. NoBlockedSession' /\ Kept'
  BY <1>0, <1>3, PollKeeps DEF process
<1>5. SupervisorTypeOK'
  BY <1>0, <1>3 DEF Inv, SupervisorTypeOK, memory, process, world
<1> QED BY <1>4, <1>5 DEF Inv

\* and has nothing to do, or fails.
LEMMA PollEndsKeeps ==
  ASSUME Inv, PollFails \/ PollAgrees, UNCHANGED <<process, world, promise, left>>
  PROVE  Inv'
<1>1. watcher' = [at |-> "idle", content |-> {}, fresh |-> FALSE]
  BY DEF PollFails, PollAgrees, Idle
<1>2. /\ UNCHANGED <<cfg, memory, sessions, file>>
      /\ known' \in {known, watcher.fresh}
  BY DEF PollFails, PollAgrees, Remember
<1>3. NoBlockedSession' /\ Kept'
  BY <1>1, <1>2, PollKeeps DEF process
<1>4. known' \in BOOLEAN BY <1>2 DEF Inv, SupervisorTypeOK
<1>5. SupervisorTypeOK'
  BY <1>1, <1>2, <1>4 DEF Inv, SupervisorTypeOK, memory, process, world
<1> QED BY <1>3, <1>5 DEF Inv

\* However old, the lines that the watcher holds have what was kept before.
LEMMA PollReloadsKeeps ==
  ASSUME Inv, PollReloads, UNCHANGED <<process, world, promise, left>>
  PROVE  Inv'
<1> USE DEF Inv
<1>1. Combined \in SUBSET Entry
  <2>1. cfg.inline \in SUBSET Entry /\ watcher.content \in SUBSET Line
    BY DEF SupervisorTypeOK, Config
  <2>2. Combined \in Content BY <2>1 DEF Combined, Content, Line
  <2> QED BY <2>2, ValidLines DEF PollReloads
<1>2. Rebuild(Combined, adds, dels, TRUE, {}) BY DEF PollReloads
<1>3. /\ adds' = adds /\ cfgEntries' = Combined /\ dels' \subseteq dels
      /\ effective' \in SUBSET Entry /\ Merged' /\ sessions' \subseteq sessions
  BY <1>1, <1>2, RebuildMerges DEF SupervisorTypeOK
<1>4. NoBlockedSession' BY <1>2, RebuildSweeps
<1>5. /\ watcher' = [at |-> "idle", content |-> {}, fresh |-> FALSE]
      /\ known' = watcher.fresh /\ cfg' = cfg /\ file' = file /\ phase' = phase
  BY DEF PollReloads, Idle, Remember, process
<1>6. promise' = promise /\ Inherited' = Inherited BY DEF Inherited
<1>7. Exclusive' /\ HeldAdded' /\ KeptInFile'
  BY <1>3, <1>5, <1>6 DEF Kept, Exclusive, HeldAdded, KeptInFile
<1>8. ReadInherits' BY <1>5 DEF ReadInherits
<1>9. ListInherits'
  <2>1. Inherited \subseteq watcher.content
    BY DEF PollReloads, Kept, ReadInherits
  <2> QED BY <1>3, <1>6, <2>1 DEF ListInherits, Combined
<1>10. Unconfigured' BY <1>5 DEF Kept, Unconfigured, NoConfig
<1>11. /\ dels' \in SUBSET Entry /\ sessions' \in SUBSET (Listener \X Client)
       /\ known' \in BOOLEAN
  BY <1>3, <1>5 DEF SupervisorTypeOK
<1>12. SupervisorTypeOK'
  BY <1>1, <1>3, <1>5, <1>11 DEF SupervisorTypeOK, process, world
<1> QED BY <1>3, <1>4, <1>7, <1>8, <1>9, <1>10, <1>12 DEF Kept

\* The watcher, all told.
LEMMA WatchKeeps == ASSUME Inv, Watch PROVE Inv'
BY PollStatKeeps, PollReadKeeps, PollEndsKeeps, PollReloadsKeeps DEF Watch

-----------------------------------------------------------------------------
(* The invariant *)

\* The process is down at first.
LEMMA InitEstablishes == Init => Inv
<1> SUFFICES ASSUME Init PROVE Inv OBVIOUS
<1>1. NoBlockedSession BY DEF Init, NoBlockedSession
<1>2. Kept
  BY DEF Init, Idle, Kept, Merged, Exclusive, HeldAdded, KeptInFile, Inherited, ReadInherits,
         ListInherits, Unconfigured
<1>3. SupervisorTypeOK
  BY NoConfigTyped DEF Init, Idle, Free, SupervisorTypeOK
<1> QED BY <1>1, <1>2, <1>3 DEF Inv

\* Every step, whoever takes it.
LEMMA StepKeeps == Inv /\ [Next]_vars => Inv'
<1> SUFFICES ASSUME Inv, [Next]_vars PROVE Inv' OBVIOUS
<1>1. CASE UNCHANGED vars
  <2>1. NoBlockedSession' /\ Kept'
    BY <1>1, StillKeeps DEF vars, Still, disk, process
  <2>2. SupervisorTypeOK'
    BY <1>1 DEF Inv, SupervisorTypeOK, vars, memory, disk, process, world
  <2> QED BY <2>1, <2>2 DEF Inv
<1>2. CASE Start BY <1>2, StartKeeps
<1>3. CASE Reload BY <1>3, ReloadKeeps
<1>4. CASE Apply
  BY <1>4, ApplyBeginKeeps, ApplyErrorKeeps, ApplyFinishKeeps, ApplyRemoveKeeps,
     ApplyUpdateKeeps, ApplyMoveKeeps, ApplyStartKeeps DEF Apply
<1>5. CASE Watch BY <1>5, WatchKeeps
<1>6. CASE Kill BY <1>6, KillKeeps
<1>7. CASE \E e \in Entry : Add(e) \/ Delete(e)
  BY <1>7, AddKeeps, DeleteKeeps
<1>8. CASE \E l \in Listener, c \in Client : Packet(l, c)
  BY <1>8, PacketKeeps
<1>9. CASE \E s \in sessions : Expire(s)
  BY <1>9, ExpireKeeps
<1>10. CASE \E l \in Listener : \/ ProbeOut(l) \/ ProbeDown(l) \/ ProbeCloses(l)
                               \/ StrayReports(l) \/ StrayCloses(l)
  BY <1>10, ProbeOutKeeps, ProbeDownKeeps, ProbeClosesKeeps, StrayReportsKeeps, StrayClosesKeeps
<1>11. CASE \E c \in Configs : EditYaml(c) BY <1>11, EditYamlKeeps
<1>12. CASE \E content \in Edits : EditFile(content) BY <1>12, EditFileKeeps
<1>13. CASE \E a \in Addr : EditAddress(a) BY <1>13, EditAddressKeeps
<1> QED
  BY <1>1, <1>2, <1>3, <1>4, <1>5, <1>6, <1>7, <1>8, <1>9, <1>10, <1>11, <1>12, <1>13 DEF Next

\* The invariant.
LEMMA InvHolds == Spec => []Inv
BY InitEstablishes, StepKeeps, PTL DEF Spec

-----------------------------------------------------------------------------
(* The theorems *)

\* The state keeps its types.
THEOREM SupervisorTypeCorrect == Spec => []SupervisorTypeOK
<1>1. Inv => SupervisorTypeOK BY DEF Inv
<1> QED BY <1>1, InvHolds, PTL

\* No order of adds, deletes, reloads and polls leaves a session of a client
\* that the list blocks: closing the sessions of newly effective entries is
\* enough (rebuildBlacklistLocked).
THEOREM NoBlockedSessionCorrect == Spec => []NoBlockedSession
<1>1. Inv => NoBlockedSession BY DEF Inv
<1> QED BY <1>1, InvHolds, PTL

\* What was promised is on the list.
LEMMA InvHoldsAdds == Inv => AddHolds
<1> SUFFICES ASSUME Inv, phase = "serving"
             PROVE  /\ promise.held \subseteq effective
                    /\ cfg.listed => promise.kept \subseteq effective
  BY DEF AddHolds
<1>1. promise.held \subseteq effective
  BY DEF Inv, Kept, Merged, Exclusive, HeldAdded
<1>2. ASSUME cfg.listed, NEW e \in promise.kept PROVE e \in effective
  <2>1. CASE e \in promise.held BY <1>1, <2>1
  <2>2. CASE e \notin promise.held
    BY <1>2, <2>2 DEF Inv, Kept, Merged, Exclusive, ListInherits, Inherited
  <2> QED BY <2>1, <2>2
<1> QED BY <1>1, <1>2

\* An entry whose POST was answered blocks until its DELETE, whatever the file
\* watcher, reloads and restarts do (BlacklistAdd, listFileAdd).
THEOREM AddHoldsCorrect == Spec => []AddHolds
BY InvHolds, InvHoldsAdds, PTL

\* A stop of one listener leaves the others alone.
LEMMA StopSpares ==
  ASSUME SupervisorTypeOK, NEW l \in Listener, NEW k \in Listener, k # l, StopListener(k)
  PROVE  /\ binds'[l] = binds[l]
         /\ \A s \in sessions : s[1] = l => s \in sessions'
BY DEF StopListener, SupervisorTypeOK, Binds

\* Apply closes no session of a listener that stays, but for clients it blocks,
LEMMA ApplySparesSessions ==
  ASSUME Inv, Apply, phase' # "down", NEW l \in Listener, job.held,
         binds[l] # Closed, binds[l] = job.want.bind[l],
         NEW s \in sessions, s[1] = l, s[2] \notin Blocked(effective')
  PROVE  s \in sessions'
<1> USE DEF Inv
<1>1. CASE ApplyBegin BY <1>1 DEF ApplyBegin, Unlocked
<1>2. CASE ApplyError
  <2>1. CASE job.first BY <1>2, <2>1 DEF ApplyError, Die
  <2>2. CASE ~ job.first BY <1>2, <2>2 DEF ApplyError
  <2> QED BY <2>1, <2>2
<1>3. CASE ApplyFinish
  <2> DEFINE entries == job.want.inline \cup (IF job.want.listed THEN file ELSE {})
  <2>1. Rebuild(entries, adds, dels, TRUE, {})
    BY <1>3 DEF ApplyFinish, ApplyList
  <2> HIDE DEF entries
  <2>2. sessions' = sessions \ Swept(effective' \ effective)
    BY <2>1 DEF Rebuild, Newly
  <2>3. s \notin Swept(effective' \ effective)
    BY DEF Swept, Blocked
  <2> QED BY <2>1, <2>2, <2>3
<1>4. ASSUME NEW k \in Listener, ApplyRemove(k) PROVE s \in sessions'
  <2>1. k # l /\ StopListener(k) BY <1>4 DEF ApplyRemove, Superfluous
  <2> QED BY <2>1, StopSpares
<1>5. ASSUME NEW k \in Listener, ApplyUpdate(k) PROVE s \in sessions'
  BY <1>5 DEF ApplyUpdate
<1>6. ASSUME NEW k \in Listener, ApplyMove(k) PROVE s \in sessions'
  <2>1. k # l /\ StopListener(k) BY <1>6 DEF ApplyMove, Stays
  <2> QED BY <2>1, StopSpares
<1>7. ASSUME NEW k \in Listener, ApplyStart(k) PROVE s \in sessions'
  <2>1. k # l BY <1>7 DEF ApplyStart
  <2> QED BY <1>7, <2>1 DEF ApplyStart, SupervisorTypeOK, Binds
<1> QED BY <1>1, <1>2, <1>3, <1>4, <1>5, <1>6, <1>7 DEF Apply

\* and leaves its bind.
LEMMA ApplySparesBinds ==
  ASSUME Inv, Apply, phase' # "down", NEW l \in Listener, job.held,
         binds[l] # Closed, binds[l] = job.want.bind[l]
  PROVE  binds'[l] = binds[l]
<1> USE DEF Inv
<1>1. CASE ApplyBegin BY <1>1 DEF ApplyBegin, Unlocked
<1>2. CASE ApplyError
  <2>1. CASE job.first BY <1>2, <2>1 DEF ApplyError, Die
  <2>2. CASE ~ job.first BY <1>2, <2>2 DEF ApplyError
  <2> QED BY <2>1, <2>2
<1>3. CASE ApplyFinish BY <1>3 DEF ApplyFinish
<1>4. ASSUME NEW k \in Listener, ApplyRemove(k) PROVE binds'[l] = binds[l]
  <2>1. k # l /\ StopListener(k) BY <1>4 DEF ApplyRemove, Superfluous
  <2> QED BY <2>1, StopSpares
<1>5. ASSUME NEW k \in Listener, ApplyUpdate(k) PROVE binds'[l] = binds[l]
  BY <1>5 DEF ApplyUpdate
<1>6. ASSUME NEW k \in Listener, ApplyMove(k) PROVE binds'[l] = binds[l]
  <2>1. k # l /\ StopListener(k) BY <1>6 DEF ApplyMove, Stays
  <2> QED BY <2>1, StopSpares
<1>7. ASSUME NEW k \in Listener, ApplyStart(k) PROVE binds'[l] = binds[l]
  <2>1. k # l BY <1>7 DEF ApplyStart
  <2> QED BY <1>7, <2>1 DEF ApplyStart, SupervisorTypeOK, Binds
<1> QED BY <1>1, <1>2, <1>3, <1>4, <1>5, <1>6, <1>7 DEF Apply

\* A reload interrupts no listener that already runs where the reload wants
\* it, and closes only its blocked clients' sessions, also after reloads that
\* failed half-way (Apply's comparison with App.binds).
THEOREM ReloadSparesCorrect == Spec => ReloadSpares
<1> DEFINE Spares ==
      Apply /\ phase' # "down" =>
       \A l \in Listener : job.held /\ binds[l] # Closed /\ binds[l] = job.want.bind[l] =>
          /\ binds'[l] = binds[l]
          /\ \A s \in sessions : s[1] = l /\ s[2] \notin Blocked(effective') => s \in sessions'
<1>1. Inv => Spares BY ApplySparesSessions, ApplySparesBinds
<1> HIDE DEF Spares
<1>2. Inv /\ [Next]_vars => [Spares]_vars BY <1>1
<1>3. Spec => [][Spares]_vars BY <1>2, InvHolds, PTL DEF Spec
<1> QED BY <1>3 DEF ReloadSpares, Spares

\* stray gains a callback under way only from a listener that a stop has just
\* taken it from.
LEMMA StopTells ==
  ASSUME SupervisorTypeOK, NEW l \in Listener, NEW k \in Listener, binds[k] # Closed,
         StopListener(k), <<l, "told">> \in stray' \ stray
  PROVE  probe[l] = "told" /\ binds'[l] # binds[l]
<1>1. k = l /\ "told" \in Abandoned(k)
  BY DEF StopListener
<1>2. probe[l] = "told"
  BY <1>1 DEF Abandoned, Detached
<1>3. binds'[l] = Closed
  BY <1>1 DEF StopListener, SupervisorTypeOK, Binds
<1> QED BY <1>1, <1>2, <1>3

\* Only the stop of a listener whose callback is under way leaves one behind.
LEMMA StepTells ==
  ASSUME SupervisorTypeOK, [Next]_vars, NEW l \in Listener, <<l, "told">> \in stray' \ stray
  PROVE  probe[l] = "told" /\ binds'[l] # binds[l]
<1>1. stray' \subseteq stray => FALSE OBVIOUS
<1>2. CASE UNCHANGED vars BY <1>1, <1>2 DEF vars, process
<1>3. CASE Start BY <1>1, <1>3 DEF Start
<1>4. CASE Reload BY <1>1, <1>4 DEF Reload
<1>5. CASE Apply
  <2>1. CASE ApplyBegin BY <1>1, <2>1 DEF ApplyBegin
  <2>2. CASE ApplyError
    <3>1. stray' = stray \/ stray' = {} BY <2>2 DEF ApplyError, Die
    <3> QED BY <1>1, <3>1
  <2>3. CASE ApplyFinish BY <1>1, <2>3 DEF ApplyFinish
  <2>4. ASSUME NEW k \in Listener, ApplyRemove(k)
        PROVE  probe[l] = "told" /\ binds'[l] # binds[l]
    BY <2>4, StopTells DEF ApplyRemove, Superfluous
  <2>5. ASSUME NEW k \in Listener, ApplyUpdate(k) PROVE FALSE
    BY <1>1, <2>5 DEF ApplyUpdate
  <2>6. ASSUME NEW k \in Listener, ApplyMove(k)
        PROVE  probe[l] = "told" /\ binds'[l] # binds[l]
    BY <2>6, StopTells DEF ApplyMove
  <2>7. ASSUME NEW k \in Listener, ApplyStart(k) PROVE FALSE
    BY <1>1, <2>7 DEF ApplyStart
  <2> QED BY <1>5, <2>1, <2>2, <2>3, <2>4, <2>5, <2>6, <2>7 DEF Apply
<1>6. CASE Watch BY <1>1, <1>6 DEF Watch, process
<1>7. CASE Kill BY <1>1, <1>7 DEF Kill, Die
<1>8. ASSUME NEW e \in Entry, Add(e) \/ Delete(e) PROVE FALSE
  BY <1>1, <1>8 DEF Add, Delete, process
<1>9. ASSUME NEW k \in Listener, NEW c \in Client, Packet(k, c) PROVE FALSE
  BY <1>1, <1>9 DEF Packet, process
<1>10. ASSUME NEW s \in sessions, Expire(s) PROVE FALSE
  BY <1>1, <1>10 DEF Expire, process
<1>11. ASSUME NEW k \in Listener,
              ProbeOut(k) \/ ProbeDown(k) \/ ProbeCloses(k) \/ StrayReports(k) \/ StrayCloses(k)
       PROVE  FALSE
  BY <1>1, <1>11, StrayIsMute DEF ProbeOut, ProbeDown, ProbeCloses, StrayCloses
<1>12. ASSUME NEW c \in Configs, EditYaml(c) PROVE FALSE
  BY <1>1, <1>12 DEF EditYaml, process
<1>13. ASSUME NEW content \in Edits, EditFile(content) PROVE FALSE
  BY <1>1, <1>13 DEF EditFile, process
<1>14. ASSUME NEW a \in Addr, EditAddress(a) PROVE FALSE
  BY <1>1, <1>14 DEF EditAddress, process
<1> QED
  BY <1>2, <1>3, <1>4, <1>5, <1>6, <1>7, <1>8, <1>9, <1>10, <1>11, <1>12, <1>13, <1>14 DEF Next

\* A report that comes after its balancer was dropped closes nothing, unless
\* its callback had been called before the stop took it away
\* (stopListenerLocked's SetOnStateChange(nil)).
THEOREM LateReportsInertCorrect == Spec => LateReportsInert
<1> DEFINE Tells ==
      \A l \in Listener :
       <<l, "told">> \in stray' \ stray => probe[l] = "told" /\ binds'[l] # binds[l]
<1>1. Inv /\ [Next]_vars => Tells BY StepTells DEF Inv
<1> HIDE DEF Tells
<1>2. Inv /\ [Next]_vars => [Tells]_vars BY <1>1
<1>3. Spec => [][Tells]_vars BY <1>2, InvHolds, PTL DEF Spec
<1> QED BY <1>3 DEF LateReportsInert, Tells
=============================================================================
