----------------------------- MODULE Blacklist -----------------------------
(***************************************************************************)
(* The client blacklist of cmd/udpshunt/app.go: the configured entries,    *)
(* the entries added and deleted at runtime, the list they are merged      *)
(* into, the list file that the API rewrites, and the goroutine that       *)
(* watches that file.                                                      *)
(*                                                                         *)
(* An entry is its canonical form (blacklistEntryPrefix) and stands for    *)
(* the clients it covers.  A list file is the set of its lines, in         *)
(* whatever order and spelling.  The file's stat is modelled by what it is *)
(* compared for: every write changes it (a write that leaves size and      *)
(* modification time alone is not modelled).  Every operation but the      *)
(* watcher's stat and read runs under a.mu; who holds it is the            *)
(* supervisor's business (Supervisor).                                     *)
(***************************************************************************)
EXTENDS Integers

CONSTANTS Entry,      \* the valid entries
          Crooked,    \* a line with host bits: it parses, blocklist.New rejects it
          Unparsable, \* a line that does not parse
          Absent,     \* in place of the lines of a file that is not there
          Client,     \* client addresses
          Covers,     \* the clients of an entry
          Listener    \* the names of the listeners, in the order of the configuration

Line == Entry \cup {Crooked, Unparsable}
Missing == {Absent}
Content == (SUBSET Line) \cup {Missing}

ASSUME BlacklistAssumption ==
  /\ {Crooked, Unparsable} \cap Entry = {} /\ Crooked # Unparsable
  /\ Absent \notin Line
  /\ Covers \in [Entry -> SUBSET Client]

VARIABLES
  cfg,        \* App.cfg and App.blWatch, stored together: the inline entries,
              \* whether a file is listed and whether it is watched
  adds,       \* App.blAdds
  dels,       \* App.blDels
  effective,  \* App.blEffective, and the list in App.bl
  cfgEntries, \* App.blCfgEntries
  sessions,   \* the live sessions, as <<listener, client>>
  file,       \* the list file
  watcher,    \* WatchBlacklist: its place, the lines it has read, and whether
              \* the stat it took is still the file's
  known       \* the file has the stat that the watcher remembers

memory == <<adds, dels, effective, cfgEntries>>
disk   == <<file, watcher, known>>

Idle == [at |-> "idle", content |-> {}, fresh |-> FALSE]

\* canonicalizeEntries and blocklist.New accept the lines.
Parses(lines) == lines # Missing /\ Unparsable \notin lines
Valid(lines)  == Parses(lines) /\ Crooked \notin lines

Blocked(entries) == UNION {Covers[e] : e \in entries}

\* closeBlacklistClients for each of the entries.
Swept(entries) == {s \in sessions : s[2] \in Blocked(entries)}

\* The list: configured entries and runtime additions, less runtime deletions
\* unless the configured entries have just been read again.
Unioned(entries, added, deleted, refresh) ==
  (entries \cup added) \ (IF refresh THEN {} ELSE deleted)

\* Mutant of Newly: compared with the configured entries before.
NewlyConfigured(list) == list \ cfgEntries

\* The entries whose sessions a rebuild closes.
Newly(list) == list \ effective

\* rebuildBlacklistLocked over valid entries: swap, sweep, remember.
\* BlacklistAdd closes the clients of its own entry besides.
Rebuild(entries, added, deleted, refresh, own) ==
  LET list == Unioned(entries, added, deleted, refresh)
  IN /\ adds' = added
     /\ dels' = IF refresh THEN {} ELSE deleted
     /\ sessions' = sessions \ Swept(own \cup Newly(list))
     /\ effective' = list
     /\ cfgEntries' = entries

\* Any write of the file: writeListFile's rename, or another program's.
Write(content) ==
  /\ file' = content
  /\ known' = FALSE
  /\ watcher' = [watcher EXCEPT !.fresh = FALSE]

\* listFileAdd: a missing file is created, one with an unparsable line refused,
\* one that carries the entry left alone.
ListFileAdd(e) ==
  \/ file = Missing /\ Write({e})
  \/ Parses(file) /\ e \notin file /\ Write(file \cup {e})
  \/ Parses(file) /\ e \in file /\ UNCHANGED disk

\* Mutant of BlacklistAdd: an entry that a file lists is kept in memory only.
BlacklistAddMemory(e) ==
  /\ UNCHANGED disk
  /\ Rebuild(cfgEntries, adds \cup {e}, dels \ {e}, FALSE, {e})
  /\ UNCHANGED cfg

\* BlacklistAdd(e) that succeeds.  One whose file cannot be read, parsed or
\* written is refused, and changes nothing.
BlacklistAdd(e) ==
  /\ IF cfg.listed THEN ListFileAdd(e) ELSE UNCHANGED disk
  /\ Rebuild(IF cfg.listed THEN cfgEntries \cup {e} ELSE cfgEntries,
             adds \cup {e}, dels \ {e}, FALSE, {e})
  /\ UNCHANGED cfg

\* The file carries e and listFileRemove takes it out.
InFile(e) == cfg.listed /\ Parses(file) /\ e \in file

\* BlacklistDel(e) that succeeds: not the 404 of an entry that is not
\* effective, nor one refused because of the file.
BlacklistDel(e) ==
  /\ e \in effective
  /\ cfg.listed => file = Missing \/ Parses(file)
  /\ IF InFile(e) THEN Write(file \ {e}) ELSE UNCHANGED disk
  /\ Rebuild(IF InFile(e) THEN cfgEntries \ {e} ELSE cfgEntries,
             adds \ {e}, dels \cup {e}, FALSE, {})
  /\ UNCHANGED cfg

\* The part of Apply that reads the file and rebuilds, and its error.
ApplyListFails(want) == want.listed /\ ~ Valid(file)
ApplyList(want) ==
  /\ ~ ApplyListFails(want)
  /\ Rebuild(want.inline \cup (IF want.listed THEN file ELSE {}), adds, dels, TRUE, {})
  /\ cfg' = want
  /\ UNCHANGED disk

-----------------------------------------------------------------------------
(* WatchBlacklist *)

\* A tick with a file to watch: its stat is not the one remembered.
PollStat ==
  /\ watcher.at = "idle" /\ cfg.watched /\ file # Missing /\ ~ known
  /\ watcher' = [Idle EXCEPT !.at = "stat", !.fresh = TRUE]
  /\ UNCHANGED <<cfg, memory, sessions, file, known>>

\* The file is read, without the lock; it may be gone by now.
PollRead ==
  /\ watcher.at = "stat"
  /\ watcher' = IF file = Missing THEN Idle
                ELSE [watcher EXCEPT !.at = "read", !.content = file]
  /\ UNCHANGED <<cfg, memory, sessions, file, known>>

\* What the watcher makes of the configured entries, with the inline entries
\* that are configured by now.
Combined == cfg.inline \cup watcher.content

\* Mutant of Remember: the file is taken for seen whatever was written since
\* the stat.
RememberAnyway == known' = TRUE

\* The stat that the watcher took becomes the one it remembers.
Remember == known' = watcher.fresh

\* The lines are not valid: the list stays, and the next tick tries again.
PollFails ==
  /\ watcher.at = "read" /\ ~ Valid(Combined)
  /\ watcher' = Idle
  /\ UNCHANGED <<cfg, memory, sessions, file, known>>

\* The lines are those already applied.
PollAgrees ==
  /\ watcher.at = "read" /\ Valid(Combined) /\ Combined = cfgEntries
  /\ Remember
  /\ watcher' = Idle
  /\ UNCHANGED <<cfg, memory, sessions, file>>

\* The lines are new: they replace the configured entries.
PollReloads ==
  /\ watcher.at = "read" /\ Valid(Combined) /\ Combined # cfgEntries
  /\ Rebuild(Combined, adds, dels, TRUE, {})
  /\ Remember
  /\ watcher' = Idle
  /\ UNCHANGED <<cfg, file>>

=============================================================================
