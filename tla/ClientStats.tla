---------------------------- MODULE ClientStats ----------------------------
(***************************************************************************)
(* The client statistics, internal/clientstats/clientstats.go: goroutines  *)
(* of the data path count packets in a sharded table, one background       *)
(* goroutine evicts, writes snapshots and changes the day, and the process *)
(* may stop, crash and start again.  The files are DailyFile's.            *)
(*                                                                         *)
(* A counter is the set of the packets it has counted, so that a packet    *)
(* lost or counted twice shows.  Clients are the shards that hold them,    *)
(* one each: two in a shard interleave less.  A step is a shard's critical *)
(* section, except that the table's size is read and changed inside one by *)
(* steps of their own.                                                     *)
(***************************************************************************)
EXTENDS DailyFile

CONSTANTS Clients,  \* their number
          ClientOf, \* the client of a packet; Line is the set of the packets
          MaxIPs

ASSUME ClientAssumption ==
  /\ Clients \in Nat \ {0} /\ MaxIPs \in Nat \ {0}
  /\ ClientOf \in [Line -> 1 .. Clients]

VARIABLES
  today,   \* what the clock shows
  mode,    \* of the process: running, being stopped, stopped, or down
  table,   \* Table.shards: the packets counted in them
  tracked, \* Table.tracked
  holding, \* the packets whose goroutine is past the cap's check and holds
           \* the lock of its shard
  day,     \* Table.day
  bg,      \* the background goroutine: its place (at), what for (task), the
           \* shard it is at (i), what it has copied (copy), the clients to
           \* evict (victims, excess) and the day of the tick (now)
  sent,    \* history: the packets that came
  saved,   \* history, per day: the last snapshot renamed into place
  evicted, \* history: the packets whose row was evicted
  missed,  \* history: how many rows were there, stored after their shard was
           \* cleared, when tracked was last reset
  unread   \* history: a start could not read the day's snapshot

statsVars == <<today, mode, table, tracked, holding, day, bg>>
historyVars == <<sent, saved, evicted, missed, unread>>
vars == <<fileVars, statsVars, historyVars>>

Client == 1 .. Clients
Places == {"idle", "collect", "drop", "check", "write", "prune", "clear", "reset"}
Tasks  == {"none", "evict", "tick", "final", "stop"}
Idle   == [at |-> "idle", task |-> "none", i |-> 1, copy |-> {}, victims |-> {},
           excess |-> 0, now |-> 1]

Up == mode # "down"

Rows(c, packets) == {p \in packets : ClientOf[p] = c}
Held(packets)    == {ClientOf[p] : p \in packets}

\* The shards whose lock no goroutine of the data path holds.
Unlocked(c) == \A p \in holding : ClientOf[p] # c

Init ==
  /\ FilesInit
  /\ today = 1 /\ mode = "run" /\ day = 1
  /\ table = {} /\ tracked = 0 /\ holding = {} /\ bg = Idle
  /\ sent = {} /\ saved = [d \in Day |-> {}] /\ evicted = {} /\ missed = 0
  /\ unread = FALSE

-----------------------------------------------------------------------------
(* PacketIn and PacketOut: record *)

\* The client has a row.
RecordHit(p) ==
  /\ Up /\ p \notin sent /\ Unlocked(ClientOf[p])
  /\ ClientOf[p] \in Held(table)
  /\ table' = table \cup {p} /\ sent' = sent \cup {p}
  /\ UNCHANGED <<fileVars, today, mode, tracked, holding, day, bg, saved, evicted,
                 missed, unread>>

\* It has none: below the hard cap the goroutine goes on with the lock held,
\* else the packet goes uncounted.
RecordMiss(p) ==
  /\ Up /\ p \notin sent /\ Unlocked(ClientOf[p])
  /\ ClientOf[p] \notin Held(table)
  /\ holding' = IF tracked >= 2 * MaxIPs THEN holding ELSE holding \cup {p}
  /\ sent' = sent \cup {p}
  /\ UNCHANGED <<fileVars, today, mode, table, tracked, day, bg, saved, evicted,
                 missed, unread>>

\* The new row.
RecordInsert(p) ==
  /\ p \in holding
  /\ holding' = holding \ {p}
  /\ table' = table \cup {p} /\ tracked' = tracked + 1
  /\ UNCHANGED <<fileVars, today, mode, day, bg, historyVars>>

-----------------------------------------------------------------------------
(* The background goroutine *)

\* Starts a pass over the shards.
Collecting(task, b) == [b EXCEPT !.at = "collect", !.task = task, !.i = 1, !.copy = {}]

\* onTick: is the table over its cap?  (The rates of updateRates are left out.)
Tick ==
  /\ bg.at = "idle" /\ mode \in {"run", "stopping"}
  /\ bg' = LET b == [bg EXCEPT !.now = today] IN
             IF tracked > MaxIPs
               THEN Collecting("evict", [b EXCEPT !.excess = tracked - MaxIPs])
               ELSE [b EXCEPT !.at = "check"]
  /\ UNCHANGED <<fileVars, today, mode, table, tracked, holding, day, historyVars>>

\* The next shard of collect, and of the like loop of evictOverCap.
Collect ==
  /\ bg.at = "collect" /\ bg.i \in Client /\ Unlocked(bg.i)
  /\ bg' = [bg EXCEPT !.i = @ + 1, !.copy = @ \cup Rows(bg.i, table)]
  /\ UNCHANGED <<fileVars, today, mode, table, tracked, holding, day, historyVars>>

\* Whom to evict: the least recent of those seen, which may be any of them.
Choose ==
  /\ bg.at = "collect" /\ bg.task = "evict" /\ bg.i > Clients
  /\ \E victims \in SUBSET Held(bg.copy) :
       /\ \/ Cardinality(victims) = bg.excess
          \/ Cardinality(victims) < bg.excess /\ victims = Held(bg.copy)
       /\ bg' = [Idle EXCEPT !.at = "drop", !.victims = victims, !.now = bg.now]
  /\ UNCHANGED <<fileVars, today, mode, table, tracked, holding, day, historyVars>>

\* Mutant of Drop: the row stays in the count.
DropUncounted ==
  /\ bg.at = "drop"
  /\ \E c \in bg.victims :
       /\ Unlocked(c)
       /\ table' = table \ Rows(c, table) /\ evicted' = evicted \cup Rows(c, table)
       /\ bg' = [bg EXCEPT !.victims = @ \ {c}]
  /\ UNCHANGED <<fileVars, today, mode, tracked, holding, day, sent, saved, missed, unread>>

\* The row of one of them goes, if it is there.
Drop ==
  /\ bg.at = "drop"
  /\ \E c \in bg.victims :
       /\ Unlocked(c)
       /\ table' = table \ Rows(c, table) /\ evicted' = evicted \cup Rows(c, table)
       /\ tracked' = IF c \in Held(table) THEN tracked - 1 ELSE tracked
       /\ bg' = [bg EXCEPT !.victims = @ \ {c}]
  /\ UNCHANGED <<fileVars, today, mode, holding, day, sent, saved, missed, unread>>

Dropped ==
  /\ bg.at = "drop" /\ bg.victims = {}
  /\ bg' = [bg EXCEPT !.at = "check"]
  /\ UNCHANGED <<fileVars, today, mode, table, tracked, holding, day, historyVars>>

\* The rest of onTick: another day, or the interval is over, or not yet.
Check ==
  /\ bg.at = "check"
  /\ \/ bg.now # day /\ bg' = Collecting("final", bg)
     \/ bg.now = day /\ bg' = Collecting("tick", bg)
     \/ bg.now = day /\ bg' = Idle
  /\ UNCHANGED <<fileVars, today, mode, table, tracked, holding, day, historyVars>>

FreeInodes == Inode \ InUse

\* The copy is written to a temporary file and renamed over the day's, or one
\* of these fails and leaves nothing.
Written ==
  \/ UNCHANGED <<plain, data, saved>>
  \/ /\ FreeInodes # {}
     /\ LET f == CHOOSE i \in FreeInodes : \A k \in FreeInodes : i <= k IN
          /\ data' = [data EXCEPT ![f] = bg.copy]
          /\ plain' = [plain EXCEPT ![day] = f]
     /\ saved' = [saved EXCEPT ![day] = bg.copy]

\* The end of writeSnapshot, and `go Compress` of finalizeDay.
Write ==
  /\ bg.at = "collect" /\ bg.task \in {"tick", "final", "stop"} /\ bg.i > Clients
  /\ Written
  /\ IF bg.task = "final"
       THEN /\ IdleJobs # {}
            /\ job' = Launched({day})
            /\ bg' = [Idle EXCEPT !.at = "prune", !.task = "final", !.now = bg.now]
       ELSE bg' = Idle /\ UNCHANGED job
  /\ mode' = IF bg.task = "stop" THEN "done" ELSE mode
  /\ UNCHANGED <<gz, today, table, tracked, holding, day, sent, evicted, missed, unread>>

\* Prune of finalizeDay.
Prune ==
  /\ bg.at = "prune"
  /\ plain' = Pruned(bg.now, plain) /\ gz' = PrunedGz(bg.now)
  /\ bg' = [bg EXCEPT !.at = "clear"]
  /\ UNCHANGED <<data, job, today, mode, table, tracked, holding, day, historyVars>>

\* Mutant of Clear: the rows outlive their day.
ClearNothing ==
  /\ bg.at = "clear" /\ bg.i \in Client /\ Unlocked(bg.i)
  /\ bg' = [bg EXCEPT !.i = @ + 1, !.at = IF bg.i = Clients THEN "reset" ELSE @]
  /\ UNCHANGED <<fileVars, today, mode, table, tracked, holding, day, historyVars>>

\* The next shard is emptied.
Clear ==
  /\ bg.at = "clear" /\ bg.i \in Client /\ Unlocked(bg.i)
  /\ table' = table \ Rows(bg.i, table)
  /\ bg' = [bg EXCEPT !.i = @ + 1, !.at = IF bg.i = Clients THEN "reset" ELSE @]
  /\ UNCHANGED <<fileVars, today, mode, tracked, holding, day, historyVars>>

\* The end of finalizeDay.
Reset ==
  /\ bg.at = "reset"
  /\ tracked' = 0 /\ day' = bg.now /\ bg' = Idle
  /\ missed' = Cardinality(Held(table))
  /\ UNCHANGED <<fileVars, today, mode, table, holding, sent, saved, evicted, unread>>

\* The goroutine sees that Stop was called and writes its last snapshot.
LastSnapshot ==
  /\ bg.at = "idle" /\ mode = "stopping"
  /\ bg' = Collecting("stop", bg)
  /\ UNCHANGED <<fileVars, today, mode, table, tracked, holding, day, historyVars>>

-----------------------------------------------------------------------------
(* The process and its surroundings *)

Midnight ==
  /\ today < LastDay
  /\ today' = today + 1
  /\ UNCHANGED <<fileVars, mode, table, tracked, holding, day, bg, historyVars>>

Stop ==
  /\ mode = "run"
  /\ mode' = "stopping"
  /\ UNCHANGED <<fileVars, today, table, tracked, holding, day, bg, historyVars>>

\* The process exits or crashes: only the files remain.
Die ==
  /\ Up
  /\ mode' = "down"
  /\ table' = {} /\ tracked' = 0 /\ holding' = {} /\ bg' = Idle /\ missed' = 0
  /\ job' = [j \in Job |-> NoJob]
  /\ UNCHANGED <<plain, data, gz, today, day, sent, saved, evicted, unread>>

\* Mutant of Loaded: a start begins at zero.
LoadedNothing == {}

\* loadSnapshot
Loaded == IF plain[today] = None THEN {} ELSE data[plain[today]]

\* New: Prune, SweepStale, and the day's snapshot, if it can be read.
Restart ==
  /\ mode = "down"
  /\ Cardinality(StaleDays(today)) <= Cardinality(IdleJobs)
  /\ mode' = "run" /\ day' = today
  /\ plain' = Pruned(today, plain) /\ gz' = PrunedGz(today)
  /\ job' = Launched(StaleDays(today))
  /\ \E ok \in BOOLEAN :
       /\ table' = IF ok THEN Loaded ELSE {}
       /\ tracked' = Cardinality(Held(table'))
       /\ unread' = (unread \/ ~ok)
  /\ UNCHANGED <<data, today, holding, bg, sent, saved, evicted, missed>>

Compressing(j) ==
  /\ CompressStep(j) \/ CompressFails(j)
  /\ UNCHANGED <<statsVars, historyVars>>

-----------------------------------------------------------------------------
Next ==
  \/ \E p \in Line : RecordHit(p) \/ RecordMiss(p) \/ RecordInsert(p)
  \/ Tick \/ Collect \/ Choose \/ Drop \/ Dropped \/ Check \/ Write
  \/ Prune \/ Clear \/ Reset \/ LastSnapshot
  \/ \E j \in Job : Compressing(j)
  \/ Midnight \/ Stop \/ Die \/ Restart

Spec == Init /\ [][Next]_vars

-----------------------------------------------------------------------------
(* Properties *)

\* Every variable has its type.
StatsTypeOK ==
  /\ FilesTypeOK
  /\ today \in Day /\ day \in Day
  /\ mode \in {"run", "stopping", "done", "down"}
  /\ table \in SUBSET Line /\ tracked \in Nat /\ holding \in SUBSET Line
  /\ bg \in [at : Places, task : Tasks, i : 1 .. Clients + 1, copy : SUBSET Line,
             victims : SUBSET Client, excess : Nat, now : Day]
  /\ sent \in SUBSET Line /\ saved \in [Day -> SUBSET Line]
  /\ evicted \in SUBSET Line /\ missed \in Nat /\ unread \in BOOLEAN

Rollover == bg.at \in {"clear", "reset"}

\* "Tracked reports how many distinct IPs are currently held": outside a
\* rollover the count is exact, but for the clients stored during the last one
\* after their shard was cleared, which the reset forgot: it neither drifts
\* further nor recovers, whatever data path and eviction do.
TrackedKnown ==
  ~Rollover => tracked + missed = Cardinality(Held(table))

\* max_ips is a cap beyond which clients are evicted: an eviction that works
\* on a count read earlier, and on a list collected while clients come, never
\* leaves fewer than that.
EvictsOnlyExcess ==
  bg.at = "drop" => Cardinality(Held(table) \ bg.victims) >= MaxIPs

\* "Counters are per-day": no packet is counted in the files of two days, nor
\* in a file of one day and the table of another, through rollovers at any
\* moment, crashes and restarts.
CountedOnce ==
  \A d \in Day :
    /\ \A e \in Day \ {d} : LinesOf(d) \cap LinesOf(e) = {}
    /\ d # day /\ Up => LinesOf(d) \cap table = {}

\* What a snapshot saved for a day is found, plain or compressed, for as long
\* as it is to be kept.
SnapshotKept ==
  \A d \in Day : d >= today - KeepDays => saved[d] \subseteq LinesOf(d)

\* "A restart continues the current day's totals instead of starting from zero"
\* (README, Client stats): the snapshots of a day lose
\* nothing but what was evicted, also when another process writes the next one,
\* unless it could not read the last.
DayNeverShrinks ==
  [][\A d \in Day : unread \/ saved[d] \ evicted \subseteq saved'[d]]_vars
=============================================================================
