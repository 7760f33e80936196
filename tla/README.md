# A TLA+ verification of udpshunt

udpshunt is a UDP load balancer written in Go (`src/`). Each listener reads
packets from a frontend socket, finds or creates a session for the client's
address, and forwards through the session's own upstream socket; one goroutine
per session relays the replies back. This directory holds the TLA+ models of its
core, the TLC configurations that check them on small instances, and the proofs
that TLAPS checks for every instance. `PROJECT.json` lists the components, the
runs, the source lines each definition stands for, and the hazards the
properties are aimed at.

## 1. Inventory

| component | state | operations | talks to |
|---|---|---|---|
| Session table, `internal/session` | 256 shards (mutex + map), atomic `max`, `count`, `rejected`, `created`, `expired`, one counter per (listener, backend), the socket of each session | `Get`, `Put`, `Remove`, `CloseBackend`/`CloseListener`/`CloseAll`/`CloseClients` (`closeWhere`), the reaper (`Start`/`sweep`), `SetMax`, `Touch` | called by everything below |
| Listener, `internal/listener` | the frontend socket, the backends' balancer, `stopped`, the waitgroup of relays, live settings | `Run` (receive loop), `forward`, `createSession`, `startDownstream`, `downstream` (a relay), `WaitDownstream`, `WaitWaiters`, `Close` | table, balancer, blacklist, request log, statistics |
| Balancer, `internal/balancer` | per backend: `healthy`, `errCount`, `successCount`, `suspectSince`, `downSince`, `downConfirm`; the pool and the options behind atomic pointers; the cursor of the rotation | `Pick`, `ReportError`, `ReportSuccess`, `Snapshot`, `Update`, `SetBalance`, `SetHealth`; fires the state-change callback | reports from relays, the receive loop, probers and the admin API |
| Health prober, `internal/health` | one goroutine per backend, a cancel function | `Start`, `Stop`, `probeLoop` | balancer |
| Supervisor, `cmd/udpshunt/app.go` | `a.mu`, the running listeners, the configuration, the three sources of blacklist entries, the digest of the list file | `Apply`, `Reload`, start/update/stop of a listener, `BlacklistAdd`/`BlacklistDel`, `WatchBlacklist`, `Shutdown`, `Status`, the state-change callback | all of the above |
| Blacklist, `internal/blocklist` | an immutable list behind an atomic pointer | `Blocked`, replacement, file parsing | listener, supervisor |
| Request log, `internal/requestlog` | a bounded channel, the open file and its day, `dropped` | `Record`, the writer goroutine, `Stop` | daily file |
| Daily file, `internal/dailyfile` | files on disk | `Compress`, `Prune`, `SweepStale` | request log, client statistics |
| Client statistics, `internal/clientstats` | 256 shards of per-address counters, `tracked`, `evicted`, the day, the snapshot file | `PacketIn`/`PacketOut`, tick (rates, eviction, rollover, snapshot), load, `Stop` | listener, daily file |
| Rates, `internal/rates` | a ring of samples | tick, read | metrics, admin |
| Metrics, `internal/metrics` | Prometheus collectors, among them the health gauge | set/inc | supervisor, listener |
| Admin API, `internal/admin` | an HTTP server | routes that call the supervisor, the balancers' snapshots and the statistics | supervisor, panels |
| Web panel, `web/src` | in the browser: the last status, the last client table, the sort column and order, the error line, one chart per mounted component | two polling timers, a fetch on every click, redraws | admin API |
| Terminal panel, `internal/tui` | the same figures, on a terminal | polls, keys | admin API |
| Configuration, entry point, `internal/config`, `cmd/udpshunt/main.go` | the YAML file | `Load`, `Validate`; start, signals, exit | supervisor |
| Payload filter, packet I/O, web assets | matching, system calls, embedded files | | |

What is hard in it:

* **Interleaving.** The table is changed by every receive loop, every relay, the
  reaper, reloads and health callbacks. `Put` reserves its slot in `count`
  before it takes the shard lock and accounts for the session after releasing
  it; `closeWhere` holds one shard lock at a time; `Remove` takes whatever
  session is stored under the key.
* **Atomicity without locks.** A backend's health is six atomics; each report is
  a sequence of loads, stores and compare-and-swaps.
* **Stale reads.** The receive loop checks the blacklist and picks the backend
  before it stores the session; an eviction or a ban sweeps once.
* **Order of callbacks.** The state-change callback runs outside any lock.
* **Stopping.** Waits with timeouts, relays that block in a read until the stop
  itself closes their sockets, sessions still being set up.
* **Files.** Rotation, compression in the background, restarts after a crash; a
  list file that the API, other programs and a watcher without a lock all use.
* **One step of several failing.** `Apply` stops, updates and starts listeners one by
  one; a bind, or the list file, may fail half-way.
* **Polls that overlap.** The panels start a fetch without waiting for the last one.

What makes each component correct:

* *table* – cap never exceeded, one session per client address and listener,
  counters that agree with the contents, every socket closed with its session,
  a `closeWhere` that misses nothing, idle sessions reaped;
* *listener* – every stored session is relayed, a stop ends every goroutine and
  closes every socket, evicted backends and blocked clients keep no session;
* *balancer* – the documented health machine, traffic alone never takes a
  backend down, each flip told exactly once, recovery; a pick is usable, the best there
  is, and moves no client without need;
* *supervisor, blacklist* – an operator's change is not undone by a concurrent
  reload, poll or restart, a blocked client keeps no session, a failed step of
  `Apply` leaves a state the next one can start from, a report of a dropped
  balancer harms nobody;
* *request log, daily file, statistics* – no loss that is not counted, no day
  file overwritten by a shorter one, a bounded table of clients;
* *web panel* – what is shown comes to be what the server says, whatever order the
  answers come in; a loss of the server is told; no chart is left behind.

## 2. Plan

The order in which the project grew, each step checked before the next:

1. `SessionTable` and its proofs: everything else stands on it.
2. `BackendHealth` (abstract), `Balancer` (the atomics), `BalancerOverlap` (what
   transitions that cross do), `Pick` (the choice), `BalancerProofs`.
3. `Proxy` = listener + supervisor's operations on one listener, extending
   `SessionTable`; `ProxyProofs`.
4. `DailyFile`, and on it `RequestLog` and `ClientStats`; `DailyFileProofs`, and on it
   `RequestLogProofs` and `ClientStatsProofs`.
5. `Blacklist`, and on it `Supervisor`; `SupervisorProofs`.
6. `PanelFigures`, and on it `WebPanel`; `WebPanelProofs`.

What a later step would take: the admin API's routes as callers of all this, and the
sampling of the rates.

## 3. The models

### `SessionTable` – `internal/session/session.go`

One step is one critical section (`Lock`..`Unlock` of a shard) or one atomic
operation outside it whose value another goroutine may see or change before the
next. `Put` is `PutLoad` (reads `max`), `PutReserve` (`count.Add(1)` and the
comparison), `PutReject` or `PutInsert`, `PutDuplicate` or `PutAccount`, with
`CloseRefused` for the caller whose `Put` returned false; `Remove` is
`RemoveUnlink` and `RemoveSettle`; `closeWhere` is `CloseBegin`, one
`CloseShard` per shard and `CloseSettle`; the reaper is `Sweep`, one shard at a
time. A session is an identity handed to one `Put` in its life, so the progress
of each call is a function on sessions. The maps are the set `live`; time is the
set `idle` of stored sessions past their timeout; `caps` and `before` are
history variables. `rejected`, `created` and `expired`, which nothing in the
table reads, change with the neighbouring step. What the reader sees as one map
lookup (`Get`) changes nothing and is no action of its own.

### `Balancer`, `BackendHealth` – `internal/balancer/balancer.go`

`Balancer` takes one backend (backends share no state) and any number of threads
in `ReportError`, `ReportSuccess` and `usable` (the part of `Pick` and
`Snapshot` that changes health). Each atomic operation is a step, and `call[t]`
is the thread's place with the values it loaded. Timestamps are "fresh" or
"old" – whether a `Cooldown` has passed – and counters saturate at the largest
threshold they are compared with, which no comparison can tell apart. The
callback with the gauge, `app.go:564`, is the last step of a call that has a
transition to tell. The gauge's other writer is a reload of the listener
(`updateListenerLocked`): `ReloadBegin` is its second `Snapshot`, which goes through
`usable` like a pick and may have a transition to tell; `SeedLoad` reads the health
that the snapshot returns, `Seed` sets the gauge to it (`app.go:663-665`), and
`SetHealth` swaps `ActiveChecks`, `Rise` and `Fall` for those of any configuration. A
call keeps the options it loaded (`act`, `need`). `config.Validate` demands at least 1
of both thresholds, so that the branch of `SetHealth` that keeps a threshold is never
taken. The backend is one that stays in the pool of a listener that runs: its gauge starts
at 1 (`app.go:614`), and what a stop and a new start, or a removal and a return, do to the
same label is outside. Backends of a pool differ in their calls only, and a goroutine
that looks at several is one thread at each of them. `BackendHealth` is the four-arrow machine of the README's
"Health checks"; `Promise == INSTANCE BackendHealth WITH state <- Shown` is the
refinement mapping.

`BalancerOverlap` adds an observer, which changes nothing: `behind` are the calls in the
middle of which another goroutine made a transition, `crossed` says whether the last
to be made came before the one before it was told (`Tellers`) or was made by a call
that was behind, `tangled` whether any has. A reload that has read the health and not yet
set the gauge counts for `crossed` as one that has something to tell (`Writers`): a
flip in between crosses it.

### `Pick` – `internal/balancer/balancer.go`

A call of `Pick`, as the receive loop of a listener makes it (one at a time, always with
a client's address, on a listener that has `Counts`): `PickPool` and `PickTurn`
are the three atomic loads, the second with the advance of the cursor; the pass is one
step per backend (`PickSkip`, `PickFirst` in rotation, `PickCompare` for the algorithms
that look for the best); `PickBest`, or `PickFailOpen`, which starts the second pass at the
same place; `PickReturn`. Between any two of them `Update` swaps the pool, `SetBalance`
the algorithm, `Flip` a backend's health and `LoadChanges` its sessions. What `usable` does
to a backend is `Balancer`'s; here `up` is what it answers. A hash is any function of client and
backend, a load any value. `seen`, `home` and `recent` are what an observer remembers: of the
call under way who was up or down at some moment of it, of each client its last answer by
hash, of the rotation the last answers with nothing changing.

### `Proxy` – `internal/listener/listener.go`, parts of `cmd/udpshunt/app.go`

`Proxy` extends `SessionTable`: every step that touches the table is a conjunction
of one of the table's actions and the progress of the goroutine taking it, so
that the refinement is the identity on the table's variables.

* `worker` is the receive loop: `Receive`, per packet `Packet` (blacklist check),
  `Found` or `Create`/`NotCreated`, `Putting`, `Start` (`startDownstream`),
  `SendOk`/`SendFails`, `WorkerSettle`; `Exit` when cancelled. The context is
  looked at between batches only, as in `Run`.
* `relay[s]` is the relay goroutine of session `s`: `RelayReply`, `RelayGone`
  (its socket was closed), `RelayRefused`, `RelayWrite` (three outcomes: written,
  client unreachable, frontend closed), `RelaySettle`. The last three error paths
  call `Remove` *by key*, as the code does.
* the supervisor, serialised by `a.mu`, is `Evict` and `Admit`
  (`updateListenerLocked`), `Block`, `BlockAdd` + `BlockCommit`
  (`BlacklistAdd` sweeps before and after the swap), `Unblock`, and the stages
  of `stopListenerLocked`: `StopCancel`, `StopDrain`, `StopSweep`, `StopClose`,
  `StopJoin`. Its bounded waits may end at any time, which includes both their
  outcomes. `CallbackClose` is the health callback under `on_down: close`, on a
  goroutine of its own.

Whether a dial, a read or a write fails is left to the environment. `late` is a
history variable: the clients whose packet was in `forward` when a list or a pool
was swapped.

`OwnFailureOnly` is about the session that `forward` found and that somebody closes before it is
written to. `Put` compares with the cap while others' slots are being returned, so it may
turn a client away while fewer sessions than the cap are stored (two calls at a cap of
one may even both fail); `AdmissionExact` says how far that goes.

### `DailyFile`, `RequestLog`, `ClientStats` – `internal/dailyfile`, `internal/requestlog`, `internal/clientstats`

`DailyFile` is the directory: `plain` maps a day to the file that has its name,
`data` a file to the lines in it, `gz` a day to its compressed twin. Names and
files are apart because the code depends on it: a file that was unlinked or
replaced lives on for whoever has it open. A goroutine of `Compress` (`job`) takes a
step per file operation, `CompressOpen`, `CompressCreate` (which truncates),
`CompressCopy`, `CompressRemove`, each of which may fail (`CompressFails`) and
between any two of which the process may die. Two goroutines with the same twin
open may leave anything in it. `Prune` and `SweepStale` are the operators `Pruned`,
`PrunedGz`, `StaleDays` and `Launched`, used in the steps that call them.

`RequestLog` extends it with the bounded channel `queue`, the writer goroutine
`writer` (its day, its open file, what `bufio` holds and bufio's sticky error) and
the process. `write` is `Take` (with `RotateTo` when the line's day is not the
file's), `Prune`, then `Encode`, `EncodeFails` or `EncodeSpills` (bufio is full);
`onTick` is `TickOpens`, `TickRotates` or `TickFlushes`; the stop is `Stop`, `Drain`,
`Finish`; `Die` and `Restart` (`New`) are crashes, exits and starts. Every open
and flush may fail. A line is an identity with the day it was recorded on.

`ClientStats` extends it with the table of counters. A counter is the set of the
packets it has counted, so that one that is lost or counted twice shows. Clients
stand for the shards that hold them. `record` is `RecordHit`, or `RecordMiss` (the
cap is looked at) and `RecordInsert`, with the shard's lock held in between
(`holding`). The background goroutine is `bg`: `Tick`, `Collect` per shard, `Choose`
and `Drop` (`evictOverCap`), `Check`, `Write` (`writeSnapshot`'s file and rename),
then `Prune`, `Clear` per shard and `Reset` (`finalizeDay`), `LastSnapshot` for a
stop. Which of the clients seen is the least recent is left open, and rates are
left out.

### `Blacklist`, `Supervisor` – `cmd/udpshunt/app.go`, with `internal/blocklist`, `internal/health` and `cmd/udpshunt/main.go`

`Blacklist` is the list and where it comes from. `Rebuild` is
`rebuildBlacklistLocked`: the union of the configured entries (`cfgEntries`) and the
runtime additions (`adds`) less the runtime deletions (`dels`), the swap, and the
sweep of the clients of newly effective entries. It is called by `BlacklistAdd` and
`BlacklistDel` (which first rewrite the list file, if there is one), by the end of
`Apply` (`ApplyList`) and by the watcher, whose tick is `PollStat`, `PollRead` – both
without the lock – and one of `PollFails`, `PollAgrees`, `PollReloads` under it. An entry
stands for the clients it covers; a line may also be one that does not parse, or one
that parses and that `blocklist.New` rejects. A file's stat is modelled by the question
asked of it: is it the one the watcher remembers (`known`), is it still the one
of this poll (`watcher.fresh`).

`Supervisor` is the process around it. `Start` and `Reload` load the configuration;
`Apply` is `ApplyBegin` (takes `a.mu`), `ApplyRemove`, `ApplyUpdate`, `ApplyMove` and
`ApplyStart` per listener, in the order of the code, `ApplyError` or `ApplyFinish`. `Add`,
`Delete`, `Watch` take the lock for one step; `Packet` and `Expire` create and end
sessions at any time; `ProbeOut`, `ProbeDown`, `ProbeCloses` are a probe and its
callback, `StrayReports` and `StrayCloses` those of a balancer that was dropped
meanwhile; `Kill` is a death of the process, `EditYaml`, `EditFile`, `EditAddress` what
other programs do. A running listener is its bind. `promise` is a history variable:
the entries that an answered POST added and no DELETE has taken back.

### `PanelFigures`, `WebPanel` – `web/src`

`PanelFigures` has the functions of `lib/api.js` and the computed values of the
components, as operators over an answer: rates from a ring of samples,
`SumBackends`, the curves (`RateSeries`, the loop of `rateSeries`), `HumanBytes`, `Ago`. `WebPanel` has the page: `flight` are
the fetches under way, sent by `StatusTimer`, `ClientsTimer`, `SetSort` and the mount
of the client table, each with the parameters of the moment it was sent;
`Answer` and `Fail` end them, in any order; `StatusArrives`, `StatusFails`,
`ClientsArrive` and `ClientsFail` are the code after the `await`. `Show` replaces the
status and with it the mounted components: their charts and resize handlers come
and go. Under Vite's development server only `/status` is passed on (`dev`).

## 4. The runs

| run | instance | what it shows |
|---|---|---|
| `session_table` | 1 listener, 2 clients in the first of 2 shards, 2 backends, 3 sessions (two of one client), 1 closer, caps {1, 2}, starting at 2 | cap, admission, counters, sockets, `closeWhere`, reaping |
| `balancer_seq` | 1 thread, Fall and Rise 1 or 2, swapped live | of reports that do not overlap: recovery needs consecutive successes; passive mode recovers (liveness) |
| `balancer_overlap` | 2 interchangeable threads, one reload at a time, Fall 1 or 2, Rise 2 | traffic alone never takes a backend down, each flip is told once; the gauge is right unless the last transition or reseeding crossed another; up to the first transition that does, the atomics implement `BackendHealth` |
| `pick` | 2 backends, 1 client, three pools (the list turned round, one backend removed) and three algorithms switched live, loads {0, 1}, a cursor of width 3 | a pick was usable, or nobody was; it is the first of the best; no client moves without need; the rotation reaches every usable backend |
| `proxy` | 1 client, 2 backends, 2 sessions, 1 shard, cap 1, one backend may leave, join or go down | every stored session is relayed, only late packets escape a sweep, a failure is charged to the session that failed, a stop completes (liveness) |
| `request_log` | 2 lines, 2 days kept for 1, a queue of 1, one `Compress` at a time | every line reaches the buffer or is counted as dropped (lines lost with a failed flush have reached it), a stop flushes, what was written is found again; a day that is over is compressed, by the rotation or the next start (liveness) |
| `request_log_late` | 2 lines, 2 days, two `Compress` | *violation*: a late line is lost |
| `client_stats` | 2 clients, 3 packets (two of client 1), `MaxIPs` 1, 2 days | the count is known, no packet is counted on two days, no snapshot is lost or shrinks |
| `web_panel` | 3 statuses (none, one, two listeners with a shared backend), 2 fetches under way, 2 clicks, 2 changes of the server | charts follow the page, the overview is the sum of the cards; the rows come to be sorted as the header says, the page to show what runs, a loss to be told (liveness) |
| `web_bytes` | byte totals around the units | *violation*: amounts are shown 1024 times too large, or without a unit |
| `supervisor` | 2 listeners that trade addresses, 2 entries, 2 clients, 3 configurations, 5 contents of the list file, five scenarios of what happens how often | no blocked client keeps a session, an answered add holds, a reload spares what stays, late reports are inert; the list follows its file (liveness) |
| `supervisor_reload` | the instance of `supervisor` | *violation*: a reload that fails has stopped listeners of the configuration in force |

**Why these bounds are enough.** Three sessions are two for the same key and one
for another, the least that has a duplicate `Put`, a `Put` racing a `Remove` of
the same key, and a cap of 2 reached. Both keys share a shard, so that one critical section of `closeWhere` or the
reaper takes several sessions; the second shard is the least that lets `Put`s
come between the walk's last hit and its settling, and a wrap-around go wrong. Caps {1, 2} let `SetMax` move both
ways around the number of sessions; 0 (unlimited) makes `CapNeverExceeded`
vacuous and is covered by the proof. In the balancer Fall 2 is the least with a streak.
Two threads are the least whose transitions cross, or one that crosses a reseeding; the
safety properties are proved for any number. In `pick` the width of the cursor, 3
in place of 2^64, is no multiple of 2, so that the jump of the wrap
occurs within a pool (2^64 is one of no pool size but the powers of 2); a window of 2 is a
round of the longer pools. The shortest pool lacks a backend that a reload
brings back. Three backends, two of which hash alike, were checked once, the rotation (a cursor of
width 8, a window of 4) apart from the ranked algorithms, which do not look at the cursor
(14,000 and 1.8 million states).
In `proxy` two sessions of one client on two backends are what the code can
confuse: the old one and its successor. `Batch = 1` loses nothing but the number of packets
handled before the context is looked at again. `Leaving` bounds which backends
operations move; with it the instance with liveness stays in minutes. The
safety properties of `proxy` were also run without that bound, and with 2 clients
in 2 shards, with and without evictions (9.5 million states), without a
violation; they are left out for their length. All of them are proved for
every instance, so that no bound matters for them.

In the request log two lines are the least that fill a queue of one while one is
in the writer's hand; two days, the second still running when the process is
restarted, are the least with a rotation, and a file of the first is kept. `Inodes` and `Jobs`
bound the files and `Compress` goroutines that exist at a time: a step that needs
another waits for one to end, which loses only behaviours in which more of them
pile up. The invariants were also checked once with 3 days, in which something
expires, and with two `Compress` (3.5 and 14.7 million states). In the
statistics `MaxIPs` 1 lets two clients exceed the soft cap, and the hard cap of 2
is met while a rollover has not yet reset the count; an instance with three clients was
also checked once (2.4 million states). `MCView` drops the content of files that
are neither named nor open, which nothing reads. With two days nothing expires; retention is in those two checks, and
in the proofs.

In `web_panel` two fetches are the least that can overtake each other, two clicks the
least after which an older order can arrive last, two changes a server that goes
and comes back, or a reload and a loss. The kilo of `humanBytes` is 32 there and in
`web_bytes`, so that all its powers fit TLC's integers. In `supervisor` two listeners
that trade addresses make a bind fail for a reason inside the configuration, another
program's bind one outside; one entry covers both clients and one a single
one, so that a delete may leave a client blocked. What happens how often is bounded
by `Budgets`: five scenarios, each of which lets two kinds of events interleave as
often as one counterexample would need (two calls and an edit, a death between a
call and its restart, two reloads, a probe across a reload, two deaths).
The proofs have no such bound.

Deadlock checking is off in the runs of the table and the proxy, whose
instances stop when every session has been used, in those of the log and the
statistics, where a queue, a day or a file bound may be used up, and in those of
the supervisor, whose budgets may be; nowhere else.

**Fairness.** `FairSpec` of the table: weak fairness of `Sweep` – the ticker
keeps firing and the reaper does not block outside the short shard locks.
`FairSpec` of the balancer: a call under way ends (no call blocks), time passes,
and picks or status requests keep coming (strong fairness, since other calls of
the same thread may come between) – without them a passive backend cannot come
back, as the code's comment says. `ProxyFairSpec`: once cancelled, the receive
loop runs to its exit (its read has a deadline through the cancelled context and
its writes do not block), a relay whose socket is closed returns, the
supervisor's waits are bounded by timeouts, and so is a `closeWhere`. Nothing
forces a packet, a reply, a dial or an operation to happen. `FairSpec` of the
request log: the writer goroutine and those of `Compress` run on (weak fairness), and
the ticker, one case of the writer's `select`, is chosen again and again even
while lines keep coming (strong fairness: `select` chooses among the ready cases at
random). Midnight, stops, crashes, restarts and failures are never forced.
`FairSpec` of the supervisor: an `Apply` under way runs through (its steps do not block
for ever) and the watcher's ticker goes on. `FairSpec` of the panel: the two intervals
fire again and again and get their turn on the connection (strong fairness, since a
bound on the fetches under way may hold them up), the server answers or the fetch
fails, and the browser resumes what has ended.

## 5. What is proved

TLAPS checks eight modules of proofs. None of them bounds the constants: they hold
for any sets of listeners, clients, backends, sessions, closers, goroutines, lines,
entries and configurations, any number of shards and days, any caps, thresholds and
sizes. The assumptions are those stated in the modules; the ones that say
something are at least one shard and a shard for each key, finitely many sessions and
goroutines (`FiniteSessions`, `ThreadAssumption`: at any time only finitely many
exist), that `App` and `Health` are two different closers, and that a configuration
with a watched file lists it. The type invariants are proved and not run again; nor are
six properties that were run until they were proved. Others come close to five of them:
`KeyUnique` (`CountExact` runs), `DownIsExplained` (`EveryFlipToldOnce`), `HealthPromise`
and `GaugeTellsHealth` (`PromiseUnlessTangled` and `GaugeUnlessCrossed`, which for one
goroutine say the same) and `NoRelayOutlivesStop` (`StopCompletes`). The sixth,
`EvictsOnlyExcess`, has no such neighbour: `TrackedKnown` would not see an eviction that
takes too many.

**`SessionTableProofs`, `ProxyProofs`**

* `TypeCorrect`. Types; `DeductedType` carries the counters.
* `SocketsCorrect`: `Spec => [](Lifecycle /\ SocketsFollowTable)`. `Lifecycle` is
  the invariant everything rests on: a session passes from the table to exactly
  one remover (a `Remove` or one `closeWhere`) and was stored by a `Put` that won.
  It is inductive on its own, given the types.
* `KeyUniqueCorrect`: `PutInsert` looks at the map in the same critical section.
* `CountCorrect`: `count` is the cardinality of the disjoint union of the stored,
  the reserved, those rolled back, the removed and those a `closeWhere` still
  owes. Disjointness comes from `Lifecycle`; each action moves one session, or a
  set `hit`, between two parts.
* `CapCorrect`: needs `CountCorrect` and `LimKnown` (the cap a `Put` compares with
  was in force). The reservation counts slots that are over the cap or owed, so
  `count` only over-estimates; a `Put` that passes its comparison therefore
  leaves no more than its cap in the table and reserved. The cap is the one it
  *read*, hence "some cap that has been in force".
* `CloseWhereCorrect`: needs `BeforeStored`; a session stored before the call is in
  a shard the walk has not reached, and the walk takes it there.
* `LedgerCorrect`: `created - expired` and each counter of a (listener, backend)
  are the sessions stored, or removed and not yet deducted, less those stored and not
  yet added. Needs only the types and `Lifecycle`: three lemmas, for a session stored, one
  added and a set deducted, cover all actions.
* `ImplementsTable`: `ProxySpec => Spec` – each proxy step is a table step or a
  stutter of it. `TableKept` transfers the theorems above.
* `ProxyTypeCorrect`.
* `SessionHasRelayCorrect` and `NoRelayOutlivesStopCorrect`: the invariant is
  `ProxyInv`, one named conjunct per actor. `WorkerPlaced` says that the receive
  loop has at most one session, of its own listener, not yet relayed;
  `RelayPlaced` that a relay's session was stored; `StopStages` what each stage
  of a stop has done (in particular that `stopped` is set before the sweep);
  `Swept` that during the final sweep the relayed sessions lie in shards still
  ahead, and that there are none afterwards. Neither theorem is inductive by
  itself: a relay that gives up removes *by key*, and only `KeyUnique` (from the
  table, through the refinement) makes that its own session while it is stored;
  a relay that returns without removing does so only after the frontend socket
  is closed, and only `Swept` says that nothing is left then.
* `AdmissionCorrect`: an admission, and a refusal, follow from the exact count: the slots
  counted at the moment of the comparison are those of `Counted`, and all but those of
  `Reserved` and `live` only make it larger.
* `OwnFailureOnlyCorrect`: needs `HandOnly` – only the receive loop stores sessions for its
  listener, so that while it has one at hand the table has that one for the client or
  none, and a `Remove` by key cannot reach another.
* `OnlyLateEscapeCorrect`. The property speaks of moments between two operations;
  `EscapeInv` says what holds during one: a session of what departs is late
  (`Marked`) or still before the walk that began at the swap (`Awaited`), and what the
  receive loop has at hand was seen by the swap.

**`BalancerProofs`.** The invariant is `TypeOK /\ Explained /\ Justified /\ Told`.
`Explained` adds to `DownIsExplained` that whoever stands before the flip has written
the confirmation; `Justified` adds to `TrafficNeverKills` that whoever may flip the
backend by and by has a reason, and so has a stamp that is old; `Told` is
`EveryFlipToldOnce`, kept by giving each call a weight (+1 with a down to tell, -1 with
a recovery). A step changes one call, so each needs to show `Sound(t)`: what it does
to its own call and to the backend. `HealthPromiseCorrect`, `GaugeTellsHealthCorrect` and
`RiseConsecutiveCorrect` assume one goroutine, which is what "reports that do not
overlap" means; `Alone` says that what the call has loaded is still so, that the gauge
lacks only what the call has to tell, and that the streak counted is no longer than
the one there was.

For calls that overlap in any way, `GaugeUnlessCrossedCorrect` and
`PromiseUnlessTangledCorrect` rest on `OverlapInv`: what a call has read of the health is still so
unless it is behind (`Fresh`); after a transition or a reseeding that crossed none at most one
call has something to tell or to set, and that is how the backend is (`Latest`); until a
transition crosses another, one call at most has one to tell, no suspicion is lost under a
call that is to confirm it, and none outlives its down (`Untangled`). Every step of a
call is of one of six kinds – it changes nothing others see (`Plain`), makes a transition
(`Moves`), ends a confirmed suspicion (`Unstamps`), tells (`Informs`), reads the health for a
reload (`Reads`) or sets the gauge with it (`Seeds`) – so that six lemmas do for all
actions, and `StillStep` for what five of them have in common.

The theorems about `Pick` have one invariant, `PickTypeOK /\ PickInv`: what the observer
has noted is what was (`Observed`); whoever the pass has behind it is among those it chooses
from or was seen down (`Passed`), which at the end of a fruitless pass, since the turns of
a round come to every place (`PlaceComes`, from arithmetic of `%`), is everybody
(`NobodyUsable`); the best so far is the first of the best (`Ranked`), which the last answer by
hash then remains (`HomeBest`); whoever is usable at its turn takes it (`TakesTurn`), so that
the answers in the window are those of consecutive turns (`Rotates`).

**`SupervisorProofs`.** The invariant is `SupervisorTypeOK /\ NoBlockedSession /\ Kept`. `Kept`
says what `AddHolds` needs between operations: the list is the union of its sources
(`Merged`), nothing is both added and deleted (`Exclusive`), the entries promised are
among the additions (`HeldAdded`) and, when a file is listed, in the file
(`KeptInFile`), and the watcher and the list inherit them (`ReadInherits`,
`ListInherits`), the last two because a write in between makes the poll's stat
stale. `ReloadSpares` and `LateReportsInert` are action properties from the same
invariant.

**`DailyFileProofs`** has what the next two share. `CompressKeeps` is the argument about
files: what a day's lines are stored in (`Stored`: the plain file, or the complete twin)
survives any step of `Compress`, failed ones included, as long as one goroutine is at
a day (`Lone`) and each has open what the name still stands for, and removes only
what the twin has (`Faithful`). `Launches` says that `Launched` gives different days to
different goroutines, `CompressFrame` that a goroutine changes only its own day.

**`RequestLogProofs`.** `Accounted` adds up only because a line is in one place at a time
(`OnePlace`: once in the queue, or in the writer's hand, or in bufio); `StopFlushes`
needs `Written` (what bufio took is flushed, or still there, or a failure is known),
`Stopped` and `Resting`; the rest are what types need (`Sourced`: a goroutine of `Compress`
past its open has a source; `Unopened`: an open file has a day; `Handed`, `Stamped`).
`KeptInOrderCorrect` needs a second invariant, `Order`, which holds until a line is
late: a day with a goroutine of `Compress`, or a twin, is *past* for good – neither the
writer nor a line on its way is of it – (`Dated`, with `Timely` and `Down`), so that the
premises of `CompressKeeps` hold; a file has one name (`Named`); and every day to be
kept has its lines (`Kept`). `Writes` is what all steps of the writer do to the files;
`KeptWriting` shows that it does no harm. That a rotation opens a day no earlier than any
that is queued is where `~late` is used.

**`ClientStatsProofs`.** Three invariants, one on the other. `CountInv` (for `TrackedKnown` and
`EvictsOnlyExcess`): a row on its way in has its shard's lock, which eviction and the
passes over the shards need (`Locks`), and what an eviction chose is still no more than
the excess (`Surplus`). `ApartInv` (for `CountedOnce`): the packets that can be reached from
a day's names and open files (`Reach`) are of no other day, and the table's are of its
day or, once cleared, of none (`Apart`, `Known`, `Cleared`). `FilesInv` (for `SnapshotKept`):
the table's day is not ahead of the clock and a rollover goes forward (`Clock`), so that
a day is compressed once, after it is over (`Dated`), and `CompressKeeps` applies (`Kept`).
`DayNeverShrinks` adds `Grows`: the day's snapshot, less what was evicted, is in the
table until the rollover clears it, and in the copy for the next one as far as the pass
has come.

**`WebPanelProofs`.** `ChartsFollowStatusCorrect` (charts and resize handlers are those of the
components on the page) and `AgoReads` (the text of `ago` read back is the age in
nanoseconds, to within half a second below an hour and the minute from there on; `ago`
rounds to the nearest second first, so that 59.6 s read "1m0s"; "-" for a row that was
never seen, and zero for a clock that is behind. The division of the code is of
floating-point numbers, whose error, some hundred nanoseconds, is not modelled).
`OverviewAgreesCorrect` is about loops, over any number of listeners and samples:
`UpFold` says what `sumBackends`' map holds at the end (what some listener reports, so
that the order does not matter), `SeriesTurns` with what a curve ends. Both are by
induction, which `LeastSet` supplies: a collection of subsets of a finite set has a
minimal member (the library's well-founded order on finite sets, which takes no
operator), so a counterexample to a loop's invariant has a smallest one; `NatSet` and
`LoopRuns` (the values a loop goes through exist) follow.

**Only model-checked**: liveness (`IdleReaped`, `PassiveRecovers`, `StopCompletes`,
`DayCompressed`, `LeftoverCompressed`, `SortSettles`, `PanelConverges`, `LossIsTold`,
`BlacklistSettles`), which is out of TLAPS's reach. Every other property of the passing
runs is proved.

## 6. Where code and documentation disagree

* `request_log_late`: lines of the old day that are still queued when the tick rotates
  make `write` reopen the old day's plain file, under the feet of its
  `Compress`, or a second `Compress` truncates the `.gz` of the first: lines that were
  written are in no file (`requestlog.go:229`, `dailyfile.go:37`). `KeptInOrder` shows
  that without such late lines nothing is lost, whatever fails or crashes.
* `web_bytes`: `humanBytes` takes the unit after the right one, and runs out of units
  from 1024^4 on: "undefined" in the browser (`api.js:43`); the terminal panel's
  function of the same name has the same loop (`render.go:117`) and would panic there.
* `supervisor_reload`: `Apply` stops what the new configuration moves or removes before
  it tries to bind (`app.go:154`); when the bind fails these listeners stay stopped, while
  the README promises that a failed reload changes nothing. Two listeners that
  trade addresses never get through: every reload fails in the same way.

What the models show besides, without a run of its own:

* "Removing a backend from the config always closes its sessions" (`README.md:441` of the
  repository), and "once swapped, no new session can be created for a newly blocked
  entry" (`app.go:246`): the backend is picked, and the blacklist checked, before the
  session is stored (`listener.go:187`, `290`, `313`); the sweep after the swap can come
  between, and the session stays until it idles out. TLC shows it in the
  instance of `proxy`; `OnlyLateEscape`, proved, says that these late packets are the only
  way, so that at most one packet per swap and listener is concerned.
* "Even rotation across healthy backends" (`README.md:377`) is not what round_robin does
  while one is down: its turns fall to its successor in the list, which serves
  them and its own (`balancer.go:260`). In a pool of three whose second is down TLC shows the
  last answered three times in four picks. `RotationReaches` holds none the less.
  Its window starts anew at the wrap of the cursor: there the rotation jumps, and a
  round across the jump may miss a backend.
* Callbacks that overlap (`app.go:567`): the callback of a suspicion can be overtaken
  by the one of the down that follows, and sets the gauge to 1 for a backend that is
  down. `GaugeTellsHealth` holds, and is proved, for calls that do not overlap; with
  two threads TLC refutes it. So does a reload (`app.go:663`): a flip and its callback
  that fall between its `Snapshot` and its `SeedBackendHealthy` are overwritten with the
  health from before, though no transition crossed another. `GaugeUnlessCrossed`, proved
  for any number of goroutines, says that such crossings, of two transitions or of a
  transition and a reseeding, are the only way, and that the next of either that crosses
  none puts the gauge right. It speaks of a backend that stays in the pool: the label of
  one that was removed keeps its last value until it returns, and a callback of a
  balancer that was dropped may still write the label of its successor.
* A relay whose session was closed by somebody else removes by key
  (`listener.go:360`), and the client's *next* session may be stored there by then: it
  is closed right after it was created. The client's next packet makes another.
* `Tracked` "reports how many distinct IPs are currently held" (`clientstats.go:365`),
  but a row stored between the clearing of its shard and the reset of `tracked` stays
  out of the count until the next rollover; `TrackedKnown` shows that this is
  the only way for the two to differ.
* A process that starts before midnight, and whose log opens no file before it,
  leaves the plain file of the day before to the next start; `DayCompressed` is
  therefore about days whose file is open when they end.
* A callback that was loaded before the detach may still close sessions of a
  listener started since under the same name; `LateReportsInert` shows that no other
  report does.

And what reading the code showed, that no model has:

* `SetBackendHealthy` counts a flip and is to be called "only on real UP<->DOWN
  transitions" (`metrics.go:172`); the callback calls it first, for every transition
  (`app.go:567`), so that a suspicion and its end count as flips too.
* A poll that has read its file before a reload turns watching off, or lists no file,
  applies these lines after the reload (`app.go:905`): the next reload removes them.
* Two reloads that overlap, by signal and by the API, apply in the order they get the lock,
  which need not be the order in which they read the file; the older content may
  stay in force.
* Entries added while the first `Apply` has not finished are kept in memory only, as no
  file is listed yet; at the start listeners serve for a moment before the list is
  built, since `Apply` starts them first.
* Listeners started by a reload that failed later run, and are not in `Status`, which lists
  those of the configuration in force.
* An entry that is both inline and in the file, when deleted, comes back with the
  next poll that sees the file change.
* The terminal panel schedules its next poll when a poll returns and also when a key
  asks for one (`tui.go:60`, `131`), so that the number of polling chains grows with
  the keys pressed.
* `vite.config.js` passes `/status` on and not `/clients`: in development the client
  table stays empty. `EventStream.vue` keys events by time and kind, which two of
  them can share. The overview's time axis is the first listener's, also when
  another has more samples.

## 7. Not modelled, and why

Payload contents and the payload filter (a packet it drops touches no state
modelled here), packet batching below `Batch`, logs and counters that nothing
reads, YAML parsing and most checks of `Validate`, HTTP routes, the terminal panel,
packaging. Byte and packet metrics are plain counters, rates a ring of samples under
one lock. The settings that `updateListenerLocked` swaps in place (timeouts, payload rules,
logging flags) change no step of a session's life. In `Proxy` the pick is an open choice among the
backends of the pool; its effect on health is in `Balancer`, and which backend it
prefers in `Pick`. The bytes of the rendezvous hash are data. In `Supervisor` one reload at a time is between
its load and its `Apply`. The web panel's layout, its chart options and the library
calls behind them are data. Nothing here depends on the order of a Go map or on
the scheduler beyond the fairness stated above.
