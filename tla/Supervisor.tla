----------------------------- MODULE Supervisor -----------------------------
(***************************************************************************)
(* The supervisor of cmd/udpshunt/app.go: a process that loads its         *)
(* configuration, applies it to the running listeners and the blacklist    *)
(* one step after the other, reloads it, dies and is started again, with   *)
(* the blacklist API, the file watcher, the clients' packets and the       *)
(* health probes going on meanwhile.                                       *)
(*                                                                         *)
(* job is the Apply that holds a.mu; every other critical section is one   *)
(* step (packets, sessions and the sweep against each other are Proxy's).  *)
(* A listener is its bind: backends, timeouts and payload rules, which     *)
(* updateListenerLocked swaps in place, are left out.  SIGHUP and POST     *)
(* /reload may overlap in the program; here one reload at a time is        *)
(* between its Load and its Apply, and none before the first Apply has the *)
(* lock.                                                                   *)
(***************************************************************************)
EXTENDS Blacklist

CONSTANTS Addr,    \* bind addresses
          Closed,  \* the bind of a listener that is not there
          Configs, \* the configurations that the config file may hold
          Edits,   \* the contents that other programs give the list file
          Probed,  \* the listeners with health checks
          Budgets  \* bounds on edits, API calls, reloads, deaths and probes

Binds == [Listener -> Addr \cup {Closed}]
Config == [bind : Binds, inline : SUBSET Entry, listed : BOOLEAN, watched : BOOLEAN]
Budget == [edits : Nat, calls : Nat, reloads : Nat, deaths : Nat, probes : Nat]

ASSUME SupervisorAssumption ==
  /\ Closed \notin Addr /\ Listener \subseteq Nat /\ Probed \subseteq Listener
  /\ Configs \subseteq {c \in Config : c.watched => c.listed}
  /\ Edits \subseteq Content
  /\ Budgets \subseteq Budget

VARIABLES
  yaml,    \* the config file
  phase,   \* the process: down, starting (before the first Apply is through),
           \* serving
  loaded,  \* the configuration that was loaded and not yet applied, as a set
  job,     \* the Apply under way: what it applies, whether it is the first,
           \* and the listeners still to be updated or started
  binds,   \* App.binds: where each listener runs
  taken,   \* the addresses that other programs have bound
  probe,   \* per listener: no probe out, one out, or its callback under way
  stray,   \* probes and callbacks of balancers that were dropped
  promise, \* history: entries added and not deleted, in this process (held)
           \* and, through the file, in the next (kept)
  left     \* what is left of the bounds

process == <<phase, loaded, job, binds, probe, stray>>
world   == <<yaml, taken>>
vars    == <<cfg, memory, sessions, disk, process, world, promise, left>>

\* NewApp: nothing is configured until the first Apply.
NoConfig == [bind |-> [l \in Listener |-> Closed],
             inline |-> {}, listed |-> FALSE, watched |-> FALSE]
Free == [want |-> NoConfig, first |-> FALSE, rest |-> {}, held |-> FALSE]

Unlocked == ~ job.held
Spend(what) == /\ left[what] > 0
               /\ left' = [left EXCEPT ![what] = @ - 1]

Init ==
  /\ yaml \in Configs /\ file \in Edits /\ left \in Budgets
  /\ phase = "down" /\ loaded = {} /\ job = Free
  /\ cfg = NoConfig /\ binds = NoConfig.bind /\ sessions = {}
  /\ adds = {} /\ dels = {} /\ effective = {} /\ cfgEntries = {}
  /\ watcher = Idle /\ known = FALSE
  /\ taken = {} /\ stray = {}
  /\ probe = [l \in Listener |-> "none"]
  /\ promise = [held |-> {}, kept |-> {}]

\* The process ends, by itself or killed: its memory and its sockets go.
Die ==
  /\ phase' = "down" /\ loaded' = {} /\ job' = Free
  /\ cfg' = NoConfig /\ binds' = NoConfig.bind /\ sessions' = {}
  /\ adds' = {} /\ dels' = {} /\ effective' = {} /\ cfgEntries' = {}
  /\ watcher' = Idle /\ known' = FALSE
  /\ stray' = {} /\ probe' = [l \in Listener |-> "none"]
  /\ promise' = [promise EXCEPT !.held = {}]
  /\ UNCHANGED <<file, world>>

-----------------------------------------------------------------------------
(* Starting and stopping a listener *)

\* The address of a listener is free for it.
CanBind(l, addr) == addr \notin taken /\ \A k \in Listener : binds[k] # addr

\* Mutant of Detached: the balancer that is dropped keeps its callback.
Attached == "live"

\* The state-change callback of a balancer that is dropped is gone: a probe
\* that is still out will find none.
Detached == "mute"

\* What becomes of the report under way.
Abandoned(l) == IF probe[l] = "out" THEN {Detached} ELSE {probe[l]} \ {"none"}

\* stopListenerLocked
StopListener(l) ==
  /\ binds' = [binds EXCEPT ![l] = Closed]
  /\ sessions' = {s \in sessions : s[1] # l}
  /\ probe' = [probe EXCEPT ![l] = "none"]
  /\ stray' = stray \cup {<<l, now>> : now \in Abandoned(l)}

-----------------------------------------------------------------------------
(* Load and Apply *)

\* config.Load accepts the file, and the list file it names.
Loadable(c) == c.listed => Valid(file)

Start ==
  /\ phase = "down" /\ Loadable(yaml)
  /\ phase' = "starting" /\ loaded' = {yaml}
  /\ UNCHANGED <<cfg, memory, sessions, disk, job, binds, probe, stray, world, promise, left>>

\* Reload up to Apply; one whose Load fails changes nothing.
Reload ==
  /\ phase # "down" /\ loaded = {} /\ Loadable(yaml)
  /\ phase = "starting" => job.held
  /\ Spend("reloads")
  /\ loaded' = {yaml}
  /\ UNCHANGED <<cfg, memory, sessions, disk, phase, job, binds, probe, stray, world, promise>>

\* Apply takes the lock.
ApplyBegin ==
  /\ Unlocked
  /\ \E want \in loaded :
       job' = [want |-> want, first |-> phase = "starting", held |-> TRUE,
               rest |-> {l \in Listener : want.bind[l] # Closed}]
  /\ loaded' = {}
  /\ UNCHANGED <<cfg, memory, sessions, disk, phase, binds, probe, stray, world, promise, left>>

Superfluous == {l \in Listener : binds[l] # Closed /\ job.want.bind[l] = Closed}

\* A listener that the configuration does not have is stopped.
ApplyRemove(l) ==
  /\ job.held /\ l \in Superfluous
  /\ StopListener(l)
  /\ UNCHANGED <<cfg, memory, disk, phase, loaded, job, world, promise, left>>

\* The turn of listener l.
Turn(l) == /\ job.held /\ Superfluous = {}
           /\ l \in job.rest /\ \A k \in job.rest : l <= k

Done(l) == job' = [job EXCEPT !.rest = @ \ {l}]

\* Mutant of Stays: compared with the configuration applied last.
StaysConfigured(l) == binds[l] # Closed /\ cfg.bind[l] = job.want.bind[l]

\* The listener runs at its address.
Stays(l) == binds[l] = job.want.bind[l]

\* It is updated in place.
ApplyUpdate(l) ==
  /\ Turn(l) /\ Stays(l)
  /\ Done(l)
  /\ UNCHANGED <<cfg, memory, sessions, disk, phase, loaded, binds, probe, stray, world, promise, left>>

\* It runs elsewhere, and is stopped.
ApplyMove(l) ==
  /\ Turn(l) /\ ~ Stays(l) /\ binds[l] # Closed
  /\ StopListener(l)
  /\ UNCHANGED <<cfg, memory, disk, phase, loaded, job, world, promise, left>>

\* It does not run, and is started.
ApplyStart(l) ==
  /\ Turn(l) /\ ~ Stays(l) /\ binds[l] = Closed /\ CanBind(l, job.want.bind[l])
  /\ binds' = [binds EXCEPT ![l] = job.want.bind[l]]
  /\ Done(l)
  /\ UNCHANGED <<cfg, memory, sessions, disk, phase, loaded, probe, stray, world, promise, left>>

Listening == job.held /\ Superfluous = {} /\ job.rest = {}

\* Its address is not free, or the list file has become invalid: Apply returns
\* an error, and run gives up when it was the first.
ApplyError ==
  /\ \/ \E l \in Listener : /\ Turn(l) /\ ~ Stays(l) /\ binds[l] = Closed
                            /\ ~ CanBind(l, job.want.bind[l])
     \/ Listening /\ ApplyListFails(job.want)
  /\ IF job.first THEN Die /\ UNCHANGED left
     ELSE /\ job' = Free
          /\ UNCHANGED <<cfg, memory, sessions, disk, phase, loaded, binds, probe, stray,
                         world, promise, left>>

\* The rest of Apply: the blacklist, and the configuration is in force.
ApplyFinish ==
  /\ Listening /\ ApplyList(job.want)
  /\ job' = Free /\ phase' = "serving"
  /\ UNCHANGED <<loaded, binds, probe, stray, world, promise, left>>

Apply == \/ ApplyBegin \/ ApplyError \/ ApplyFinish
         \/ \E l \in Listener : ApplyRemove(l) \/ ApplyUpdate(l) \/ ApplyMove(l) \/ ApplyStart(l)

-----------------------------------------------------------------------------
(* The blacklist API and the watcher *)

Add(e) ==
  /\ phase # "down" /\ Unlocked /\ Spend("calls")
  /\ BlacklistAdd(e)
  /\ promise' = [held |-> promise.held \cup {e},
                 kept |-> IF cfg.listed THEN promise.kept \cup {e} ELSE promise.kept]
  /\ UNCHANGED <<process, world>>

Delete(e) ==
  /\ phase # "down" /\ Unlocked /\ Spend("calls")
  /\ BlacklistDel(e)
  /\ promise' = [held |-> promise.held \ {e}, kept |-> promise.kept \ {e}]
  /\ UNCHANGED <<process, world>>

Watch ==
  /\ \/ PollStat \/ PollRead
     \/ Unlocked /\ (PollFails \/ PollAgrees \/ PollReloads)
  /\ UNCHANGED <<process, world, promise, left>>

-----------------------------------------------------------------------------
(* Clients and probes *)

\* A packet of c that no session of its own carries, at a running listener.
Packet(l, c) ==
  /\ binds[l] # Closed /\ c \notin Blocked(effective)
  /\ sessions' = sessions \cup {<<l, c>>}
  /\ UNCHANGED <<cfg, memory, disk, process, world, promise, left>>

\* A session idles out.
Expire(s) ==
  /\ s \in sessions
  /\ sessions' = sessions \ {s}
  /\ UNCHANGED <<cfg, memory, disk, process, world, promise, left>>

\* A probe of the running balancer goes out; it may find its backend down, and
\* then has the callback at hand, which it runs.
ProbeOut(l) ==
  /\ binds[l] # Closed /\ l \in Probed /\ probe[l] = "none" /\ Spend("probes")
  /\ probe' = [probe EXCEPT ![l] = "out"]
  /\ UNCHANGED <<cfg, memory, sessions, disk, phase, loaded, job, binds, stray, world, promise>>

ProbeDown(l) ==
  /\ probe[l] = "out"
  /\ probe' = [probe EXCEPT ![l] = "told"]
  /\ UNCHANGED <<cfg, memory, sessions, disk, phase, loaded, job, binds, stray, world, promise, left>>

\* The callback closes the sessions of the backend, by the listener's name.
CloseBackend(l) == \E some \in SUBSET {s \in sessions : s[1] = l} : sessions' = sessions \ some

ProbeCloses(l) ==
  /\ probe[l] = "told"
  /\ CloseBackend(l)
  /\ probe' = [probe EXCEPT ![l] = "none"]
  /\ UNCHANGED <<cfg, memory, disk, phase, loaded, job, binds, stray, world, promise, left>>

\* A probe of a dropped balancer reports: without a callback nothing happens.
StrayReports(l) ==
  /\ \E callback \in {"mute", "live"} :
       /\ <<l, callback>> \in stray
       /\ stray' = (stray \ {<<l, callback>>})
                     \cup (IF callback = "live" THEN {<<l, "told">>} ELSE {})
  /\ UNCHANGED <<cfg, memory, sessions, disk, phase, loaded, job, binds, probe, world, promise, left>>

\* A callback that was under way when its balancer was dropped runs at last.
StrayCloses(l) ==
  /\ <<l, "told">> \in stray
  /\ CloseBackend(l)
  /\ stray' = stray \ {<<l, "told">>}
  /\ UNCHANGED <<cfg, memory, disk, phase, loaded, job, binds, probe, world, promise, left>>

-----------------------------------------------------------------------------
(* The world *)

EditYaml(c) ==
  /\ Spend("edits") /\ c # yaml /\ yaml' = c
  /\ UNCHANGED <<cfg, memory, sessions, disk, process, taken, promise>>

EditFile(content) ==
  /\ Spend("edits") /\ Write(content)
  /\ promise' = [promise EXCEPT !.kept = {}]
  /\ UNCHANGED <<cfg, memory, sessions, process, world>>

\* Another program binds or releases an address.
EditAddress(a) ==
  /\ Spend("edits") /\ \A l \in Listener : binds[l] # a
  /\ taken' = (taken \ {a}) \cup ({a} \ taken)
  /\ UNCHANGED <<cfg, memory, sessions, disk, process, yaml, promise>>

\* The process is killed, or shut down.
Kill == phase # "down" /\ Spend("deaths") /\ Die

-----------------------------------------------------------------------------
Next ==
  \/ Start \/ Reload \/ Apply \/ Watch \/ Kill
  \/ \E e \in Entry : Add(e) \/ Delete(e)
  \/ \E l \in Listener, c \in Client : Packet(l, c)
  \/ \E s \in sessions : Expire(s)
  \/ \E l \in Listener : \/ ProbeOut(l) \/ ProbeDown(l) \/ ProbeCloses(l)
                         \/ StrayReports(l) \/ StrayCloses(l)
  \/ \E c \in Configs : EditYaml(c)
  \/ \E content \in Edits : EditFile(content)
  \/ \E a \in Addr : EditAddress(a)

Spec == Init /\ [][Next]_vars

\* Apply runs through, and the watcher's ticker goes on.
FairSpec == Spec /\ WF_vars(Apply) /\ WF_vars(Watch)

-----------------------------------------------------------------------------
(* Properties *)

SupervisorTypeOK ==
  /\ cfg \in Config /\ yaml \in Config
  /\ adds \in SUBSET Entry /\ dels \in SUBSET Entry
  /\ effective \in SUBSET Entry /\ cfgEntries \in SUBSET Entry
  /\ sessions \in SUBSET (Listener \X Client)
  /\ file \in Content /\ known \in BOOLEAN
  /\ watcher \in [at : {"idle", "stat", "read"}, content : SUBSET Line, fresh : BOOLEAN]
  /\ phase \in {"down", "starting", "serving"}
  /\ loaded \in SUBSET Config
  /\ job \in [want : Config, first : BOOLEAN, rest : SUBSET Listener, held : BOOLEAN]
  /\ binds \in Binds /\ taken \in SUBSET Addr
  /\ probe \in [Listener -> {"none", "out", "told"}]
  /\ stray \in SUBSET (Listener \X {"mute", "told"})
  /\ promise \in [held : SUBSET Entry, kept : SUBSET Entry]
  /\ left \in Budget

\* rebuildBlacklistLocked closes the sessions of newly effective entries only;
\* through every order of adds, deletes, reloads and polls that leaves no
\* session of a blocked client.
NoBlockedSession == \A s \in sessions : s[2] \notin Blocked(effective)

\* "API-made changes survive restarts" and reloads (README, Persistence): an
\* entry whose POST was answered blocks until its DELETE, whatever is reloaded,
\* polled or edited by hand, and after a restart when the file was listed and
\* nobody else wrote it.
AddHolds ==
  phase = "serving" => /\ promise.held \subseteq effective
                       /\ cfg.listed => promise.kept \subseteq effective

\* Apply compares with what is running (the comment at its loop): a listener
\* that runs where the new configuration wants it keeps its socket and its
\* sessions, whatever earlier reloads have failed, but for the clients that the
\* new list blocks.
ReloadSpares ==
  [][Apply /\ phase' # "down" =>
       \A l \in Listener : job.held /\ binds[l] # Closed /\ binds[l] = job.want.bind[l] =>
          /\ binds'[l] = binds[l]
          /\ \A s \in sessions : s[1] = l /\ s[2] \notin Blocked(effective') => s \in sessions']_vars

\* Detaching "makes the late report inert" (stopListenerLocked): of a balancer
\* that was dropped only a callback already under way closes sessions of a
\* listener started since.
LateReportsInert ==
  [][\A l \in Listener :
       <<l, "told">> \in stray' \ stray => probe[l] = "told" /\ binds'[l] # binds[l]]_vars

\* WatchBlacklist: a load that failed, or that another write has overtaken, is
\* tried again: in the end the list is made of what the file says.
BlacklistSettles ==
  <>[](phase = "serving" /\ cfg.watched /\ Valid(file) => cfgEntries = cfg.inline \cup file)

\* "A failed config reload never changes what is running", "On any error the
\* previous config keeps serving" (README, Hot reload): with no Apply under
\* way, the listeners that run are those of the configuration in force.
PreviousConfigServes == phase = "serving" /\ Unlocked => binds = cfg.bind
=============================================================================
