------------------------------- MODULE Proxy -------------------------------
(***************************************************************************)
(* One listener on top of the session table: the receive loop, the relay   *)
(* goroutine of every session (internal/listener/listener.go) and what the *)
(* supervisor and the health callback do to them (cmd/udpshunt/app.go):    *)
(* backends leaving the pool, clients put on the blacklist, the stop of    *)
(* the listener.                                                           *)
(*                                                                         *)
(* The table is SessionTable's: each step below that touches it is one of  *)
(* its actions together with the progress of the goroutine that takes it.  *)
(* The payload, the counters and logs of a packet, the choice among the    *)
(* backends of the pool and the reports to the balancer are left out;      *)
(* whether a dial, a read or a write fails is the environment's choice.    *)
(***************************************************************************)
EXTENDS SessionTable

CONSTANTS Self,   \* the listener
          App,    \* the supervisor's goroutine, serialised by a.mu
          Health, \* the goroutine that runs the state-change callback
          Batch,  \* bound on the packets of one ReceiveBatch
          Leaving \* the backends that operations remove, admit or take down

ASSUME ProxyAssumption ==
  /\ Self \in Listener /\ {App, Health} \subseteq Closer /\ App # Health
  /\ Batch \in Nat \ {0} /\ Leaving \subseteq Backend

VARIABLES
  worker,  \* the receive loop: its place (at), the packets left in the batch,
           \* the client of the packet and the session at hand
  relay,   \* per session: the place of its relay goroutine and the session
           \* that its Remove took
  pool,    \* the balancer's backends
  blocked, \* the clients the blacklist covers
  adding,  \* the entry BlacklistAdd has yet to commit, as a set
  stage,   \* progress of stopListenerLocked
  stopped, \* Listener.stopped
  open,    \* the frontend socket is open
  late     \* history: clients with a session under way when the pool or the
           \* blacklist was swapped

supervisorVars == <<pool, blocked, adding, stage, stopped, open, late>>
proxyVars == <<worker, relay, supervisorVars>>
allVars == <<vars, proxyVars>>

WorkerPlaces == {"packet", "look", "put", "start", "send", "settle", "done"}
RelayPlaces  == {"none", "read", "write", "settle", "done"}
Stages == {"run", "cancelled", "drained", "sweeping", "closed", "over"}

Cancelled == stage # "run"

StoredAt(k) == {s \in live : KeyOf(s) = k}
ClientOf(s)  == FlowOf[s][2]
BackendOf(s) == FlowOf[s][3]
BackendFlows(b) == {f \in Flow : f[1] = Self /\ f[3] = b}
ClientFlows(c)  == {f \in Flow : f[2] = c}
OwnFlows        == {f \in Flow : f[1] = Self}

ASSUME SelectorsAssumption ==
  {BackendFlows(b) : b \in Backend} \cup {ClientFlows(c) : c \in Client}
    \cup {OwnFlows} \subseteq Selectors

Parked == [at |-> "none", took |-> {}]

ProxyInit ==
  /\ Init
  /\ worker = [at |-> "packet", left |-> 0, client |-> {}, sess |-> {}]
  /\ relay = [s \in Session |-> Parked]
  /\ pool = Backend /\ blocked = {} /\ adding = {}
  /\ stage = "run" /\ stopped = FALSE /\ open = TRUE
  /\ late = {}

\* Manager.Remove up to its unlock; what it takes is StoredAt(k).
RemoveKey(k) == IF StoredAt(k) = {} THEN UNCHANGED vars ELSE RemoveUnlink(k)

\* Session.Touch
TouchSession(s) == IF s \in idle THEN Touch(s) ELSE UNCHANGED vars

-----------------------------------------------------------------------------
(* The receive loop: Run, forward, createSession *)

Work(place) == worker' = [worker EXCEPT !.at = place]
NextPacket == worker' = [worker EXCEPT !.at = "packet", !.client = {}, !.sess = {}]

\* ReceiveBatch returned packets and ctx is not cancelled.
Receive ==
  /\ worker.at = "packet" /\ worker.left = 0 /\ ~Cancelled
  /\ \E n \in 1..Batch : worker' = [worker EXCEPT !.left = n]
  /\ UNCHANGED <<vars, relay, supervisorVars>>

\* ReceiveBatch returned and ctx is cancelled.
Exit ==
  /\ worker.at = "packet" /\ worker.left = 0 /\ Cancelled
  /\ Work("done")
  /\ UNCHANGED <<vars, relay, supervisorVars>>

\* The next packet of the batch, from client c: dropped when c is blocked.
\* The context is not looked at again within a batch.
Packet(c) ==
  /\ worker.at = "packet" /\ worker.left > 0
  /\ worker' = [worker EXCEPT !.left = @ - 1,
                              !.at = IF c \in blocked THEN "packet" ELSE "look",
                              !.client = IF c \in blocked THEN {} ELSE {c}]
  /\ UNCHANGED <<vars, relay, supervisorVars>>

\* Mutant of Found: the loop keeps the session it set up for a client and asks
\* the table no more.
FoundCached(c) ==
  /\ worker.at = "look" /\ c \in worker.client
  /\ StoredAt(<<Self, c>>) # {}
  /\ \E s \in Session :
       /\ relay[s].at # "none" /\ KeyOf(s) = <<Self, c>>
       /\ worker' = [worker EXCEPT !.at = "send", !.sess = {s}]
  /\ UNCHANGED <<vars, relay, supervisorVars>>

\* forward's Get found a session.
Found(c) ==
  /\ worker.at = "look" /\ c \in worker.client
  /\ StoredAt(<<Self, c>>) # {}
  /\ worker' = [worker EXCEPT !.at = "send", !.sess = StoredAt(<<Self, c>>)]
  /\ UNCHANGED <<vars, relay, supervisorVars>>

\* Get found none (only this goroutine stores any for its listener), Pick chose
\* a backend of the pool and the dial succeeded: s is the new session, and its
\* Put has begun.
Create(s) ==
  /\ worker.at = "look" /\ ClientOf(s) \in worker.client /\ FlowOf[s][1] = Self
  /\ StoredAt(KeyOf(s)) = {}
  /\ BackendOf(s) \in pool
  /\ PutLoad(s)
  /\ worker' = [worker EXCEPT !.at = "put", !.sess = {s}]
  /\ UNCHANGED <<relay, supervisorVars>>

\* The pool is empty, or the dial failed.
NotCreated(c) ==
  /\ worker.at = "look" /\ c \in worker.client
  /\ StoredAt(<<Self, c>>) = {}
  /\ NextPacket
  /\ UNCHANGED <<vars, relay, supervisorVars>>

\* The rest of Put; a refused session is closed and its packet dropped.
Putting(s) ==
  /\ worker.at = "put" /\ s \in worker.sess
  /\ \/ (PutReserve(s) \/ PutReject(s) \/ PutInsert(s) \/ PutDuplicate(s)) /\ Work("put")
     \/ PutAccount(s) /\ Work("start")
     \/ CloseRefused(s) /\ NextPacket
  /\ UNCHANGED <<relay, supervisorVars>>

\* startDownstream; createSession removes the session when it refuses.
Start(s) ==
  /\ worker.at = "start" /\ s \in worker.sess
  /\ IF stopped
       THEN /\ RemoveKey(KeyOf(s))
            /\ worker' = [worker EXCEPT !.at = "settle", !.sess = StoredAt(KeyOf(s))]
            /\ UNCHANGED relay
       ELSE /\ relay' = [relay EXCEPT ![s].at = "read"]
            /\ Work("send")
            /\ UNCHANGED vars
  /\ UNCHANGED supervisorVars

\* The session's socket is open and takes the packet.
SendOk(s) ==
  /\ worker.at = "send" /\ s \in worker.sess \ closed
  /\ TouchSession(s)
  /\ NextPacket
  /\ UNCHANGED <<relay, supervisorVars>>

\* The write failed: refused by the backend, or the socket closed meanwhile.
SendFails(s) ==
  /\ worker.at = "send" /\ s \in worker.sess
  /\ RemoveKey(KeyOf(s))
  /\ worker' = [worker EXCEPT !.at = "settle", !.sess = StoredAt(KeyOf(s))]
  /\ UNCHANGED <<relay, supervisorVars>>

\* The rest of the receive loop's Remove.
WorkerSettle ==
  /\ worker.at = "settle"
  /\ IF worker.sess = {} THEN UNCHANGED vars
                         ELSE \E s \in worker.sess : RemoveSettle(s)
  /\ NextPacket
  /\ UNCHANGED <<relay, supervisorVars>>

-----------------------------------------------------------------------------
(* downstream *)

\* The relay's Remove of its key up to the unlock.
RelayRemoves(s) ==
  /\ RemoveKey(KeyOf(s))
  /\ relay' = [relay EXCEPT ![s] = [at |-> "settle", took |-> StoredAt(KeyOf(s))]]

RelayReply(s) ==
  /\ relay[s].at = "read" /\ s \notin closed
  /\ TouchSession(s)
  /\ relay' = [relay EXCEPT ![s].at = "write"]
  /\ UNCHANGED <<worker, supervisorVars>>

\* Read returns net.ErrClosed.
RelayGone(s) ==
  /\ relay[s].at = "read" /\ s \in closed
  /\ RelayRemoves(s)
  /\ UNCHANGED <<worker, supervisorVars>>

\* Read returns any other error.
RelayRefused(s) ==
  /\ relay[s].at = "read" /\ s \notin closed
  /\ RelayRemoves(s)
  /\ UNCHANGED <<worker, supervisorVars>>

\* Mutant of RelayWrite: the relay of an unreachable client just returns.
RelayWriteQuits(s) ==
  /\ relay[s].at = "write"
  /\ UNCHANGED vars
  /\ \E a \in {"read", "done"} :
       (~open => a = "done") /\ relay' = [relay EXCEPT ![s].at = a]
  /\ UNCHANGED <<worker, supervisorVars>>

\* WriteToUDP succeeds, or fails because the client is unreachable, or because
\* the frontend socket is closed.
RelayWrite(s) ==
  /\ relay[s].at = "write"
  /\ \/ open /\ relay' = [relay EXCEPT ![s].at = "read"] /\ UNCHANGED vars
     \/ open /\ RelayRemoves(s)
     \/ ~open /\ relay' = [relay EXCEPT ![s].at = "done"] /\ UNCHANGED vars
  /\ UNCHANGED <<worker, supervisorVars>>

\* The rest of the relay's Remove.
RelaySettle(s) ==
  /\ relay[s].at = "settle"
  /\ IF relay[s].took = {} THEN UNCHANGED vars
                           ELSE \E r \in relay[s].took : RemoveSettle(r)
  /\ relay' = [relay EXCEPT ![s] = [at |-> "done", took |-> {}]]
  /\ UNCHANGED <<worker, supervisorVars>>

-----------------------------------------------------------------------------
(* The supervisor: one operation at a time, under a.mu *)

Free == stage = "run" /\ at[App] = Resting /\ adding = {}

UnderWay == IF worker.at \in {"look", "put"} THEN worker.client ELSE {}

\* updateListenerLocked: backend b leaves the pool, then its sessions go.
Evict(b) ==
  /\ Free /\ b \in pool
  /\ pool' = pool \ {b}
  /\ late' = late \cup UnderWay
  /\ CloseBegin(App, BackendFlows(b))
  /\ UNCHANGED <<worker, relay, blocked, adding, stage, stopped, open>>

\* updateListenerLocked: backend b joins the pool.
Admit(b) ==
  /\ Free /\ b \notin pool
  /\ pool' = pool \cup {b}
  /\ UNCHANGED <<vars, worker, relay, blocked, adding, stage, stopped, open, late>>

\* rebuildBlacklistLocked with the entry of client c newly effective: the list
\* is swapped, then the sessions of c are closed.
Enforce(c) ==
  /\ blocked' = blocked \cup {c}
  /\ late' = late \cup UnderWay
  /\ CloseBegin(App, ClientFlows(c))
  /\ adding' = {}
  /\ UNCHANGED <<worker, relay, pool, stage, stopped, open>>

\* A reload of the configuration or of the list file names c.
Block(c) == Free /\ c \notin blocked /\ Enforce(c)

\* BlacklistAdd closes c's sessions before the rebuild ...
BlockAdd(c) ==
  /\ Free /\ c \notin blocked
  /\ adding' = {c}
  /\ CloseBegin(App, ClientFlows(c))
  /\ UNCHANGED <<worker, relay, pool, blocked, stage, stopped, open, late>>

\* Mutant of BlockCommit: only the sweep that came before the swap.
BlockCommitUnswept(c) ==
  /\ c \in adding /\ at[App] = Resting
  /\ blocked' = blocked \cup {c}
  /\ late' = late \cup UnderWay
  /\ adding' = {}
  /\ UNCHANGED <<vars, worker, relay, pool, stage, stopped, open>>

\* ... and then rebuilds.
BlockCommit(c) == c \in adding /\ at[App] = Resting /\ Enforce(c)

\* BlacklistDel, or a reload that no longer names c: only the list changes.
Unblock(c) ==
  /\ Free /\ c \in blocked
  /\ blocked' = blocked \ {c}
  /\ UNCHANGED <<vars, worker, relay, pool, adding, stage, stopped, open, late>>

\* stopListenerLocked, and Shutdown as one listener sees it: cancel;
StopCancel ==
  /\ Free
  /\ stage' = "cancelled"
  /\ UNCHANGED <<vars, worker, relay, pool, blocked, adding, stopped, open, late>>

\* the bounded wait for Run is over, and WaitDownstream forbids new relays;
StopDrain ==
  /\ stage = "cancelled"
  /\ stage' = "drained" /\ stopped' = TRUE
  /\ UNCHANGED <<vars, worker, relay, pool, blocked, adding, open, late>>

\* Mutant of StopSweep: no session matches.
StopSweepNone ==
  /\ stage = "drained"
  /\ CloseBegin(App, {})
  /\ stage' = "sweeping"
  /\ UNCHANGED <<worker, relay, pool, blocked, adding, stopped, open, late>>

\* its bounded wait for the relays is over: CloseListener;
StopSweep ==
  /\ stage = "drained"
  /\ CloseBegin(App, OwnFlows)
  /\ stage' = "sweeping"
  /\ UNCHANGED <<worker, relay, pool, blocked, adding, stopped, open, late>>

\* the frontend socket is closed;
StopClose ==
  /\ stage = "sweeping" /\ at[App] = Resting
  /\ stage' = "closed" /\ open' = FALSE
  /\ UNCHANGED <<vars, worker, relay, pool, blocked, adding, stopped, late>>

\* and the bounded WaitWaiters is over.
StopJoin ==
  /\ stage = "closed"
  /\ stage' = "over"
  /\ UNCHANGED <<vars, worker, relay, pool, blocked, adding, stopped, open, late>>

\* The callback of a backend that went down, under on_down: close.
CallbackClose(b) == CloseBegin(Health, BackendFlows(b)) /\ UNCHANGED proxyVars

\* A shard of a closeWhere under way, or its last step.
Closing(c) == CloseStep(c) /\ UNCHANGED proxyVars

\* The reaper and the passing of time.
Reaping == Sweep /\ UNCHANGED proxyVars
Idling(s) == GoIdle(s) /\ UNCHANGED proxyVars

-----------------------------------------------------------------------------
WorkerForced ==
  \/ Exit
  \/ \E c \in Client : Packet(c) \/ Found(c) \/ NotCreated(c)
  \/ \E s \in Session : Putting(s) \/ Start(s) \/ SendOk(s) \/ SendFails(s)
  \/ WorkerSettle
WorkerStep == WorkerForced \/ Receive \/ \E s \in Session : Create(s)
RelayForced(s) == RelayGone(s) \/ RelayWrite(s) \/ RelaySettle(s)
RelayStep(s) == RelayForced(s) \/ RelayReply(s) \/ RelayRefused(s)
StopForced == StopDrain \/ StopSweep \/ StopClose \/ StopJoin
Operation ==
  \/ \E b \in Leaving : Evict(b) \/ Admit(b) \/ CallbackClose(b)
  \/ \E c \in Client : Block(c) \/ BlockAdd(c) \/ BlockCommit(c) \/ Unblock(c)
  \/ StopCancel

ProxyNext ==
  \/ WorkerStep
  \/ \E s \in Session : RelayStep(s) \/ Idling(s)
  \/ Operation \/ StopForced
  \/ \E c \in Closer : Closing(c)
  \/ Reaping

ProxySpec == ProxyInit /\ [][ProxyNext]_allVars

\* Once cancelled, the goroutines run on until they block: no socket operation
\* of the receive loop and no write blocks, a read returns when its socket is
\* closed, the supervisor's waits are bounded, and so are closeWhere's.
ProxyFairSpec ==
  /\ ProxySpec
  /\ WF_allVars(WorkerForced)
  /\ \A s \in Session : WF_allVars(RelayForced(s))
  /\ WF_allVars(StopForced)
  /\ \A c \in Closer : WF_allVars(Closing(c))

-----------------------------------------------------------------------------
(* Properties *)

\* Every variable has its type.
ProxyTypeOK ==
  /\ TypeOK
  /\ worker \in [at : WorkerPlaces, left : 0..Batch, client : SUBSET Client,
                 sess : SUBSET Session]
  /\ relay \in [Session -> [at : RelayPlaces, took : SUBSET Session]]
  /\ pool \in SUBSET Backend /\ blocked \in SUBSET Client
  /\ adding \in SUBSET Client /\ late \in SUBSET Client
  /\ stage \in Stages /\ stopped \in BOOLEAN /\ open \in BOOLEAN

\* A stored session is being relayed, or the receive loop is still setting it
\* up: no error path of a relay leaves a session in the table that nobody
\* reads, through evictions, bans, reaping and the stop.
SessionHasRelay ==
  \A s \in live : \/ relay[s].at \in {"read", "write"}
                  \/ worker.at \in {"put", "start"} /\ s \in worker.sess

\* "A drain-time wg.Wait cannot race a late wg.Add" (startDownstream): after
\* the final sweep of a stop every relay works on a session that is closed or
\* about to be, so that none can block in a read for ever.
NoRelayOutlivesStop ==
  stage \in {"closed", "over"} =>
    \A s \in Session : relay[s].at \in {"read", "write"} => s \in closed \cup removing

\* What evictions and bans leave in the table: when the supervisor is through,
\* a session on a backend outside the pool or of a blocked client belongs to a
\* client whose packet the receive loop was handling at the swap.
OnlyLateEscape ==
  Free => \A s \in live :
            BackendOf(s) \notin pool \/ ClientOf(s) \in blocked => ClientOf(s) \in late

\* A session that forward found can be closed before forward writes to it, and
\* the error of that write is billed to its backend.  That costs one packet: no
\* packet is ever given a session that was closed before, and the Remove which
\* answers the failure, by key as it is, takes the session that failed or
\* nothing, never the client's next one.
OwnFailureOnly ==
  [][/\ worker.at = "look" /\ worker'.at = "send" => worker'.sess \cap closed = {}
     /\ worker.at \in {"start", "send"} /\ worker'.at = "settle" =>
          worker'.sess \subseteq worker.sess]_allVars

AllEnded ==
  /\ worker.at = "done" /\ live = {} /\ removing = {}
  /\ \A s \in Session : /\ relay[s].at \in {"none", "done"}
                        /\ put[s] # "new" => s \in closed
  /\ stage = "over"

\* A stop ends: the receive loop and every relay return, the table is empty
\* and every socket that was dialled is closed.
StopCompletes == Cancelled ~> AllEnded

-----------------------------------------------------------------------------
(* What makes SessionHasRelay and NoRelayOutlivesStop inductive *)

\* The receive loop has at most one session at hand, one of its own listener;
\* it starts the relay of a session whose Put succeeded, and starts it once.
WorkerPlaced ==
  /\ \A r, s \in worker.sess : r = s
  /\ \A s \in worker.sess :
       worker.at \in {"put", "start", "send"} => s \in Session /\ FlowOf[s][1] = Self
  /\ \A s \in worker.sess : worker.at \in {"put", "start"} => relay[s].at = "none"
  /\ \A s \in worker.sess : worker.at = "start" => put[s] = "stored_true"

RelayPlaced ==
  \A s \in Session : relay[s].at # "none" => FlowOf[s][1] = Self /\ put[s] = "stored_true"

\* What each stage of the stop has done.
StopStages ==
  /\ stage \in Stages
  /\ adding # {} => stage = "run"
  /\ stopped <=> stage \notin {"run", "cancelled"}
  /\ open <=> stage \notin {"closed", "over"}

\* The final sweep leaves no relayed session in the shards it has passed.
Swept ==
  /\ stage = "sweeping" =>
       /\ at[App] < NShards => sel[App] = OwnFlows
       /\ \A s \in live : relay[s].at # "none" => at[App] <= ShardAt(s)
  /\ stage \in {"closed", "over"} => \A s \in live : relay[s].at = "none"

\* Nobody but the receive loop stores a session for its listener: while it has
\* one at hand, the table holds that one for the client or none.
HandOnly ==
  worker.at \in {"put", "start", "send"} =>
    \A s \in worker.sess : StoredAt(KeyOf(s)) \subseteq {s}

ProxyInv == WorkerPlaced /\ RelayPlaced /\ StopStages /\ Swept /\ SessionHasRelay
=============================================================================
