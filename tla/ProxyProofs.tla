---------------------------- MODULE ProxyProofs ----------------------------
(* The listener and its supervisor use the session table as SessionTable      *)
(* allows, so that what is proved of the table holds in the whole; and what   *)
(* the stop of a listener needs holds for any number of sessions and clients. *)
EXTENDS Proxy, SessionTableProofs

-----------------------------------------------------------------------------
(* The proxy implements the table *)

\* A Remove by key is a step of the table.
LEMMA RemoveKeyStep ==
  ASSUME NEW s \in Session, RemoveKey(KeyOf(s))
  PROVE  [Next]_vars
BY RouteTypes DEF RemoveKey, Next

\* So is the rest of a Remove, whichever session it took.
LEMMA SettleStep ==
  ASSUME TypeOK, NEW S, NEW s \in S, RemoveSettle(s)
  PROVE  [Next]_vars
<1>1. s \in Session
  BY DEF RemoveSettle, TypeOK
<1> QED BY <1>1 DEF Next

\* So is the beginning of each closeWhere that is called.
LEMMA CloseBeginStep ==
  ASSUME NEW c \in Closer, NEW fs \in Selectors, CloseBegin(c, fs)
  PROVE  [Next]_vars
BY DEF Next

\* A step of the receive loop is a step of the table, or leaves it alone.
LEMMA WorkerTableStep ==
  ASSUME TypeOK, WorkerStep
  PROVE  [Next]_vars
<1>1. CASE Exit \/ Receive \/ \E c \in Client : Packet(c) \/ Found(c) \/ NotCreated(c)
  BY <1>1 DEF Exit, Receive, Packet, Found, NotCreated
<1>2. ASSUME NEW s \in Session, Putting(s) PROVE [Next]_vars
  BY <1>2 DEF Putting, Next, PutStep
<1>3. ASSUME NEW s \in Session, Start(s) \/ SendFails(s) PROVE [Next]_vars
  BY <1>3, RemoveKeyStep DEF Start, SendFails
<1>4. ASSUME NEW s \in Session, SendOk(s) PROVE [Next]_vars
  BY <1>4 DEF SendOk, TouchSession, Next
<1>5. CASE WorkerSettle
  BY <1>5, SettleStep DEF WorkerSettle
<1>6. ASSUME NEW s \in Session, Create(s) PROVE [Next]_vars
  BY <1>6 DEF Create, Next, PutStep
<1> QED BY <1>1, <1>2, <1>3, <1>4, <1>5, <1>6 DEF WorkerStep, WorkerForced

\* The same of a relay.
LEMMA RelayTableStep ==
  ASSUME TypeOK, NEW s \in Session, RelayStep(s)
  PROVE  [Next]_vars
<1>1. CASE RelayGone(s) \/ RelayRefused(s)
  BY <1>1, RemoveKeyStep DEF RelayGone, RelayRefused, RelayRemoves
<1>2. CASE RelayWrite(s)
  BY <1>2, RemoveKeyStep DEF RelayWrite, RelayRemoves
<1>3. CASE RelaySettle(s)
  BY <1>3, SettleStep DEF RelaySettle
<1>4. CASE RelayReply(s)
  BY <1>4 DEF RelayReply, TouchSession, Next
<1> QED BY <1>1, <1>2, <1>3, <1>4 DEF RelayStep, RelayForced

\* The same of everything.
LEMMA TableStep ==
  ASSUME TypeOK, [ProxyNext]_allVars
  PROVE  [Next]_vars
<1>1. \A b \in Backend : BackendFlows(b) \in Selectors
  BY SelectorsAssumption
<1>2. \A c \in Client : ClientFlows(c) \in Selectors
  BY SelectorsAssumption
<1>3. OwnFlows \in Selectors /\ App \in Closer /\ Health \in Closer
  BY SelectorsAssumption, ProxyAssumption
<1>4. CASE WorkerStep
  BY <1>4, WorkerTableStep
<1>5. ASSUME NEW s \in Session, RelayStep(s) PROVE [Next]_vars
  BY <1>5, RelayTableStep
<1>6. ASSUME NEW s \in Session, Idling(s) PROVE [Next]_vars
  BY <1>6 DEF Idling, Next
<1>7. ASSUME NEW b \in Leaving, Evict(b) \/ Admit(b) \/ CallbackClose(b)
      PROVE  [Next]_vars
  <2>1. b \in Backend
    BY ProxyAssumption
  <2> QED BY <1>1, <1>3, <1>7, <2>1, CloseBeginStep DEF Evict, Admit, CallbackClose
<1>8. ASSUME NEW c \in Client, Block(c) \/ BlockAdd(c) \/ BlockCommit(c) \/ Unblock(c)
      PROVE  [Next]_vars
  BY <1>2, <1>3, <1>8, CloseBeginStep DEF Block, BlockAdd, BlockCommit, Unblock, Enforce
<1>9. CASE StopCancel \/ StopForced
  BY <1>3, <1>9, CloseBeginStep
  DEF StopCancel, StopForced, StopDrain, StopSweep, StopClose, StopJoin
<1>10. ASSUME NEW c \in Closer, Closing(c) PROVE [Next]_vars
  BY <1>10 DEF Closing, Next
<1>11. CASE Reaping
  BY <1>11 DEF Reaping, Next
<1>12. CASE UNCHANGED allVars
  BY <1>12 DEF allVars
<1> QED BY <1>4, <1>5, <1>6, <1>7, <1>8, <1>9, <1>10, <1>11, <1>12
        DEF ProxyNext, Operation

\* The proxy implements the table: every behaviour of the listener, its relays
\* and the supervisor is one that SessionTable allows.
THEOREM ImplementsTable == ProxySpec => Spec
<1>1. ProxyInit => Init /\ TypeOK
  <2>1. ProxyInit => Init
    BY DEF ProxyInit
  <2> QED BY <2>1, InitTypes
<1>2. TypeOK /\ [ProxyNext]_allVars => TypeOK' /\ [Next]_vars
  BY TableStep, TypeStep
<1> QED BY <1>1, <1>2, PTL DEF ProxySpec, Spec

\* What is proved of the table holds when the proxy drives it: the cap, the
\* count, one session per client, sockets closed with their sessions.
THEOREM TableKept ==
  ProxySpec => [](CapNeverExceeded /\ CountExact /\ KeyUnique
                    /\ Lifecycle /\ SocketsFollowTable)
BY ImplementsTable, CapCorrect, CountCorrect, KeyUniqueCorrect, SocketsCorrect, PTL

-----------------------------------------------------------------------------
(* Types *)

RelayState  == [at : RelayPlaces, took : SUBSET Session]
WorkerState == [at : WorkerPlaces, left : 0..Batch, client : SUBSET Client,
                sess : SUBSET Session]

\* Whatever is stored under a key is a session.
LEMMA StoredType ==
  ASSUME TypeOK, NEW k
  PROVE  StoredAt(k) \in SUBSET Session
BY DEF TypeOK, StoredAt

\* The moves of the receive loop keep its type.
LEMMA WorkerMoves ==
  ASSUME worker \in WorkerState
  PROVE  /\ \A p \in WorkerPlaces : [worker EXCEPT !.at = p] \in WorkerState
         /\ \A p \in WorkerPlaces, S \in SUBSET Session :
              [worker EXCEPT !.at = p, !.sess = S] \in WorkerState
         /\ [worker EXCEPT !.at = "packet", !.client = {}, !.sess = {}] \in WorkerState
BY DEF WorkerState, WorkerPlaces

\* The receive loop keeps the types.
LEMMA WorkerTypes ==
  ASSUME ProxyTypeOK, WorkerStep
  PROVE  /\ worker' \in WorkerState
         /\ relay' \in [Session -> RelayState]
         /\ UNCHANGED supervisorVars
<1>0. /\ worker \in WorkerState /\ relay \in [Session -> RelayState]
      /\ {"packet", "look", "put", "start", "send", "settle", "done"} \subseteq WorkerPlaces
      /\ TypeOK
  BY DEF ProxyTypeOK, WorkerState, RelayState, WorkerPlaces
<1>1. CASE Exit \/ WorkerSettle \/ \E c \in Client : NotCreated(c)
  BY <1>0, <1>1, WorkerMoves DEF Exit, WorkerSettle, NotCreated, Work, NextPacket
<1>2. CASE Receive \/ \E c \in Client : Packet(c)
  <2>1. CASE Receive
    BY <1>0, <2>1, ProxyAssumption DEF Receive, WorkerState
  <2>2. ASSUME NEW c \in Client, Packet(c)
        PROVE  worker' \in WorkerState /\ UNCHANGED <<relay, supervisorVars>>
    <3> DEFINE p == IF c \in blocked THEN "packet" ELSE "look"
               C == IF c \in blocked THEN {} ELSE {c}
    <3>1. worker' = [worker EXCEPT !.left = @ - 1, !.at = p, !.client = C]
      BY <2>2 DEF Packet
    <3>2. p \in WorkerPlaces /\ C \in SUBSET Client
      BY <1>0
    <3>3. worker.left > 0 /\ worker.left \in 0..Batch /\ Batch \in Nat
      BY <1>0, <2>2, ProxyAssumption DEF Packet, WorkerState
    <3>4. worker.left - 1 \in 0..Batch
      BY <3>3
    <3> HIDE DEF p, C
    <3>5. worker' \in WorkerState
      BY <1>0, <3>1, <3>2, <3>4 DEF WorkerState
    <3> QED BY <2>2, <3>5 DEF Packet
  <2> QED BY <1>0, <1>2, <2>1, <2>2
<1>3. ASSUME NEW c \in Client, Found(c)
      PROVE  worker' \in WorkerState /\ UNCHANGED <<relay, supervisorVars>>
  BY <1>0, <1>3, StoredType, WorkerMoves DEF Found
<1>4. ASSUME NEW s \in Session, Putting(s) \/ Create(s) \/ SendOk(s)
      PROVE  worker' \in WorkerState /\ UNCHANGED <<relay, supervisorVars>>
  <2>1. CASE Putting(s)
    <3>1. \E p \in {"put", "start"} : Work(p) \/ NextPacket
      BY <2>1, Zenon DEF Putting
    <3>2. worker' \in WorkerState
      BY <1>0, <3>1, WorkerMoves DEF Work, NextPacket
    <3> QED BY <2>1, <3>2 DEF Putting
  <2>2. CASE Create(s)
    <3>1. {s} \in SUBSET Session /\ worker' = [worker EXCEPT !.at = "put", !.sess = {s}]
      BY <2>2 DEF Create
    <3>2. worker' \in WorkerState
      BY <1>0, <3>1, WorkerMoves
    <3> QED BY <2>2, <3>2 DEF Create
  <2>3. CASE SendOk(s)
    BY <1>0, <2>3, WorkerMoves DEF SendOk, NextPacket
  <2> QED BY <1>4, <2>1, <2>2, <2>3
<1>5. ASSUME NEW s \in Session, Start(s)
      PROVE  worker' \in WorkerState /\ relay' \in [Session -> RelayState]
               /\ UNCHANGED supervisorVars
  <2>1. CASE stopped
    <3>1. worker' = [worker EXCEPT !.at = "settle", !.sess = StoredAt(KeyOf(s))]
      BY <1>5, <2>1 DEF Start
    <3>2. worker' \in WorkerState
      BY <1>0, <3>1, StoredType, WorkerMoves
    <3> QED BY <1>0, <1>5, <2>1, <3>2 DEF Start
  <2>2. CASE ~stopped
    <3>1. worker' \in WorkerState
      BY <1>0, <1>5, <2>2, WorkerMoves DEF Start, Work
    <3>2. relay' = [relay EXCEPT ![s].at = "read"]
      BY <1>5, <2>2 DEF Start
    <3>3. relay' \in [Session -> RelayState]
      BY <1>0, <3>2 DEF RelayState, RelayPlaces
    <3> QED BY <1>5, <3>1, <3>3 DEF Start
  <2> QED BY <2>1, <2>2
<1>6. ASSUME NEW s \in Session, SendFails(s)
      PROVE  worker' \in WorkerState /\ UNCHANGED <<relay, supervisorVars>>
  <2>1. worker' = [worker EXCEPT !.at = "settle", !.sess = StoredAt(KeyOf(s))]
    BY <1>6 DEF SendFails
  <2>2. worker' \in WorkerState
    BY <1>0, <2>1, StoredType, WorkerMoves
  <2> QED BY <1>6, <2>2 DEF SendFails
<1> QED BY <1>0, <1>1, <1>2, <1>3, <1>4, <1>5, <1>6 DEF WorkerStep, WorkerForced

\* So do the relays; what a relay does to the relays is its own progress.
LEMMA RelayTypes ==
  ASSUME ProxyTypeOK, NEW s \in Session, RelayStep(s)
  PROVE  /\ relay' \in [Session -> RelayState]
         /\ relay' = [relay EXCEPT ![s] = relay'[s]]
         /\ relay[s].at # "none"
         /\ UNCHANGED <<worker, supervisorVars>>
<1> USE DEF ProxyTypeOK, RelayState, RelayPlaces
<1>1. CASE RelayGone(s) \/ RelayRefused(s) \/ RelayWrite(s)
  BY <1>1, StoredType DEF RelayGone, RelayRefused, RelayWrite, RelayRemoves
<1>2. CASE RelayReply(s) \/ RelaySettle(s)
  BY <1>2 DEF RelayReply, RelaySettle
<1> QED BY <1>1, <1>2 DEF RelayStep, RelayForced

\* Every reachable state of the proxy is well typed.
THEOREM ProxyTypeCorrect == ProxySpec => []ProxyTypeOK
<1>1. ProxyInit => ProxyTypeOK
  <2> SUFFICES ASSUME ProxyInit PROVE ProxyTypeOK
    OBVIOUS
  <2>1. TypeOK
    BY InitTypes DEF ProxyInit
  <2>2. worker \in WorkerState
    BY ProxyAssumption DEF ProxyInit, WorkerState, WorkerPlaces
  <2>3. relay \in [Session -> RelayState]
    BY DEF ProxyInit, RelayState, RelayPlaces, Parked
  <2> QED BY <2>1, <2>2, <2>3
          DEF ProxyInit, ProxyTypeOK, WorkerState, RelayState, Stages
<1>2. ProxyTypeOK /\ [ProxyNext]_allVars => ProxyTypeOK'
  <2> SUFFICES ASSUME ProxyTypeOK, [ProxyNext]_allVars PROVE ProxyTypeOK'
    OBVIOUS
  <2>1. TypeOK'
    BY TableStep, TypeStep DEF ProxyTypeOK
  <2> USE DEF ProxyTypeOK
  <2>2. CASE WorkerStep
    BY <2>1, <2>2, WorkerTypes DEF supervisorVars, WorkerState, RelayState
  <2>3. ASSUME NEW s \in Session, RelayStep(s) PROVE ProxyTypeOK'
    BY <2>1, <2>3, RelayTypes DEF supervisorVars, RelayState
  <2>4. CASE UNCHANGED proxyVars
    BY <2>1, <2>4 DEF proxyVars, supervisorVars
  <2>5. CASE Operation
    <3>1. late \cup UnderWay \in SUBSET Client
      BY DEF UnderWay
    <3>2. ASSUME NEW b \in Leaving, Evict(b) \/ Admit(b) PROVE ProxyTypeOK'
      BY <2>1, <3>1, <3>2, ProxyAssumption DEF Evict, Admit
    <3>3. ASSUME NEW b \in Leaving, CallbackClose(b) PROVE ProxyTypeOK'
      BY <2>4, <3>3 DEF CallbackClose
    <3>4. ASSUME NEW c \in Client,
                 Block(c) \/ BlockAdd(c) \/ BlockCommit(c) \/ Unblock(c)
          PROVE  ProxyTypeOK'
      BY <2>1, <3>1, <3>4 DEF Block, BlockAdd, BlockCommit, Unblock, Enforce
    <3>5. CASE StopCancel
      BY <2>1, <3>5 DEF StopCancel, Stages
    <3> QED BY <2>5, <3>2, <3>3, <3>4, <3>5 DEF Operation
  <2>6. CASE StopForced
    BY <2>1, <2>6
    DEF StopForced, StopDrain, StopSweep, StopClose, StopJoin, Stages
  <2>7. CASE UNCHANGED allVars
    BY <2>4, <2>7 DEF allVars
  <2> QED BY <2>2, <2>3, <2>4, <2>5, <2>6, <2>7
          DEF ProxyNext, Idling, Closing, Reaping
<1> QED BY <1>1, <1>2, PTL DEF ProxySpec

-----------------------------------------------------------------------------
(* What the table does to a stored session, for the proxy's invariants *)

\* A session enters the table in the critical section of its Put, and a Put
\* that returned true stays returned.
LEMMA TableFrame ==
  ASSUME TypeOK, Lifecycle, [Next]_vars
  PROVE  /\ \A s \in live' : s \in live \/ (s \in Session /\ put[s] = "locking")
         /\ \A s \in Session : put[s] = "stored_true" => put'[s] = "stored_true"
<1>1. ASSUME NEW s \in Session, PutStep(s)
      PROVE  /\ live' \subseteq live \cup {s} /\ (s \notin live' \/ s \in live \/ put[s] = "locking")
             /\ \A r \in Session : put[r] = "stored_true" => put'[r] = "stored_true"
  BY <1>1 DEF PutStep, PutLoad, PutReserve, PutReject, PutInsert, PutDuplicate,
              PutAccount, CloseRefused, TypeOK, putVars
<1>2. ASSUME ~ \E s \in Session : PutStep(s)
      PROVE  live' \subseteq live /\ put' = put
  BY <1>2 DEF Next, vars, RemoveUnlink, RemoveSettle, CloseBegin, CloseStep,
              CloseShard, CloseSettle, Sweep, GoIdle, Touch, SetMax, putVars
<1>3. CASE \E s \in Session : PutStep(s)
  <2>1. PICK s \in Session : PutStep(s)
    BY <1>3
  <2> QED BY <1>1, <2>1
<1> QED BY <1>2, <1>3

\* Remove by the key of s leaves s out of the table, and changes nothing else
\* there that the proxy's invariants look at.
LEMMA RemoveKeyFrame ==
  ASSUME TypeOK, KeyUnique, NEW s \in Session, RemoveKey(KeyOf(s))
  PROVE  s \notin live' /\ live' \subseteq live /\ UNCHANGED <<put, sel, at>>
<1>1. CASE StoredAt(KeyOf(s)) = {}
  BY <1>1 DEF RemoveKey, StoredAt, vars, putVars, closerVars
<1>2. CASE StoredAt(KeyOf(s)) # {}
  <2>1. PICK r \in live : KeyOf(r) = KeyOf(s) /\ live' = live \ {r}
    BY <1>2 DEF RemoveKey, RemoveUnlink
  <2>2. UNCHANGED <<put, sel, at>>
    BY <1>2 DEF RemoveKey, RemoveUnlink, putVars, closerVars
  <2> QED BY <2>1, <2>2 DEF KeyUnique
<1> QED BY <1>1, <1>2

\* A relay stores nothing and walks over no shard.
LEMMA RelayFrame ==
  ASSUME TypeOK, KeyUnique, NEW s \in Session, RelayStep(s)
  PROVE  live' \subseteq live /\ UNCHANGED <<put, sel, at>>
<1>1. CASE RelayGone(s) \/ RelayRefused(s) \/ RelayWrite(s)
  BY <1>1, RemoveKeyFrame
  DEF RelayGone, RelayRefused, RelayWrite, RelayRemoves, vars, putVars, closerVars
<1>2. CASE RelayReply(s) \/ RelaySettle(s)
  BY <1>2 DEF RelayReply, RelaySettle, TouchSession, Touch, RemoveSettle,
              vars, putVars, closerVars
<1> QED BY <1>1, <1>2 DEF RelayStep, RelayForced

\* The receive loop walks over no shard.
LEMMA WorkerWalksNot ==
  ASSUME TypeOK, KeyUnique, WorkerStep
  PROVE  UNCHANGED <<at, sel>>
<1>1. ASSUME NEW s \in Session, Start(s) \/ SendFails(s) PROVE UNCHANGED <<at, sel>>
  BY <1>1, RemoveKeyFrame DEF Start, SendFails, vars, closerVars
<1>2. ASSUME NEW s \in Session, Putting(s) \/ Create(s) PROVE UNCHANGED <<at, sel>>
  BY <1>2 DEF Putting, Create, PutLoad, PutReserve, PutReject, PutInsert,
              PutDuplicate, PutAccount, CloseRefused, closerVars
<1>3. CASE Exit \/ Receive \/ \E c \in Client : Packet(c) \/ Found(c) \/ NotCreated(c)
  BY <1>3 DEF Exit, Receive, Packet, Found, NotCreated, vars, closerVars
<1>4. ASSUME NEW s \in Session, SendOk(s) PROVE UNCHANGED <<at, sel>>
  BY <1>4 DEF SendOk, TouchSession, Touch, vars, closerVars
<1>5. CASE WorkerSettle
  BY <1>5 DEF WorkerSettle, RemoveSettle, vars, closerVars
<1> QED BY <1>1, <1>2, <1>3, <1>4, <1>5 DEF WorkerStep, WorkerForced

\* The session stored under a key is one.
LEMMA StoredOne ==
  ASSUME KeyUnique, NEW k
  PROVE  \A r, s \in StoredAt(k) : r = s
BY DEF KeyUnique, StoredAt

\* What the invariants of the proxy need of a step of the table that leaves the
\* proxy where it is.
LEMMA ProxyStays ==
  ASSUME TypeOK, Lifecycle, ProxyTypeOK, ProxyInv, [Next]_vars,
         UNCHANGED proxyVars, UNCHANGED <<at[App], sel[App]>>,
         \A s \in live' : s \in live
  PROVE  ProxyInv'
<1>1. \A s \in Session : put[s] = "stored_true" => put'[s] = "stored_true"
  BY TableFrame
<1>2. UNCHANGED <<worker, relay, stage, stopped, open, adding>>
  BY DEF proxyVars, supervisorVars
<1>3. WorkerPlaced'
  BY <1>1, <1>2 DEF ProxyInv, WorkerPlaced
<1>4. RelayPlaced'
  BY <1>1, <1>2 DEF ProxyInv, RelayPlaced
<1>5. StopStages'
  BY <1>2 DEF ProxyInv, StopStages
<1>6. Swept'
  BY <1>2 DEF ProxyInv, Swept, ShardAt, KeyOf
<1>7. SessionHasRelay'
  BY <1>2 DEF ProxyInv, SessionHasRelay
<1> QED BY <1>3, <1>4, <1>5, <1>6, <1>7 DEF ProxyInv

-----------------------------------------------------------------------------
(* One lemma per actor: its steps keep the invariant *)

\* The relay of s: when it gives up, s is out of the table.
LEMMA RelayKeeps ==
  ASSUME ProxyTypeOK, KeyUnique, Lifecycle, ProxyInv, NEW s \in Session, RelayStep(s)
  PROVE  ProxyInv'
<1> USE DEF ProxyInv
<1>1. /\ TypeOK /\ relay' = [relay EXCEPT ![s] = relay'[s]] /\ relay[s].at # "none"
      /\ relay \in [Session -> RelayState] /\ relay' \in [Session -> RelayState]
      /\ UNCHANGED <<worker, stage, stopped, open, adding>>
  BY RelayTypes DEF ProxyTypeOK, RelayState, supervisorVars
<1>2. live' \subseteq live /\ UNCHANGED <<put, sel, at>>
  BY <1>1, RelayFrame
<1>3. relay'[s].at # "none"
  BY <1>1 DEF RelayStep, RelayForced, RelayGone, RelayRefused, RelayWrite, RelayRemoves,
              RelayReply, RelaySettle, RelayState
<1>4. relay'[s].at \in {"read", "write"} \/ s \notin live'
  <2>1. CASE RelayGone(s) \/ RelayRefused(s)
    BY <1>1, <2>1, RemoveKeyFrame DEF RelayGone, RelayRefused, RelayRemoves
  <2>2. CASE RelayWrite(s)
    <3>1. CASE open
      BY <1>1, <2>2, <3>1, RemoveKeyFrame DEF RelayWrite, RelayRemoves, RelayState
    <3>2. CASE ~open
      BY <1>1, <1>2, <3>2 DEF StopStages, Swept
    <3> QED BY <3>1, <3>2
  <2>3. CASE RelayReply(s)
    BY <1>1, <2>3 DEF RelayReply, RelayState
  <2>4. CASE RelaySettle(s)
    BY <1>1, <1>2, <2>4 DEF RelaySettle, SessionHasRelay, WorkerPlaced
  <2> QED BY <2>1, <2>2, <2>3, <2>4 DEF RelayStep, RelayForced
<1>5. \A r \in Session : r # s => relay'[r] = relay[r]
  BY <1>1
<1>6. WorkerPlaced' /\ RelayPlaced' /\ StopStages'
  BY <1>1, <1>2, <1>5 DEF WorkerPlaced, RelayPlaced, StopStages
<1>7. Swept'
  BY <1>1, <1>2, <1>5 DEF Swept, TypeOK, ShardAt, KeyOf
<1>8. SessionHasRelay'
  BY <1>1, <1>2, <1>4, <1>5 DEF SessionHasRelay, TypeOK
<1> QED BY <1>6, <1>7, <1>8

\* The receive loop: the session it is setting up is its own, and starts to be
\* relayed only while the listener is not draining.
LEMMA WorkerKeeps ==
  ASSUME ProxyTypeOK, KeyUnique, Lifecycle, ProxyInv, WorkerStep
  PROVE  ProxyInv'
<1> USE DEF ProxyInv
<1>1. /\ TypeOK /\ [Next]_vars
      /\ worker \in WorkerState /\ relay \in [Session -> RelayState]
      /\ UNCHANGED <<stage, stopped, open, adding>>
  BY WorkerTypes, WorkerTableStep DEF ProxyTypeOK, WorkerState, RelayState, supervisorVars
<1>2. \A s \in Session : put[s] = "stored_true" => put'[s] = "stored_true"
  BY <1>1, TableFrame
<1>3. UNCHANGED <<at, sel>>
  BY <1>1, WorkerWalksNot
<1>4. StopStages'
  BY <1>1 DEF StopStages
\* The relays stand still and no session enters the table.
<1>5. ASSUME relay' = relay, live' \subseteq live
      PROVE  RelayPlaced' /\ Swept'
  BY <1>1, <1>2, <1>3, <1>5 DEF RelayPlaced, Swept, ShardAt, KeyOf
\* And the session being set up is gone, or there was none.
<1>6. ASSUME relay' = relay, live' \subseteq live,
             worker.at \in {"put", "start"} => \A s \in worker.sess : s \notin live'
      PROVE  RelayPlaced' /\ Swept' /\ SessionHasRelay'
  BY <1>5, <1>6 DEF SessionHasRelay
<1>7. ASSUME NEW s \in Session, Putting(s) PROVE ProxyInv'
  <2>1. relay' = relay /\ worker.at = "put" /\ s \in worker.sess /\ relay[s].at = "none"
    BY <1>7 DEF Putting, WorkerPlaced
  <2>2. CASE CloseRefused(s) /\ NextPacket
    <3>1. live' = live /\ s \notin live
      BY <2>2 DEF CloseRefused, Lifecycle
    <3>2. \A r \in worker.sess : r \notin live'
      BY <2>1, <3>1 DEF WorkerPlaced
    <3>3. WorkerPlaced'
      BY <1>1, <2>2 DEF NextPacket, WorkerPlaced, WorkerState
    <3> QED BY <1>4, <1>6, <2>1, <3>1, <3>2, <3>3
  <2>3. CASE (PutReserve(s) \/ PutReject(s) \/ PutInsert(s) \/ PutDuplicate(s)) /\ Work("put")
    <3>1. worker'.at = "put" /\ worker'.sess = worker.sess
      BY <1>1, <2>3 DEF Work, WorkerState
    <3>2. live' \subseteq live \cup {s}
      BY <2>3 DEF PutReserve, PutReject, PutInsert, PutDuplicate
    <3>3. WorkerPlaced'
      BY <2>1, <3>1 DEF WorkerPlaced
    <3>4. RelayPlaced' /\ Swept'
      BY <1>1, <1>2, <1>3, <2>1, <3>2 DEF RelayPlaced, Swept, ShardAt, KeyOf
    <3>5. SessionHasRelay'
      BY <2>1, <3>1, <3>2 DEF SessionHasRelay
    <3> QED BY <1>4, <3>3, <3>4, <3>5
  <2>4. CASE PutAccount(s) /\ Work("start")
    <3>1. worker'.at = "start" /\ worker'.sess = worker.sess
      BY <1>1, <2>4 DEF Work, WorkerState
    <3>2. live' = live /\ put'[s] = "stored_true"
      BY <1>1, <2>4 DEF PutAccount, TypeOK
    <3>3. WorkerPlaced'
      BY <2>1, <3>1, <3>2 DEF WorkerPlaced
    <3>4. SessionHasRelay'
      BY <2>1, <3>1, <3>2 DEF SessionHasRelay
    <3> QED BY <1>4, <1>5, <2>1, <3>2, <3>3, <3>4
  <2> QED BY <1>7, <2>2, <2>3, <2>4 DEF Putting
<1>8. ASSUME NEW s \in Session, Create(s) PROVE ProxyInv'
  <2>1. /\ worker'.at = "put" /\ worker'.sess = {s} /\ FlowOf[s][1] = Self
        /\ put[s] = "new" /\ live' = live /\ relay' = relay
        /\ worker.at = "look"
    BY <1>1, <1>8 DEF Create, PutLoad, WorkerState
  <2>2. WorkerPlaced'
    BY <2>1 DEF WorkerPlaced, RelayPlaced
  <2> QED BY <1>4, <1>6, <2>1, <2>2
<1>9. ASSUME NEW s \in Session, Start(s) PROVE ProxyInv'
  <2>1. worker.at = "start" /\ s \in worker.sess /\ FlowOf[s][1] = Self
          /\ put[s] = "stored_true" /\ \A r \in worker.sess : r = s
    BY <1>9 DEF Start, WorkerPlaced
  <2>2. CASE stopped
    <3>1. s \notin live' /\ live' \subseteq live /\ relay' = relay
      BY <1>1, <1>9, <2>2, RemoveKeyFrame DEF Start
    <3>2. worker'.at = "settle" /\ worker'.sess = StoredAt(KeyOf(s))
      BY <1>1, <1>9, <2>2 DEF Start, WorkerState
    <3>3. WorkerPlaced'
      BY <3>2, StoredOne DEF WorkerPlaced
    <3> QED BY <1>4, <1>6, <2>1, <3>1, <3>3
  <2>3. CASE ~stopped
    <3>1. /\ relay' = [relay EXCEPT ![s].at = "read"] /\ UNCHANGED <<live, put>>
          /\ worker'.at = "send" /\ worker'.sess = worker.sess
      BY <1>1, <1>9, <2>3 DEF Start, Work, WorkerState, vars, putVars
    <3>2. relay'[s].at = "read" /\ \A r \in Session : r # s => relay'[r] = relay[r]
      BY <1>1, <3>1 DEF RelayState
    <3>3. WorkerPlaced'
      BY <2>1, <3>1 DEF WorkerPlaced
    <3>4. RelayPlaced'
      BY <2>1, <3>1, <3>2 DEF RelayPlaced
    <3>5. Swept'
      BY <1>1, <2>3 DEF Swept, StopStages
    <3>6. SessionHasRelay'
      BY <1>1, <2>1, <3>1, <3>2 DEF SessionHasRelay, TypeOK
    <3> QED BY <1>4, <3>3, <3>4, <3>5, <3>6
  <2> QED BY <2>2, <2>3
<1>10. ASSUME NEW s \in Session, SendFails(s) PROVE ProxyInv'
  <2>1. live' \subseteq live /\ relay' = relay /\ worker.at = "send"
    BY <1>1, <1>10, RemoveKeyFrame DEF SendFails
  <2>2. worker'.at = "settle" /\ worker'.sess = StoredAt(KeyOf(s))
    BY <1>1, <1>10 DEF SendFails, WorkerState
  <2>3. WorkerPlaced'
    BY <2>2, StoredOne DEF WorkerPlaced
  <2> QED BY <1>4, <1>6, <2>1, <2>3
<1>11. ASSUME NEW s \in Session, SendOk(s) PROVE ProxyInv'
  <2>1. live' = live /\ relay' = relay /\ worker.at = "send"
    BY <1>11 DEF SendOk, TouchSession, Touch, vars
  <2>2. worker'.at = "packet" /\ worker'.sess = {}
    BY <1>1, <1>11 DEF SendOk, NextPacket, WorkerState
  <2>3. WorkerPlaced'
    BY <2>2 DEF WorkerPlaced
  <2> QED BY <1>4, <1>6, <2>1, <2>3
<1>12. ASSUME NEW c \in Client, Found(c) PROVE ProxyInv'
  <2>1. live' = live /\ relay' = relay /\ worker.at = "look" /\ put' = put
    BY <1>12 DEF Found, vars, putVars
  <2>2. worker'.at = "send" /\ worker'.sess = StoredAt(<<Self, c>>)
    BY <1>1, <1>12 DEF Found, WorkerState
  <2>3. \A s \in StoredAt(<<Self, c>>) : s \in Session /\ FlowOf[s][1] = Self
    BY <1>1 DEF StoredAt, KeyOf, TypeOK
  <2>4. WorkerPlaced'
    BY <2>2, <2>3, StoredOne DEF WorkerPlaced
  <2> QED BY <1>4, <1>6, <2>1, <2>4
<1>13. CASE Exit \/ Receive \/ WorkerSettle \/ \E c \in Client : Packet(c) \/ NotCreated(c)
  <2>1. live' = live /\ relay' = relay /\ worker.at \in {"packet", "settle", "look"}
    BY <1>13 DEF Exit, Receive, WorkerSettle, Packet, NotCreated, RemoveSettle, vars
  <2>2. /\ worker'.at \in {"packet", "look", "done"}
        /\ worker'.sess = worker.sess \/ worker'.sess = {}
    BY <1>1, <1>13 DEF Exit, Receive, WorkerSettle, Packet, NotCreated, Work,
                       NextPacket, WorkerState
  <2>3. WorkerPlaced'
    BY <2>2 DEF WorkerPlaced
  <2> QED BY <1>4, <1>6, <2>1, <2>3
<1> QED BY <1>7, <1>8, <1>9, <1>10, <1>11, <1>12, <1>13 DEF WorkerStep, WorkerForced

\* A change of the supervisor's own variables that leaves it outside the final
\* sweep.
LEMMA RunKeeps ==
  ASSUME ProxyInv, UNCHANGED <<worker, relay, put, live>>, StopStages',
         stage' \in {"run", "cancelled", "drained"}
  PROVE  ProxyInv'
BY DEF ProxyInv, WorkerPlaced, RelayPlaced, Swept, SessionHasRelay

\* The shards are numbered below NShards.
LEMMA ShardRange ==
  ASSUME NEW s \in Session
  PROVE  ShardAt(s) \in 0 .. NShards - 1
BY RouteTypes, ConstantsAssumption, FlowsAssumption DEF ShardAt, KeyOf, Key, Flow

\* The operations: each begins while the listener runs.
LEMMA OperationKeeps ==
  ASSUME TypeOK, Lifecycle, ProxyTypeOK, ProxyInv, Operation
  PROVE  ProxyInv'
<1> USE DEF ProxyInv
<1>1. ASSUME NEW b \in Leaving, Evict(b) \/ Admit(b) PROVE ProxyInv'
  <2>1. /\ UNCHANGED <<worker, relay, put, live, stage, adding, stopped, open>>
        /\ stage = "run"
    BY <1>1 DEF Evict, Admit, Free, CloseBegin, vars, putVars
  <2>2. StopStages'
    BY <2>1 DEF StopStages
  <2> QED BY <2>1, <2>2, RunKeeps
<1>2. ASSUME NEW b \in Leaving, CallbackClose(b) PROVE ProxyInv'
  <2>1. App # Health /\ Health \in Closer /\ b \in Backend
    BY ProxyAssumption
  <2>2. UNCHANGED proxyVars /\ live' = live /\ UNCHANGED <<at[App], sel[App]>>
    BY <1>2, <2>1 DEF CallbackClose, CloseBegin, TypeOK
  <2>3. [Next]_vars
    BY <1>2, <2>1, CloseBeginStep, SelectorsAssumption DEF CallbackClose
  <2> QED BY <2>2, <2>3, ProxyStays
<1>3. ASSUME NEW c \in Client, Block(c) \/ BlockAdd(c) \/ BlockCommit(c) \/ Unblock(c)
      PROVE  ProxyInv'
  <2>1. stage = "run" /\ stage' = "run"
    BY <1>3 DEF Block, BlockAdd, BlockCommit, Unblock, Enforce, Free, StopStages
  <2>2. UNCHANGED <<worker, relay, put, live, stopped, open>>
    BY <1>3 DEF Block, BlockAdd, BlockCommit, Unblock, Enforce, CloseBegin, vars, putVars
  <2>3. StopStages'
    BY <2>1, <2>2 DEF StopStages
  <2> QED BY <2>1, <2>2, <2>3, RunKeeps
<1>4. CASE StopCancel
  <2>1. /\ UNCHANGED <<worker, relay, put, live, adding, stopped, open>>
        /\ stage = "run" /\ stage' = "cancelled" /\ adding = {}
    BY <1>4 DEF StopCancel, Free, vars, putVars
  <2>2. StopStages'
    BY <2>1 DEF StopStages, Stages
  <2> QED BY <2>1, <2>2, RunKeeps
<1> QED BY <1>1, <1>2, <1>3, <1>4 DEF Operation

\* The stop: the sweep starts at the first shard, and the frontend socket is
\* closed once it has passed the last.
LEMMA StopKeeps ==
  ASSUME TypeOK, ProxyTypeOK, ProxyInv, StopForced
  PROVE  ProxyInv'
<1> USE DEF ProxyInv
<1>1. UNCHANGED <<worker, relay, put, live, adding>>
  BY DEF StopForced, StopDrain, StopSweep, StopClose, StopJoin, CloseBegin, vars, putVars
<1>2. WorkerPlaced' /\ RelayPlaced' /\ SessionHasRelay'
  BY <1>1 DEF WorkerPlaced, RelayPlaced, SessionHasRelay
<1>3. StopStages'
  BY <1>1 DEF StopForced, StopDrain, StopSweep, StopClose, StopJoin, StopStages, Stages
<1>4. Swept'
  <2>1. CASE StopDrain
    BY <2>1 DEF StopDrain, Swept
  <2>2. CASE StopSweep
    <3>1. stage' = "sweeping" /\ at'[App] = 0 /\ sel'[App] = OwnFlows
      BY <2>2, ProxyAssumption DEF StopSweep, CloseBegin, FirstShard, TypeOK
    <3>2. \A s \in live' : 0 <= ShardAt(s)'
      BY <1>1, ShardRange DEF TypeOK, ShardAt, KeyOf
    <3> QED BY <3>1, <3>2 DEF Swept, OwnFlows
  <2>3. CASE StopClose
    <3>1. stage = "sweeping" /\ stage' = "closed" /\ at[App] = NShards + 1
      BY <2>3 DEF StopClose, Resting
    <3>2. ASSUME NEW s \in live, relay[s].at # "none" PROVE FALSE
      <4>1. NShards + 1 <= ShardAt(s)
        BY <3>1, <3>2 DEF Swept
      <4>2. ShardAt(s) \in 0 .. NShards - 1
        BY ShardRange DEF TypeOK
      <4> QED BY <4>1, <4>2, ConstantsAssumption
    <3> QED BY <1>1, <3>1, <3>2 DEF Swept
  <2>4. CASE StopJoin
    BY <1>1, <2>4 DEF StopJoin, Swept
  <2> QED BY <2>1, <2>2, <2>3, <2>4 DEF StopForced
<1> QED BY <1>2, <1>3, <1>4

\* A closeWhere under way: the final sweep takes the relayed sessions of the
\* shard it visits.
LEMMA ClosingKeeps ==
  ASSUME TypeOK, Lifecycle, ProxyTypeOK, ProxyInv, NEW c \in Closer, Closing(c)
  PROVE  ProxyInv'
<1> USE DEF ProxyInv
<1>1. UNCHANGED proxyVars /\ live' \subseteq live /\ UNCHANGED put
  BY DEF Closing, CloseStep, CloseShard, CloseSettle, putVars
<1>2. CASE c # App
  <2>1. UNCHANGED <<at[App], sel[App]>>
    BY <1>2, ProxyAssumption DEF Closing, CloseStep, CloseShard, CloseSettle, TypeOK
  <2>2. [Next]_vars
    BY DEF Closing, Next
  <2> QED BY <1>1, <2>1, <2>2, ProxyStays
<1>3. CASE c = App
  <2>1. UNCHANGED <<worker, relay, stage, stopped, open, adding>>
    BY <1>1 DEF proxyVars, supervisorVars
  <2>2. WorkerPlaced' /\ RelayPlaced' /\ StopStages' /\ SessionHasRelay'
    BY <1>1, <2>1 DEF WorkerPlaced, RelayPlaced, StopStages, SessionHasRelay
  <2>3. ASSUME stage = "sweeping"
        PROVE  /\ at'[App] < NShards => sel'[App] = OwnFlows
               /\ \A s \in live' : relay[s].at # "none" => at'[App] <= ShardAt(s)
    <3>1. CASE CloseShard(c)
      <4>1. /\ at[App] \in 0..Resting /\ at[App] < NShards
            /\ at'[App] = at[App] + 1 /\ sel' = sel /\ sel[App] = OwnFlows
        BY <1>3, <2>3, <3>1, ProxyAssumption DEF CloseShard, TypeOK, Swept
      <4>2. ASSUME NEW s \in live', relay[s].at # "none"
            PROVE  at[App] + 1 <= ShardAt(s)
        <5>1. s \in live /\ s \in Session
          BY <1>1 DEF TypeOK
        <5>2. FlowOf[s] \in OwnFlows
          BY <4>2, <5>1, FlowsAssumption DEF RelayPlaced, OwnFlows
        <5>3. at[App] <= ShardAt(s) /\ ShardAt(s) \in 0 .. NShards - 1
          BY <2>3, <4>2, <5>1, ShardRange DEF Swept
        <5>4. ShardAt(s) # at[App]
          BY <1>3, <3>1, <4>1, <5>1, <5>2 DEF CloseShard, Matching
        <5> QED BY <4>1, <5>3, <5>4, ConstantsAssumption DEF Resting
      <4> QED BY <4>1, <4>2
    <3>2. CASE CloseSettle(c)
      <4>1. at[App] = NShards /\ at'[App] = NShards + 1 /\ live' = live
        BY <1>3, <3>2, ProxyAssumption DEF CloseSettle, TypeOK, Resting
      <4>2. ASSUME NEW s \in live, relay[s].at # "none" PROVE FALSE
        <5>1. NShards <= ShardAt(s) /\ ShardAt(s) \in 0 .. NShards - 1
          BY <2>3, <4>1, <4>2, ShardRange DEF Swept, TypeOK
        <5> QED BY <5>1, ConstantsAssumption
      <4>3. ~ (at'[App] < NShards)
        BY <4>1, ConstantsAssumption
      <4> QED BY <4>1, <4>2, <4>3
    <3> QED BY <3>1, <3>2 DEF Closing, CloseStep
  <2>4. Swept'
    BY <1>1, <2>1, <2>3 DEF Swept, ShardAt, KeyOf, OwnFlows
  <2> QED BY <2>2, <2>4
<1> QED BY <1>2, <1>3

\* The invariant holds at the start and every step keeps it.
LEMMA ProxyInductive ==
  /\ ProxyInit => ProxyInv
  /\ ProxyTypeOK /\ KeyUnique /\ Lifecycle /\ ProxyInv /\ [ProxyNext]_allVars
       => ProxyInv'
<1>1. ProxyInit => ProxyInv
  BY DEF ProxyInit, Init, Parked, ProxyInv, WorkerPlaced, RelayPlaced, StopStages,
         Stages, Swept, SessionHasRelay
<1>2. ASSUME ProxyTypeOK, KeyUnique, Lifecycle, ProxyInv, [ProxyNext]_allVars
      PROVE  ProxyInv'
  <2>1. TypeOK /\ [Next]_vars
    BY <1>2, TableStep DEF ProxyTypeOK
  <2>2. ASSUME NEW s \in Session, Idling(s) PROVE ProxyInv'
    BY <1>2, <2>1, <2>2, ProxyStays DEF Idling, GoIdle, closerVars
  <2>3. CASE Reaping
    BY <1>2, <2>1, <2>3, ProxyStays DEF Reaping, Sweep, closerVars
  <2>4. CASE UNCHANGED allVars
    BY <1>2, <2>1, <2>4, ProxyStays DEF allVars, vars, closerVars
  <2> QED BY <1>2, <2>1, <2>2, <2>3, <2>4, WorkerKeeps, RelayKeeps, OperationKeeps,
             StopKeeps, ClosingKeeps DEF ProxyNext
<1> QED BY <1>1, <1>2

\* Through every interleaving of packets, relays, evictions, bans, the reaper
\* and the stop, no session stays in the table without somebody reading it.
THEOREM SessionHasRelayCorrect == ProxySpec => []SessionHasRelay
<1>1. ProxySpec => []ProxyInv
  BY ProxyInductive, ProxyTypeCorrect, TableKept, PTL DEF ProxySpec
<1>2. ProxyInv => SessionHasRelay
  BY DEF ProxyInv
<1> QED BY <1>1, <1>2, PTL

\* After the final sweep of a stop, every relay still reading or writing works
\* on a session whose socket is closed or about to be.
THEOREM NoRelayOutlivesStopCorrect == ProxySpec => []NoRelayOutlivesStop
<1>1. ProxySpec => []ProxyInv
  BY ProxyInductive, ProxyTypeCorrect, TableKept, PTL DEF ProxySpec
<1>2. ProxyInv /\ SocketsFollowTable => NoRelayOutlivesStop
  BY DEF ProxyInv, RelayPlaced, Swept, SocketsFollowTable, NoRelayOutlivesStop
<1> QED BY <1>1, <1>2, TableKept, PTL
-----------------------------------------------------------------------------
(* What evictions and bans leave in the table *)

Departed(s) == BackendOf(s) \notin pool \/ ClientOf(s) \in blocked
Marked(s)   == Departed(s) => ClientOf(s) \in late

\* The supervisor's walk has still to come by the session, and will take it.
Awaited(s) == FlowOf[s] \in sel[App] /\ at[App] <= ShardAt(s)

\* OnlyLateEscape speaks of the moments between two operations.  During one, a
\* session of what departs is before the walk that began at the swap; and the
\* receive loop may have at hand a session it has not stored yet, or a client it
\* has let pass, only if the swap saw that.
EscapeInv ==
  stage = "run" =>
    /\ \A s \in live : Marked(s) \/ Awaited(s)
    /\ worker.at = "look" => worker.client \cap blocked \subseteq late
    /\ worker.at = "put" =>
         \A s \in worker.sess : Marked(s) /\ ClientOf(s) \in worker.client

\* What the table holds is the listener's.
LEMMA OwnSessions ==
  ASSUME TypeOK, ProxyInv, NEW s \in live
  PROVE  s \in Session /\ FlowOf[s] \in Flow /\ FlowOf[s][1] = Self
<1>1. s \in Session
  BY DEF TypeOK
<1>2. FlowOf[s] \in Flow
  BY <1>1, FlowsAssumption
<1>3. FlowOf[s][1] = Self
  BY <1>1 DEF ProxyInv, SessionHasRelay, RelayPlaced, WorkerPlaced
<1> QED BY <1>1, <1>2, <1>3

\* Steps that store nothing, take nothing away from the pool, block nobody and
\* leave the supervisor's walk and the receive loop where they are.
LEMMA EscapeStays ==
  ASSUME EscapeInv, stage' = "run" => stage = "run", live' \subseteq live,
         UNCHANGED <<worker, late, at[App], sel[App]>>,
         pool \subseteq pool', blocked' \subseteq blocked
  PROVE  EscapeInv'
<1> SUFFICES ASSUME stage' = "run" PROVE EscapeInv'
  BY DEF EscapeInv
<1>1. \A s : (Marked(s) => Marked(s)') /\ (Awaited(s) => Awaited(s)')
  BY DEF Marked, Departed, Awaited, BackendOf, ClientOf, ShardAt, KeyOf
<1> QED BY <1>1 DEF EscapeInv, ClientOf

\* The supervisor swaps the pool or the list and begins its walk: what departs
\* by that is what the walk takes, or has the receive loop's client.
LEMMA EscapeSwap ==
  ASSUME TypeOK, ProxyTypeOK, ProxyInv, EscapeInv, stage = "run", at[App] = Resting,
         NEW fs \in Selectors, CloseBegin(App, fs), UNCHANGED worker,
         late' = late \cup UnderWay,
         \A s \in live : Departed(s)' => Departed(s) \/ FlowOf[s] \in fs
  PROVE  EscapeInv'
<1>1. live' = live /\ sel'[App] = fs /\ at'[App] = 0
  BY ProxyAssumption DEF CloseBegin, FirstShard, TypeOK
<1>2. ASSUME NEW s \in live PROVE Marked(s)
  <2>1. ShardAt(s) \in 0 .. NShards - 1
    BY RouteTypes DEF TypeOK
  <2>2. ~ (at[App] <= ShardAt(s))
    BY <2>1, ConstantsAssumption DEF Resting
  <2> QED BY <2>2 DEF EscapeInv, Awaited
<1>3. ASSUME NEW s \in live PROVE Marked(s)' \/ Awaited(s)'
  <2>1. ShardAt(s) >= 0 /\ ShardAt(s)' = ShardAt(s)
    <3>1. ShardAt(s) \in 0 .. NShards - 1
      BY RouteTypes DEF TypeOK
    <3>2. ShardAt(s)' = ShardAt(s)
      BY DEF ShardAt, KeyOf
    <3> QED BY <3>1, <3>2, ConstantsAssumption
  <2>2. CASE Departed(s)' /\ ~ Departed(s)
    BY <1>1, <2>1, <2>2 DEF Awaited
  <2>3. CASE ~ Departed(s)' \/ Departed(s)
    BY <1>2, <2>3 DEF Marked, ClientOf
  <2> QED BY <2>2, <2>3
<1>4. worker'.at = "look" => worker'.client \cap blocked' \subseteq late'
  BY DEF UnderWay
<1>5. worker'.at = "put" =>
        \A s \in worker'.sess : Marked(s)' /\ ClientOf(s)' \in worker'.client
  BY DEF UnderWay, EscapeInv, Marked, ClientOf
<1> QED BY <1>1, <1>3, <1>4, <1>5 DEF EscapeInv

\* The receive loop: whom it lets pass is not blocked at that moment, and what
\* it stores it took from the pool.
LEMMA EscapeWorker ==
  ASSUME TypeOK, ProxyTypeOK, KeyUnique, ProxyInv, EscapeInv, WorkerStep
  PROVE  EscapeInv'
<1>1. /\ UNCHANGED supervisorVars /\ UNCHANGED <<at, sel>> /\ worker \in WorkerState
  BY WorkerWalksNot, WorkerTypes DEF ProxyTypeOK, WorkerState
<1>2. UNCHANGED <<pool, blocked, late, stage>>
  BY <1>1 DEF supervisorVars
<1>3. \A s : Marked(s)' = Marked(s) /\ Awaited(s)' = Awaited(s)
  BY <1>1, <1>2 DEF Marked, Departed, Awaited, BackendOf, ClientOf, ShardAt, KeyOf
<1> SUFFICES ASSUME stage = "run" PROVE EscapeInv'
  BY <1>2 DEF EscapeInv
<1>4. ASSUME live' \subseteq live, worker'.at \notin {"look", "put"} PROVE EscapeInv'
  BY <1>3, <1>4 DEF EscapeInv
<1>5. CASE Exit \/ Receive \/ \E c \in Client : Found(c) \/ NotCreated(c)
  <2>1. live' = live
    BY <1>5 DEF Exit, Receive, Found, NotCreated, vars
  <2>2. worker'.at \notin {"look", "put"}
    BY <1>1, <1>5 DEF Exit, Receive, Found, NotCreated, Work, NextPacket, WorkerState
  <2> QED BY <1>4, <2>1, <2>2
<1>6. ASSUME NEW c \in Client, Packet(c) PROVE EscapeInv'
  <2>1. /\ live' = live /\ worker'.at # "put"
        /\ worker'.at = "look" => worker'.client = {c} /\ c \notin blocked
    BY <1>1, <1>6 DEF Packet, WorkerState, vars
  <2> QED BY <1>2, <1>3, <2>1 DEF EscapeInv
<1>7. ASSUME NEW s \in Session, Create(s) PROVE EscapeInv'
  <2>1. /\ live' = live /\ worker'.at = "put" /\ worker'.sess = {s}
        /\ worker'.client = worker.client /\ worker.at = "look"
        /\ ClientOf(s) \in worker.client /\ BackendOf(s) \in pool
    BY <1>1, <1>7 DEF Create, PutLoad, WorkerState
  <2>2. Marked(s)
    BY <2>1 DEF EscapeInv, Marked, Departed
  <2> QED BY <1>3, <2>1, <2>2 DEF EscapeInv, ClientOf
<1>8. ASSUME NEW s \in Session, Putting(s) PROVE EscapeInv'
  <2>1. worker.at = "put" /\ s \in worker.sess
    BY <1>8 DEF Putting
  <2>2. live' \subseteq live \cup {s}
    BY <1>8 DEF Putting, PutReserve, PutReject, PutInsert, PutDuplicate, PutAccount,
                CloseRefused
  <2>3. /\ worker'.at # "look"
        /\ worker'.at = "put" => worker'.sess = worker.sess /\ worker'.client = worker.client
    BY <1>1, <1>8 DEF Putting, Work, NextPacket, WorkerState
  <2> QED BY <1>3, <2>1, <2>2, <2>3 DEF EscapeInv, ClientOf
<1>9. ASSUME NEW s \in Session, Start(s) \/ SendFails(s) PROVE EscapeInv'
  <2>1. live' \subseteq live
    BY <1>9, RemoveKeyFrame DEF Start, SendFails, vars
  <2>2. worker'.at \notin {"look", "put"}
    BY <1>1, <1>9 DEF Start, SendFails, Work, WorkerState
  <2> QED BY <1>4, <2>1, <2>2
<1>10. ASSUME NEW s \in Session, SendOk(s) PROVE EscapeInv'
  <2>1. live' = live
    BY <1>10 DEF SendOk, TouchSession, Touch, vars
  <2>2. worker'.at \notin {"look", "put"}
    BY <1>1, <1>10 DEF SendOk, NextPacket, WorkerState
  <2> QED BY <1>4, <2>1, <2>2
<1>11. CASE WorkerSettle
  <2>1. live' = live
    BY <1>11 DEF WorkerSettle, RemoveSettle, vars
  <2>2. worker'.at \notin {"look", "put"}
    BY <1>1, <1>11 DEF WorkerSettle, NextPacket, WorkerState
  <2> QED BY <1>4, <2>1, <2>2
<1> QED BY <1>5, <1>6, <1>7, <1>8, <1>9, <1>10, <1>11 DEF WorkerStep, WorkerForced

\* The operations: each swaps first and walks second; the walk BlacklistAdd
\* makes before its swap neither helps nor harms.
LEMMA EscapeOperation ==
  ASSUME TypeOK, ProxyTypeOK, ProxyInv, EscapeInv, Operation
  PROVE  EscapeInv'
<1>1. ASSUME NEW b \in Leaving, Evict(b) PROVE EscapeInv'
  <2>1. /\ BackendFlows(b) \in Selectors
    BY SelectorsAssumption, ProxyAssumption
  <2>2. \A s \in live : Departed(s)' => Departed(s) \/ FlowOf[s] \in BackendFlows(b)
    <3>1. pool' = pool \ {b} /\ blocked' = blocked
      BY <1>1 DEF Evict
    <3> QED BY <3>1, OwnSessions DEF Departed, BackendFlows, BackendOf, ClientOf
  <2> QED BY <1>1, <2>1, <2>2, EscapeSwap DEF Evict, Free
<1>2. ASSUME NEW c \in Client, Enforce(c), stage = "run", at[App] = Resting
      PROVE  EscapeInv'
  <2>1. ClientFlows(c) \in Selectors
    BY SelectorsAssumption
  <2>2. \A s \in live : Departed(s)' => Departed(s) \/ FlowOf[s] \in ClientFlows(c)
    <3>1. pool' = pool /\ blocked' = blocked \cup {c}
      BY <1>2 DEF Enforce
    <3> QED BY <3>1, OwnSessions DEF Departed, ClientFlows, BackendOf, ClientOf
  <2> QED BY <1>2, <2>1, <2>2, EscapeSwap DEF Enforce
<1>3. ASSUME NEW c \in Client, Block(c) \/ BlockCommit(c) PROVE EscapeInv'
  BY <1>2, <1>3 DEF Block, BlockCommit, Free, ProxyInv, StopStages
<1>4. ASSUME NEW c \in Client, BlockAdd(c) PROVE EscapeInv'
  <2>1. /\ stage = "run" /\ at[App] = Resting /\ live' = live
        /\ UNCHANGED <<worker, late, pool, blocked, stage>>
    BY <1>4 DEF BlockAdd, CloseBegin, Free
  <2>2. ASSUME NEW s \in live PROVE ~ Awaited(s)
    <3>1. ShardAt(s) \in 0 .. NShards - 1
      BY RouteTypes DEF TypeOK
    <3> QED BY <2>1, <3>1, ConstantsAssumption DEF Resting, Awaited
  <2>3. \A s : Marked(s)' = Marked(s)
    BY <2>1 DEF Marked, Departed, BackendOf, ClientOf
  <2> QED BY <2>1, <2>2, <2>3 DEF EscapeInv, ClientOf
<1>5. ASSUME NEW b \in Leaving, Admit(b) PROVE EscapeInv'
  <2>1. /\ UNCHANGED <<worker, late, at, sel, live, stage, blocked>>
        /\ pool \subseteq pool'
    BY <1>5 DEF Admit, vars, closerVars
  <2> QED BY <2>1, EscapeStays
<1>6. ASSUME NEW c \in Client, Unblock(c) PROVE EscapeInv'
  <2>1. /\ UNCHANGED <<worker, late, at, sel, live, stage, pool>>
        /\ blocked' \subseteq blocked
    BY <1>6 DEF Unblock, vars, closerVars
  <2> QED BY <2>1, EscapeStays
<1>7. ASSUME NEW b \in Leaving, CallbackClose(b) PROVE EscapeInv'
  <2>1. App # Health
    BY ProxyAssumption
  <2>2. /\ UNCHANGED <<worker, late, live, stage, pool, blocked, at[App], sel[App]>>
    BY <1>7, <2>1 DEF CallbackClose, CloseBegin, proxyVars, supervisorVars, TypeOK
  <2> QED BY <2>2, EscapeStays
<1>8. CASE StopCancel
  BY <1>8 DEF StopCancel, EscapeInv
<1> QED BY <1>1, <1>3, <1>4, <1>5, <1>6, <1>7, <1>8 DEF Operation

\* A walk under way: the supervisor's takes what awaits it in its shard.
LEMMA EscapeClosing ==
  ASSUME TypeOK, ProxyTypeOK, ProxyInv, EscapeInv, NEW c \in Closer, Closing(c)
  PROVE  EscapeInv'
<1>1. live' \subseteq live /\ UNCHANGED <<worker, late, stage, pool, blocked>>
  BY DEF Closing, CloseStep, CloseShard, CloseSettle, proxyVars, supervisorVars
<1>2. CASE c # App
  <2>1. UNCHANGED <<at[App], sel[App]>>
    BY <1>2, ProxyAssumption DEF Closing, CloseStep, CloseShard, CloseSettle, TypeOK
  <2> QED BY <1>1, <2>1, EscapeStays
<1>3. CASE c = App
  <2>1. \A s : Marked(s)' = Marked(s)
    BY <1>1 DEF Marked, Departed, BackendOf, ClientOf
  <2>2. ASSUME NEW s \in live', Awaited(s) PROVE Awaited(s)'
    <3>1. s \in live /\ ShardAt(s) \in 0 .. NShards - 1 /\ ShardAt(s)' = ShardAt(s)
      BY <1>1, RouteTypes DEF TypeOK, ShardAt, KeyOf
    <3>2. at[App] < NShards /\ at[App] \in 0 .. Resting
      BY <2>2, <3>1, ConstantsAssumption, ProxyAssumption DEF TypeOK, Awaited, Resting
    <3>3. CloseShard(App)
      BY <1>3, <3>2, ConstantsAssumption DEF Closing, CloseStep, CloseSettle
    <3>4. /\ at'[App] = at[App] + 1 /\ sel' = sel
          /\ live' = live \ {r \in Matching(live, sel[App]) : ShardAt(r) = at[App]}
      BY <3>3, ProxyAssumption DEF CloseShard, TypeOK
    <3>5. ShardAt(s) # at[App]
      BY <2>2, <3>1, <3>4 DEF Matching, Awaited
    <3>6. at[App] + 1 <= ShardAt(s)
      BY <2>2, <3>1, <3>2, <3>5, ConstantsAssumption DEF Awaited, Resting
    <3> QED BY <2>2, <3>1, <3>4, <3>6 DEF Awaited
  <2> QED BY <1>1, <2>1, <2>2 DEF EscapeInv, ClientOf
<1> QED BY <1>2, <1>3

\* The invariant holds at the start and every step keeps it.
LEMMA EscapeInductive ==
  /\ ProxyInit => EscapeInv
  /\ ProxyTypeOK /\ KeyUnique /\ ProxyInv /\ EscapeInv /\ [ProxyNext]_allVars
       => EscapeInv'
<1>1. ProxyInit => EscapeInv
  BY DEF ProxyInit, Init, EscapeInv
<1>2. ASSUME ProxyTypeOK, KeyUnique, ProxyInv, EscapeInv, [ProxyNext]_allVars
      PROVE  EscapeInv'
  <2>1. TypeOK
    BY <1>2 DEF ProxyTypeOK
  <2>2. CASE WorkerStep
    BY <1>2, <2>1, <2>2, EscapeWorker
  <2>3. ASSUME NEW s \in Session, RelayStep(s) PROVE EscapeInv'
    <3>1. live' \subseteq live /\ UNCHANGED <<at, sel>>
      BY <1>2, <2>1, <2>3, RelayFrame
    <3>2. UNCHANGED <<worker, supervisorVars>>
      BY <2>3 DEF RelayStep, RelayForced, RelayGone, RelayRefused, RelayWrite,
                  RelayReply, RelaySettle
    <3> QED BY <1>2, <3>1, <3>2, EscapeStays DEF supervisorVars
  <2>4. CASE Operation
    BY <1>2, <2>1, <2>4, EscapeOperation
  <2>5. CASE StopForced
    BY <2>5 DEF StopForced, StopDrain, StopSweep, StopClose, StopJoin, EscapeInv
  <2>6. ASSUME NEW c \in Closer, Closing(c) PROVE EscapeInv'
    BY <1>2, <2>1, <2>6, EscapeClosing
  <2>7. CASE Reaping \/ (\E s \in Session : Idling(s)) \/ UNCHANGED allVars
    <3>1. live' \subseteq live /\ UNCHANGED <<at, sel, proxyVars>>
      BY <2>7 DEF Reaping, Sweep, Idling, GoIdle, allVars, vars, closerVars
    <3> QED BY <1>2, <3>1, EscapeStays DEF proxyVars, supervisorVars
  <2> QED BY <1>2, <2>2, <2>3, <2>4, <2>5, <2>6, <2>7 DEF ProxyNext
<1> QED BY <1>1, <1>2

\* Swapping first and closing second leaves, of what departed, only the sessions
\* of clients whose packet was in the receive loop's hands at the swap.
THEOREM OnlyLateEscapeCorrect == ProxySpec => []OnlyLateEscape
<1>1. ProxySpec => []ProxyInv
  BY ProxyInductive, ProxyTypeCorrect, TableKept, PTL DEF ProxySpec
<1>2. ProxySpec => []EscapeInv
  BY <1>1, EscapeInductive, ProxyTypeCorrect, TableKept, PTL DEF ProxySpec
<1>3. ProxyTypeOK /\ EscapeInv => OnlyLateEscape
  <2> SUFFICES ASSUME TypeOK, EscapeInv, Free, NEW s \in live, Departed(s)
               PROVE  ClientOf(s) \in late
    BY DEF OnlyLateEscape, Departed, ProxyTypeOK
  <2>1. ShardAt(s) \in 0 .. NShards - 1 /\ at[App] = NShards + 1
    BY RouteTypes DEF TypeOK, Free, Resting
  <2>2. ~ Awaited(s)
    BY <2>1, ConstantsAssumption DEF Awaited
  <2> QED BY <2>2 DEF EscapeInv, Free, Marked
<1> QED BY <1>2, <1>3, ProxyTypeCorrect, PTL
-----------------------------------------------------------------------------
(* What a failed write costs *)

\* A step that leaves the receive loop where it is and stores nothing.
LEMMA HandStays ==
  ASSUME HandOnly, worker' = worker, live' \subseteq live
  PROVE  HandOnly'
BY DEF HandOnly, StoredAt, KeyOf

\* Nobody but the receive loop moves it, or stores a session.
LEMMA OthersStoreNothing ==
  ASSUME ProxyTypeOK, KeyUnique, [ProxyNext]_allVars, ~WorkerStep
  PROVE  worker' = worker /\ live' \subseteq live
<1>1. ASSUME NEW s \in Session, RelayStep(s) PROVE worker' = worker /\ live' \subseteq live
  <2>1. worker' = worker
    BY <1>1 DEF RelayStep, RelayForced, RelayGone, RelayRefused, RelayWrite,
                RelayReply, RelaySettle
  <2> QED BY <1>1, <2>1, RelayFrame DEF ProxyTypeOK
<1>2. CASE Operation
  BY <1>2 DEF Operation, Evict, Admit, CallbackClose, Block, BlockAdd, BlockCommit,
              Unblock, StopCancel, Enforce, CloseBegin, proxyVars, vars
<1>3. CASE StopForced
  BY <1>3 DEF StopForced, StopDrain, StopSweep, StopClose, StopJoin, CloseBegin, vars
<1>4. ASSUME NEW c \in Closer, Closing(c) PROVE worker' = worker /\ live' \subseteq live
  BY <1>4 DEF Closing, CloseStep, CloseShard, CloseSettle, proxyVars
<1>5. CASE Reaping \/ \E s \in Session : Idling(s)
  BY <1>5 DEF Reaping, Sweep, Idling, GoIdle, proxyVars
<1>6. CASE UNCHANGED allVars
  BY <1>6 DEF allVars, vars, proxyVars
<1> QED BY <1>1, <1>2, <1>3, <1>4, <1>5, <1>6 DEF ProxyNext

\* The receive loop stores the session it has at hand, and takes another only
\* when the table holds none for the client, or from the table.
LEMMA HandWorker ==
  ASSUME ProxyTypeOK, KeyUnique, WorkerPlaced, HandOnly, WorkerStep
  PROVE  HandOnly'
<1>0. worker \in WorkerState
  BY DEF ProxyTypeOK, WorkerState
<1>1. ASSUME NEW s \in Session, Create(s) PROVE HandOnly'
  <2>1. worker'.sess = {s} /\ live' = live /\ StoredAt(KeyOf(s)) = {}
    BY <1>0, <1>1 DEF Create, PutLoad, WorkerState
  <2> QED BY <2>1 DEF HandOnly, StoredAt, KeyOf
<1>2. ASSUME NEW s \in Session, Putting(s) PROVE HandOnly'
  <2>1. CASE CloseRefused(s) /\ NextPacket
    BY <1>0, <2>1 DEF NextPacket, WorkerState, HandOnly
  <2>2. CASE ~ (CloseRefused(s) /\ NextPacket)
    <3>1. worker'.sess = worker.sess /\ worker.at = "put" /\ s \in worker.sess
      BY <1>0, <1>2, <2>2 DEF Putting, Work, WorkerState
    <3>2. live' \subseteq live \cup {s}
      BY <1>2, <2>2 DEF Putting, PutReserve, PutReject, PutInsert, PutDuplicate, PutAccount
    <3>3. \A r \in worker.sess : r = s
      BY <3>1 DEF WorkerPlaced
    <3> QED BY <3>1, <3>2, <3>3 DEF HandOnly, StoredAt, KeyOf
  <2> QED BY <2>1, <2>2
<1>3. ASSUME NEW s \in Session, Start(s) PROVE HandOnly'
  <2>1. CASE stopped
    BY <1>0, <1>3, <2>1 DEF Start, WorkerState, HandOnly
  <2>2. CASE ~stopped
    <3>1. worker'.sess = worker.sess /\ worker.at = "start" /\ live' = live
      BY <1>0, <1>3, <2>2 DEF Start, Work, WorkerState, vars
    <3> QED BY <3>1 DEF HandOnly, StoredAt, KeyOf
  <2> QED BY <2>1, <2>2
<1>4. ASSUME NEW c \in Client, Found(c) PROVE HandOnly'
  <2>1. worker'.sess = StoredAt(<<Self, c>>) /\ live' = live
    BY <1>0, <1>4 DEF Found, WorkerState, vars
  <2> QED BY <2>1 DEF KeyUnique, HandOnly, StoredAt, KeyOf
<1>5. CASE \/ Exit \/ Receive \/ WorkerSettle
           \/ \E c \in Client : Packet(c) \/ NotCreated(c)
           \/ \E s \in Session : SendOk(s) \/ SendFails(s)
  <2>1. worker'.at \in {"packet", "look", "done", "settle"}
    BY <1>0, <1>5 DEF Exit, Receive, WorkerSettle, Packet, NotCreated, SendOk,
                      SendFails, Work, NextPacket, WorkerState
  <2> QED BY <2>1 DEF HandOnly
<1> QED BY <1>1, <1>2, <1>3, <1>4, <1>5 DEF WorkerStep, WorkerForced

\* What the receive loop takes from the table on its way to a write is open, and
\* what it takes out after a failed one is what it had at hand.
LEMMA FailureStep ==
  ASSUME ProxyTypeOK, KeyUnique, SocketsFollowTable, HandOnly, [ProxyNext]_allVars
  PROVE  /\ worker.at = "look" /\ worker'.at = "send" => worker'.sess \cap closed = {}
         /\ worker.at \in {"start", "send"} /\ worker'.at = "settle" =>
              worker'.sess \subseteq worker.sess
<1>0. worker \in WorkerState
  BY DEF ProxyTypeOK, WorkerState
<1>1. ASSUME worker.at = "look", worker'.at = "send"
      PROVE  worker'.sess \cap closed = {}
  <2>1. PICK c \in Client : Found(c)
    <3>1. WorkerStep
      BY <1>1, OthersStoreNothing
    <3>2. ~ \E s \in Session : Create(s)
      BY <1>0, <1>1 DEF Create, WorkerState
    <3>3. ~ \E c \in Client : Packet(c) \/ NotCreated(c)
      BY <1>0, <1>1 DEF Packet, NotCreated, NextPacket, WorkerState
    <3> QED BY <1>1, <3>1, <3>2, <3>3
            DEF WorkerStep, WorkerForced, Exit, Receive, Putting, Start, SendOk,
                SendFails, WorkerSettle
  <2>2. worker'.sess \subseteq live
    BY <1>0, <2>1 DEF Found, StoredAt, WorkerState
  <2> QED BY <2>2 DEF SocketsFollowTable
<1>2. ASSUME worker.at \in {"start", "send"}, worker'.at = "settle"
      PROVE  worker'.sess \subseteq worker.sess
  <2>1. PICK s \in Session : Start(s) \/ SendFails(s)
    <3>1. WorkerStep
      BY <1>2, OthersStoreNothing
    <3>2. ~ \E s \in Session : SendOk(s)
      BY <1>0, <1>2 DEF SendOk, NextPacket, WorkerState
    <3> QED BY <1>2, <3>1, <3>2
            DEF WorkerStep, WorkerForced, Exit, Receive, Packet, Found, NotCreated,
                Create, Putting, WorkerSettle
  <2>2. s \in worker.sess /\ worker'.sess = StoredAt(KeyOf(s))
    BY <1>0, <1>2, <2>1 DEF Start, SendFails, Work, WorkerState
  <2> QED BY <1>2, <2>2 DEF HandOnly
<1> QED BY <1>1, <1>2

\* A session closed between forward's look-up and its write costs the backend
\* one error and the client one packet: no packet is given a session already
\* closed, and the removal that answers a failure never takes a successor.
THEOREM OwnFailureOnlyCorrect == ProxySpec => OwnFailureOnly
<1>1. ProxyInit => HandOnly
  BY DEF ProxyInit, HandOnly
<1>2. ProxyTypeOK /\ KeyUnique /\ ProxyInv /\ HandOnly /\ [ProxyNext]_allVars => HandOnly'
  BY HandWorker, HandStays, OthersStoreNothing DEF ProxyInv
<1>3. ProxySpec => []ProxyInv
  BY ProxyInductive, ProxyTypeCorrect, TableKept, PTL DEF ProxySpec
<1>4. ProxySpec => []HandOnly
  BY <1>1, <1>2, <1>3, ProxyTypeCorrect, TableKept, PTL DEF ProxySpec
<1>5. ProxyTypeOK /\ KeyUnique /\ SocketsFollowTable /\ HandOnly /\ [ProxyNext]_allVars
        => [/\ worker.at = "look" /\ worker'.at = "send" => worker'.sess \cap closed = {}
            /\ worker.at \in {"start", "send"} /\ worker'.at = "settle" =>
                 worker'.sess \subseteq worker.sess]_allVars
  BY FailureStep
<1> QED BY <1>4, <1>5, ProxyTypeCorrect, TableKept, PTL DEF ProxySpec, OwnFailureOnly
=============================================================================
