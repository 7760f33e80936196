---------------------------- MODULE SessionTable ----------------------------
(***************************************************************************)
(* The session table of internal/session/session.go: one Manager shared by *)
(* every listener goroutine, relay goroutine, the reaper, the reload path  *)
(* and the health callbacks.                                               *)
(*                                                                         *)
(* Granularity.  One critical section (a shard's Lock..Unlock) is one      *)
(* step, and so is one atomic operation outside it when another goroutine  *)
(* can act on the value in between; the counters that nothing in the table *)
(* reads (rejected, created, expired) change with the step next to them.   *)
(*                                                                         *)
(* A session is an identity that is handed to one Put in its life, so a    *)
(* Put call is named by its session and a Remove call by the session it    *)
(* took.  The sharded map is the set live of the sessions stored in it; a  *)
(* session's key is <<listener, client>>.                                  *)
(***************************************************************************)
EXTENDS Integers, FiniteSets

CONSTANTS Listener, Client, Backend,
          Session,     \* identities of the sessions ever created
          Closer,      \* goroutines that call closeWhere
          NShards,     \* shardCount
          FlowOf,      \* the listener, client and backend of each session
          Selectors,   \* what closeWhere's predicates match: sets of flows
          ShardOf,     \* shardFor: key -> shard
          Caps,        \* values max takes: 0 stands for every max <= 0
          InitialCaps  \* values NewManager is called with

Key  == Listener \X Client
Flow == Listener \X Client \X Backend

ASSUME ConstantsAssumption ==
  /\ NShards \in Nat \ {0}
  /\ ShardOf \in [Key -> 0 .. NShards - 1]
  /\ Caps \subseteq Nat
  /\ InitialCaps \subseteq Caps

ASSUME FlowsAssumption ==
  /\ FlowOf \in [Session -> Flow]
  /\ Selectors \subseteq SUBSET Flow

ASSUME FiniteSessions == IsFiniteSet(Session)

VARIABLES
  put,      \* progress of the Put call of each session
  lim,      \* the cap that Put call read
  live,     \* the sessions in the map
  removing, \* unlinked by a Remove that has not settled its counters yet
  closed,   \* sessions whose upstream socket is closed
  idle,     \* stored sessions not touched for their Timeout
  sel,      \* per closer: the flows its predicate matches
  at,       \* per closer: the next shard; NShards once the walk is over;
            \* Resting between calls
  owed,     \* per closer: what it unlinked and has not subtracted from count
  sweepAt,  \* the next shard of the reaper
  count, rejected, created, expired, bcount, max,
  caps,     \* history: every cap in force so far
  before    \* history: per closer, the matches stored when its call began

putVars    == <<put, lim>>
closerVars == <<sel, at, owed, before>>
capVars    == <<max, caps>>
vars == <<putVars, live, removing, closed, idle, closerVars, sweepAt,
          count, rejected, created, expired, bcount, capVars>>

PutStates == {"new", "reserving", "locking", "over", "dup", "stored",
              "stored_true", "refused"}

Resting == NShards + 1

KeyOf(s)   == <<FlowOf[s][1], FlowOf[s][2]>>
Route(s)   == <<FlowOf[s][1], FlowOf[s][3]>>
ShardAt(s) == ShardOf[KeyOf(s)]

\* Mutant of WithinCap: the comparison is off by one.
WithinCapLate(n, cap) == cap = 0 \/ n <= cap + 1

\* Mutant of WithinCap: the last slot is never given.
WithinCapEarly(n, cap) == cap = 0 \/ n < cap

\* A Put takes a slot when the cap it read is unlimited or not yet reached.
WithinCap(n, cap) == cap = 0 \/ n <= cap

Taken(s) == \E r \in live : KeyOf(r) = KeyOf(s)

\* Mutant of Deducted: one session per critical section.
DeductedOnce(S) ==
  [r \in Listener \X Backend |->
     bcount[r] - (IF \E s \in S : Route(s) = r THEN 1 ELSE 0)]

\* The routes' counters after the sessions of S are taken off them.
Deducted(S) ==
  [r \in Listener \X Backend |-> bcount[r] - Cardinality({s \in S : Route(s) = r})]

Init ==
  /\ put = [s \in Session |-> "new"]
  /\ lim = [s \in Session |-> 0]
  /\ live = {} /\ removing = {} /\ closed = {} /\ idle = {}
  /\ sel = [c \in Closer |-> {}]
  /\ at = [c \in Closer |-> Resting]
  /\ owed = [c \in Closer |-> {}]
  /\ before = [c \in Closer |-> {}]
  /\ sweepAt = 0
  /\ count = 0 /\ rejected = 0 /\ created = 0 /\ expired = 0
  /\ bcount = [r \in Listener \X Backend |-> 0]
  /\ max \in InitialCaps
  /\ caps = {max}

-----------------------------------------------------------------------------
(* Put *)

\* NewSession, and Put up to its read of the cap.
PutLoad(s) ==
  /\ put[s] = "new"
  /\ put' = [put EXCEPT ![s] = "reserving"]
  /\ lim' = [lim EXCEPT ![s] = max]
  /\ UNCHANGED <<live, removing, closed, idle, closerVars, sweepAt,
                 count, rejected, created, expired, bcount, capVars>>

\* count.Add(1), compared with the cap read before.
PutReserve(s) ==
  /\ put[s] = "reserving"
  /\ count' = count + 1
  /\ put' = [put EXCEPT ![s] = IF WithinCap(count', lim[s])
                                THEN "locking" ELSE "over"]
  /\ lim' = [lim EXCEPT ![s] = 0]
  /\ UNCHANGED <<live, removing, closed, idle, closerVars,
                 sweepAt, rejected, created, expired, bcount, capVars>>

\* Over the cap: the reservation is rolled back.
PutReject(s) ==
  /\ put[s] = "over"
  /\ put' = [put EXCEPT ![s] = "refused"]
  /\ count' = count - 1
  /\ rejected' = rejected + 1
  /\ UNCHANGED <<lim, live, removing, closed, idle, closerVars,
                 sweepAt, created, expired, bcount, capVars>>

\* The critical section of Put.
PutInsert(s) ==
  /\ put[s] = "locking"
  /\ IF Taken(s)
       THEN /\ put' = [put EXCEPT ![s] = "dup"]
            /\ live' = live
       ELSE /\ put' = [put EXCEPT ![s] = "stored"]
            /\ live' = live \cup {s}
  /\ UNCHANGED <<lim, removing, closed, idle, closerVars, sweepAt,
                 count, rejected, created, expired, bcount, capVars>>

\* Mutant of PutDuplicate: the duplicate keeps its reservation.
PutDuplicateLeaky(s) ==
  /\ put[s] = "dup"
  /\ put' = [put EXCEPT ![s] = "refused"]
  /\ UNCHANGED <<lim, live, removing, closed, idle, closerVars,
                 sweepAt, count, rejected, created, expired, bcount, capVars>>

\* The key was taken: the reservation is rolled back, without counting a
\* rejection.
PutDuplicate(s) ==
  /\ put[s] = "dup"
  /\ put' = [put EXCEPT ![s] = "refused"]
  /\ count' = count - 1
  /\ UNCHANGED <<lim, live, removing, closed, idle, closerVars,
                 sweepAt, rejected, created, expired, bcount, capVars>>

\* After the unlock: created and the route's counter, then return true.
PutAccount(s) ==
  /\ put[s] = "stored"
  /\ put' = [put EXCEPT ![s] = "stored_true"]
  /\ created' = created + 1
  /\ bcount' = [bcount EXCEPT ![Route(s)] = @ + 1]
  /\ UNCHANGED <<lim, live, removing, closed, idle, closerVars,
                 sweepAt, count, rejected, expired, capVars>>

\* The caller of a Put that returned false closes the session it made.
CloseRefused(s) ==
  /\ put[s] = "refused" /\ s \notin closed
  /\ closed' = closed \cup {s}
  /\ UNCHANGED <<putVars, live, removing, idle, closerVars, sweepAt,
                 count, rejected, created, expired, bcount, capVars>>

-----------------------------------------------------------------------------
(* Remove: by key, so it takes whatever session is stored under it *)

RemoveUnlink(k) ==
  \E s \in live :
    /\ KeyOf(s) = k
    /\ live' = live \ {s}
    /\ removing' = removing \cup {s}
    /\ idle' = idle \ {s}
    /\ UNCHANGED <<putVars, closed, closerVars, sweepAt,
                   count, rejected, created, expired, bcount, capVars>>

\* Mutant of RemoveSettle: the upstream socket is not closed.
RemoveSettleOpen(s) ==
  /\ s \in removing
  /\ removing' = removing \ {s}
  /\ count' = count - 1
  /\ expired' = expired + 1
  /\ bcount' = Deducted({s})
  /\ UNCHANGED <<putVars, live, closed, idle, closerVars, sweepAt,
                 rejected, created, capVars>>

RemoveSettle(s) ==
  /\ s \in removing
  /\ removing' = removing \ {s}
  /\ closed' = closed \cup {s}
  /\ count' = count - 1
  /\ expired' = expired + 1
  /\ bcount' = Deducted({s})
  /\ UNCHANGED <<putVars, live, idle, closerVars, sweepAt,
                 rejected, created, capVars>>

-----------------------------------------------------------------------------
(* closeWhere: shard by shard, the count settled once at the end *)

Matching(S, fs) == {s \in S : FlowOf[s] \in fs}

\* Mutant of FirstShard: the walk skips the first shard.
SecondShard == 1

FirstShard == 0

CloseBegin(c, fs) ==
  /\ at[c] = Resting
  /\ sel' = [sel EXCEPT ![c] = fs]
  /\ at' = [at EXCEPT ![c] = FirstShard]
  /\ before' = [before EXCEPT ![c] = Matching(live, fs)]
  /\ UNCHANGED <<putVars, live, removing, closed, idle, owed, sweepAt,
                 count, rejected, created, expired, bcount, capVars>>

CloseShard(c) ==
  LET hit == {s \in Matching(live, sel[c]) : ShardAt(s) = at[c]} IN
  /\ at[c] < NShards
  /\ at' = [at EXCEPT ![c] = @ + 1]
  /\ live' = live \ hit
  /\ closed' = closed \cup hit
  /\ expired' = expired + Cardinality(hit)
  /\ bcount' = Deducted(hit)
  /\ owed' = [owed EXCEPT ![c] = @ \cup hit]
  /\ idle' = idle \ hit
  /\ UNCHANGED <<putVars, removing, sel, before, sweepAt,
                 count, rejected, created, capVars>>

CloseSettle(c) ==
  /\ at[c] = NShards
  /\ count' = count - Cardinality(owed[c])
  /\ at' = [at EXCEPT ![c] = Resting]
  /\ owed' = [owed EXCEPT ![c] = {}]
  /\ sel' = [sel EXCEPT ![c] = {}]
  /\ before' = [before EXCEPT ![c] = {}]
  /\ UNCHANGED <<putVars, live, removing, closed, idle, sweepAt,
                 rejected, created, expired, bcount, capVars>>

-----------------------------------------------------------------------------
(* The reaper, time, and the live reload of the cap *)

\* Mutant of SweepNext: the last shard is held, instead of wrapping.
SweepHolds == IF sweepAt + 1 < NShards THEN sweepAt + 1 ELSE sweepAt

SweepNext == (sweepAt + 1) % NShards

\* One shard of sweep.  Start gives each tick the next shards in turn: the pause
\* between two ticks changes nothing, so the reaper is its walk over the shards.
Sweep ==
  LET hit == {s \in live \cap idle : ShardAt(s) = sweepAt} IN
  /\ sweepAt' = SweepNext
  /\ live' = live \ hit
  /\ closed' = closed \cup hit
  /\ count' = count - Cardinality(hit)
  /\ expired' = expired + Cardinality(hit)
  /\ bcount' = Deducted(hit)
  /\ idle' = idle \ hit
  /\ UNCHANGED <<putVars, removing, closerVars,
                 rejected, created, capVars>>

\* The session has not been touched for its Timeout.
GoIdle(s) ==
  /\ s \in live \ idle
  /\ idle' = idle \cup {s}
  /\ UNCHANGED <<putVars, live, removing, closed, closerVars, sweepAt,
                 count, rejected, created, expired, bcount, capVars>>

\* Traffic on the session.
Touch(s) ==
  /\ s \in idle
  /\ idle' = idle \ {s}
  /\ UNCHANGED <<putVars, live, removing, closed, closerVars, sweepAt,
                 count, rejected, created, expired, bcount, capVars>>

SetMax(m) ==
  /\ m # max
  /\ max' = m
  /\ caps' = caps \cup {m}
  /\ UNCHANGED <<putVars, live, removing, closed, idle, closerVars, sweepAt,
                 count, rejected, created, expired, bcount>>

-----------------------------------------------------------------------------
PutStep(s) == PutLoad(s) \/ PutReserve(s) \/ PutReject(s) \/ PutInsert(s)
                \/ PutDuplicate(s) \/ PutAccount(s) \/ CloseRefused(s)
CloseStep(c) == CloseShard(c) \/ CloseSettle(c)

Next ==
  \/ \E s \in Session : PutStep(s)
  \/ \E k \in Key : RemoveUnlink(k)
  \/ \E s \in Session : RemoveSettle(s)
  \/ \E c \in Closer, fs \in Selectors : CloseBegin(c, fs)
  \/ \E c \in Closer : CloseStep(c)
  \/ Sweep
  \/ \E s \in Session : GoIdle(s) \/ Touch(s)
  \/ \E m \in Caps : SetMax(m)

Spec == Init /\ [][Next]_vars

\* The ticker keeps firing and the reaper goroutine keeps running.
FairSpec == Spec /\ WF_vars(Sweep)

-----------------------------------------------------------------------------
(* Properties *)

\* Every variable has its type.
TypeOK ==
  /\ put \in [Session -> PutStates]
  /\ lim \in [Session -> Caps \cup {0}]
  /\ live \in SUBSET Session /\ removing \in SUBSET Session
  /\ closed \in SUBSET Session /\ idle \in SUBSET Session
  /\ sel \in [Closer -> SUBSET Flow]
  /\ at \in [Closer -> 0..Resting]
  /\ owed \in [Closer -> SUBSET Session]
  /\ before \in [Closer -> SUBSET Session]
  /\ sweepAt \in 0 .. NShards - 1
  /\ count \in Int /\ rejected \in Nat /\ created \in Nat /\ expired \in Nat
  /\ bcount \in [Listener \X Backend -> Int]
  /\ max \in Caps /\ caps \in SUBSET Caps

Reserved     == {s \in Session : put[s] = "locking"}
RollingBack  == {s \in Session : put[s] \in {"over", "dup"}}
Unaccounted  == {s \in Session : put[s] = "stored"}
OwedByCloser == {s \in Session : \E c \in Closer : s \in owed[c]}

\* Every session that may hold a slot.
Counted == live \cup Reserved \cup RollingBack \cup removing \cup OwedByCloser

\* One client address of a listener has at most one session in the table,
\* however the Puts for it interleave.
KeyUnique == \A r, s \in live : KeyOf(r) = KeyOf(s) => r = s

\* "The cap can never be exceeded even under concurrent Puts" (Put's comment):
\* stored sessions and slots reserved for one never outnumber every cap that
\* has been in force, through any interleaving of Puts, removals and SetMax.
CapNeverExceeded ==
  0 \notin caps => \E m \in caps : Cardinality(live \cup Reserved) <= m

\* count is the sessions stored, the slots held by Puts under way, and what was
\* unlinked and is not settled yet: no reservation is lost or returned twice.
CountExact == count = Cardinality(Counted)

\* Put admits by the cap it read, not by one that was in force before: after
\* SetMax lowered the cap below what is stored, no Put that reads the new one
\* gets a slot until the table is below it.  And one that is turned away met a
\* full house: as many sessions as its cap were stored, being stored, or being
\* taken out.
AdmissionExact ==
  [][\A s \in Session : put[s] = "reserving" /\ put'[s] # "reserving" =>
       IF put'[s] = "locking"
         THEN lim[s] = 0 \/ Cardinality(live \cup Reserved) < lim[s]
         ELSE lim[s] # 0 /\ Cardinality(Counted) >= lim[s]]_vars

\* created, expired and the per-backend counters that least_sessions reads
\* agree with the table up to the calls under way; with none under way they
\* are exact.
LedgerExact ==
  /\ created - expired
       = Cardinality(live \cup removing) - Cardinality(Unaccounted)
  /\ \A r \in Listener \X Backend :
       bcount[r] = Cardinality({s \in live \cup removing : Route(s) = r})
                     - Cardinality({s \in Unaccounted : Route(s) = r})

\* A stored session's socket is open, and one that left the table is closed
\* as soon as its remover is through with it: no socket leaks.
SocketsFollowTable ==
  /\ live \cap closed = {}
  /\ \A s \in Session : put[s] \in {"stored", "stored_true"} =>
       s \in live \cup removing \cup closed

\* A closeWhere call leaves behind none of the matching sessions stored when
\* it began: what is left of them lies in shards it has still to visit.
CloseWhereComplete ==
  \A c \in Closer : \A s \in before[c] \cap live : ShardAt(s) >= at[c]

\* A session that stays idle is reaped: the sweeps reach every shard.
IdleReaped ==
  \A s \in Session : (s \in live \cap idle) ~> (s \notin live \/ s \notin idle)

-----------------------------------------------------------------------------
(* What makes the properties above inductive *)

\* A session passes from the table to one remover and to no other.
Lifecycle ==
  /\ \A s \in live \cup removing \cup OwedByCloser :
       put[s] \in {"stored", "stored_true"}
  /\ live \cap removing = {}
  /\ \A c \in Closer : owed[c] \cap (live \cup removing) = {}
  /\ \A c, d \in Closer : c # d => owed[c] \cap owed[d] = {}
  /\ \A s \in closed : put[s] \in {"stored", "stored_true", "refused"}

\* The cap a Put compares with was in force.
LimKnown ==
  /\ max \in caps
  /\ \A s \in Session : put[s] = "reserving" => lim[s] \in caps

\* What a closeWhere call must unlink was stored, and its predicate matches it.
BeforeStored ==
  \A c \in Closer : \A s \in before[c] :
    /\ put[s] \in {"stored", "stored_true"}
    /\ at[c] < NShards => FlowOf[s] \in sel[c]
=============================================================================
