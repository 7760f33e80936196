-------------------------------- MODULE Pick --------------------------------
(***************************************************************************)
(* The choice of a backend for a new session (internal/balancer/           *)
(* balancer.go: Pick, pick, Update, SetBalance).  The receive loop of a    *)
(* listener is the only caller of Pick, one call at a time; the supervisor *)
(* swaps the pool and the algorithm, reports and reads move the health of  *)
(* the backends, and sessions come and go, while it scans.                 *)
(*                                                                         *)
(* What usable answers is one moment of the backend's health (its steps    *)
(* are Balancer's); the flips it makes itself are among those of Flip.     *)
(***************************************************************************)
EXTENDS Integers, Sequences, FiniteSets, Functions

CONSTANTS Address, Client,
          Nobody,   \* no client
          Pools,    \* the backend lists of the configurations
          Balances, \* the algorithms they name
          Hash,     \* rendezvous
          Loads,    \* values of BackendCount
          Width,    \* the cursor counts modulo this (2^64)
          Window    \* history: the length of recent

ASSUME PickAssumption ==
  /\ Pools \subseteq Seq(Address)
  /\ \A p \in Pools : p # <<>> /\ IsInjective(p) \* config.Validate
  /\ Balances \subseteq {"round_robin", "least_sessions", "source_hash"}
  /\ Nobody \notin Client
  /\ Hash \in [Client \X Address -> Nat]
  /\ Loads \subseteq Int
  /\ Width \in Nat \ {0} /\ Window \in Nat \ {0}

VARIABLES
  pool,    \* the addresses of the pool, in the order of the configuration
  balance, \* Options.Balance
  up,      \* per address: what usable answers
  load,    \* per address: Options.Counts
  cursor,  \* Balancer.next
  pick,    \* the call under way: the next step (at), what it loaded (list,
           \* mode, turn), whether it asks for health (strict), the backends
           \* of the pass behind it (i), and the best so far: its place (best,
           \* 0 for none) and its score
  seen,    \* history: since the call began, whether health, pool and algorithm
           \* stayed the same and the loads stood still, who was up and who was
           \* down at some moment, and among which the pass chooses
  home,    \* history: per client, the last answer by hash, and among which
  recent   \* history: the last answers in rotation with nothing changing

pickConfigVars == <<pool, balance>>
pickVars == <<pool, balance, up, load, cursor, pick, seen, home, recent>>

NoPick == [at |-> "idle", client |-> Nobody, list |-> <<>>, mode |-> "", turn |-> 0,
           strict |-> TRUE, i |-> 0, best |-> 0, score |-> 0]
Unseen == [same |-> TRUE, still |-> TRUE, up |-> {}, down |-> {}, among |-> {}]

PickInit ==
  /\ pool \in Pools /\ balance \in Balances
  /\ up = [a \in Address |-> TRUE]
  /\ load \in [Address -> Loads]
  /\ cursor = 0 /\ pick = NoPick /\ seen = Unseen
  /\ home = [c \in Client |-> [to |-> {}, among |-> {}]]
  /\ recent = <<>>

-----------------------------------------------------------------------------
(* Pick *)

\* pool.Load
PickPool(c) ==
  /\ pick.at = "idle"
  /\ pick' = [NoPick EXCEPT !.at = "options", !.client = c, !.list = pool]
  /\ seen' = [Unseen EXCEPT !.up = {a \in Address : up[a]},
                            !.down = {a \in Address : ~up[a]}]
  /\ UNCHANGED <<pickConfigVars, up, load, cursor, home, recent>>

Advanced(n) == (n + 1) % Width

\* opts.Load and the one cursor advance.
PickTurn ==
  /\ pick.at = "options"
  /\ pick' = [pick EXCEPT !.at = "scan", !.mode = balance, !.turn = cursor]
  /\ cursor' = Advanced(cursor)
  /\ UNCHANGED <<pickConfigVars, up, load, seen, home, recent>>

Start == pick.turn % Len(pick.list)

\* The place of the j-th backend of the pass, and the one it looks at next.
PlaceOf(j) == IF pick.mode = "round_robin" THEN ((Start + j) % Len(pick.list)) + 1
                                           ELSE j + 1
Place   == PlaceOf(pick.i)
Looked  == pick.list[Place]
Looking == pick.at = "scan" /\ pick.i < Len(pick.list)

\* Mutant of Skipped: health is not asked for.
SkippedNever(a) == FALSE

Skipped(a) == pick.strict /\ ~up[a]

\* Mutant of Score: the hash also covers the place in the list.
ScoreByPlace(a) == IF pick.mode = "least_sessions" THEN load[a]
                   ELSE -(Hash[<<pick.client, a>>] + 2 * Place)

\* What pick minimises: the sessions, or the opposite of the hash.
Score(a) == IF pick.mode = "least_sessions" THEN load[a]
            ELSE -Hash[<<pick.client, a>>]

\* Mutant of Better: the last of equals wins.
BetterOrEqual(v, w) == v <= w

Better(v, w) == v < w

PickSkip ==
  /\ Looking /\ Skipped(Looked)
  /\ pick' = [pick EXCEPT !.i = @ + 1]
  /\ UNCHANGED <<pickConfigVars, up, load, cursor, seen, home, recent>>

\* round_robin: the first that is not skipped.
PickFirst ==
  /\ Looking /\ ~Skipped(Looked)
  /\ pick.mode = "round_robin"
  /\ pick' = [pick EXCEPT !.at = "done", !.best = Place]
  /\ seen' = [seen EXCEPT !.among = {Looked}]
  /\ UNCHANGED <<pickConfigVars, up, load, cursor, home, recent>>

\* least_sessions and source_hash go through the whole list.
PickCompare ==
  /\ Looking /\ ~Skipped(Looked)
  /\ pick.mode # "round_robin"
  /\ pick' = IF pick.best = 0 \/ Better(Score(Looked), pick.score)
               THEN [pick EXCEPT !.i = @ + 1, !.best = Place, !.score = Score(Looked)]
               ELSE [pick EXCEPT !.i = @ + 1]
  /\ seen' = [seen EXCEPT !.among = @ \cup {Looked}]
  /\ UNCHANGED <<pickConfigVars, up, load, cursor, home, recent>>

PassOver == pick.at = "scan" /\ pick.i = Len(pick.list)

PickBest ==
  /\ PassOver /\ pick.best # 0
  /\ pick' = [pick EXCEPT !.at = "done"]
  /\ UNCHANGED <<pickConfigVars, up, load, cursor, seen, home, recent>>

\* Mutant of PickFailOpen: the second pass takes a turn of its own.
PickFailOpenTurns ==
  /\ PassOver /\ pick.best = 0
  /\ pick' = [pick EXCEPT !.strict = FALSE, !.i = 0, !.turn = cursor]
  /\ cursor' = Advanced(cursor)
  /\ UNCHANGED <<pickConfigVars, up, load, seen, home, recent>>

\* Nobody was usable: a second pass from the same start asks no more.
PickFailOpen ==
  /\ PassOver /\ pick.best = 0
  /\ pick' = [pick EXCEPT !.strict = FALSE, !.i = 0]
  /\ UNCHANGED <<pickConfigVars, up, load, cursor, seen, home, recent>>

Answer == pick.list[pick.best]

\* An observer's window of the rotation.
Lengthened(s, a) == Append(IF Len(s) < Window THEN s ELSE Tail(s), a)

\* The answer is returned.  When the cursor wraps the window starts anew: the
\* rotation jumps to the head of the pool there.
PickReturn ==
  /\ pick.at = "done"
  /\ pick' = NoPick /\ seen' = Unseen
  /\ home' = IF pick.mode = "source_hash"
               THEN [home EXCEPT ![pick.client] = [to |-> {Answer}, among |-> seen.among]]
               ELSE home
  /\ recent' = IF pick.mode # "round_robin" \/ ~seen.same THEN <<>>
               ELSE Lengthened(IF pick.turn = 0 THEN <<>> ELSE recent, Answer)
  /\ UNCHANGED <<pickConfigVars, up, load, cursor>>

-----------------------------------------------------------------------------
(* What goes on meanwhile *)

\* The observer's notes when health becomes u, in a call and out of it.
Noted(u) == IF pick.at = "idle" THEN seen
            ELSE [seen EXCEPT !.same = FALSE, !.up = @ \cup {a \in Address : u[a]},
                              !.down = @ \cup {a \in Address : ~u[a]}]

\* A backend goes down or recovers: Balancer's transitions.
Flip(a) ==
  /\ up' = [up EXCEPT ![a] = ~@]
  /\ seen' = Noted(up')
  /\ recent' = <<>>
  /\ UNCHANGED <<pickConfigVars, load, cursor, pick, home>>

\* Sessions come and go.
LoadChanges(a, n) ==
  /\ n # load[a]
  /\ load' = [load EXCEPT ![a] = n]
  /\ seen' = IF pick.at = "idle" THEN seen ELSE [seen EXCEPT !.still = FALSE]
  /\ UNCHANGED <<pickConfigVars, up, cursor, pick, home, recent>>

\* Backends that stay keep their health, and new ones, those that come back
\* among them, start healthy.
Update(p) ==
  /\ p # pool
  /\ pool' = p
  /\ up' = [a \in Address |-> IF a \in Range(p) \ Range(pool) THEN TRUE ELSE up[a]]
  /\ seen' = Noted(up')
  /\ recent' = <<>>
  /\ UNCHANGED <<balance, load, cursor, pick, home>>

SetBalance(m) ==
  /\ m # balance
  /\ balance' = m
  /\ seen' = Noted(up)
  /\ recent' = <<>>
  /\ UNCHANGED <<pool, up, load, cursor, pick, home>>

-----------------------------------------------------------------------------
PickStep ==
  \/ \E c \in Client : PickPool(c)
  \/ PickTurn \/ PickSkip \/ PickFirst \/ PickCompare
  \/ PickBest \/ PickFailOpen \/ PickReturn

PickNext ==
  \/ PickStep
  \/ \E a \in Address : Flip(a) \/ \E n \in Loads : LoadChanges(a, n)
  \/ \E p \in Pools : Update(p)
  \/ \E m \in Balances : SetBalance(m)

PickSpec == PickInit /\ [][PickNext]_pickVars

-----------------------------------------------------------------------------
(* Properties *)

PickState == [at : {"idle", "options", "scan", "done"}, client : Client \cup {Nobody},
              list : Pools \cup {<<>>}, mode : Balances \cup {""},
              turn : 0 .. Width - 1, strict : BOOLEAN, i : Nat, best : Nat, score : Int]

\* Every variable has its type.
PickTypeOK ==
  /\ pool \in Pools /\ balance \in Balances
  /\ up \in [Address -> BOOLEAN] /\ load \in [Address -> Loads]
  /\ cursor \in 0 .. Width - 1
  /\ pick \in PickState
  /\ seen \in [same : BOOLEAN, still : BOOLEAN, up : SUBSET Address,
               down : SUBSET Address, among : SUBSET Address]
  /\ home \in [Client -> [to : SUBSET Address, among : SUBSET Address]]
  /\ recent \in Seq(Address)

\* "It fails open when every backend is down" (Pick's comment), and only then:
\* whatever flips, joins or leaves during the call, the answer was usable at
\* some moment of it, or each backend of its pool was seen down.
AnswerUsable ==
  pick.at = "done" =>
    \/ Answer \in seen.up
    \/ Range(pick.list) \subseteq seen.down

Usable(list)     == {a \in Range(list) : up[a]}
Candidates(list) == IF Usable(list) = {} THEN Range(list) ELSE Usable(list)

\* "Fewest live sessions; ties keep the earliest backend in stable pool order",
\* "stable rendezvous hash" and "fails open via the same rendezvous hash over
\* all backends" (README, balance): when nothing changed during the call, the
\* answer is the first of the best of those it may choose among.
BestOfUsable ==
  pick.at = "done" /\ seen.same /\ seen.still /\ pick.mode # "round_robin" =>
    /\ Answer \in Candidates(pick.list)
    /\ \A k \in DOMAIN pick.list : pick.list[k] \in Candidates(pick.list) =>
         \/ Score(Answer) < Score(pick.list[k])
         \/ Score(Answer) = Score(pick.list[k]) /\ pick.best <= k

\* "Removing one backend only remaps the keys that preferred it" (rendezvous's
\* comment): a client is sent elsewhere than last time only when the backend
\* it had is not to choose from any more, or the one it gets was not then, or
\* the two hash alike; across reloads, failures, recoveries and fail-open.
MinimalDisruption ==
  pick.at = "done" /\ pick.mode = "source_hash" =>
    \A b \in home[pick.client].to :
      \/ Answer = b
      \/ b \notin seen.among
      \/ Answer \notin home[pick.client].among
      \/ Hash[<<pick.client, b>>] = Hash[<<pick.client, Answer>>]

\* Every usable backend is reached by as many consecutive picks as the pool is
\* long, and with none usable every backend is: rotation starves none, and
\* "an all-down pool" is not pinned "to a single backend" (Pick's comment).
RotationReaches ==
  \A k \in 1 .. (Len(recent) - Len(pool)) + 1 :
    Candidates(pool) \subseteq {recent[j] : j \in k .. k + (Len(pool) - 1)}

-----------------------------------------------------------------------------
(* What makes the properties inductive *)

Ranking == pick.mode # "round_robin"

\* Where the call stands.
PickStands ==
  /\ pick.at # "idle" => pick.client \in Client /\ pick.list \in Pools
  /\ pick.at = "options" => pick.strict /\ pick.i = 0 /\ pick.best = 0 /\ seen.among = {}
  /\ pick.at \in {"scan", "done"} =>
       /\ pick.mode \in Balances
       /\ pick.i <= Len(pick.list) /\ pick.best <= Len(pick.list)
       /\ cursor = Advanced(pick.turn)
  /\ pick.at = "scan" => (pick.best = 0 <=> seen.among = {})
  /\ pick.at = "scan" /\ ~Ranking => pick.best = 0 /\ (pick.strict \/ pick.i = 0)
  /\ pick.at = "done" => pick.best # 0 /\ (Ranking => pick.i = Len(pick.list))

\* What the observer has noted is what was.
Observed ==
  pick.at # "idle" =>
    /\ \A a \in Address : IF up[a] THEN a \in seen.up ELSE a \in seen.down
    /\ seen.same => /\ pick.list = pool
                    /\ \A a \in Address : IF up[a] THEN a \notin seen.down
                                                   ELSE a \notin seen.up

\* The first pass chooses among those it saw up, and saw down those it skips.
Passed ==
  pick.at \in {"scan", "done"} =>
    /\ IF pick.strict THEN seen.among \subseteq seen.up
                      ELSE Range(pick.list) \subseteq seen.down
    /\ pick.best # 0 => Answer \in seen.among
    /\ pick.at = "scan" \/ Ranking =>
         \A j \in 0 .. pick.i - 1 :
           \/ pick.list[PlaceOf(j)] \in seen.among
           \/ pick.strict /\ pick.list[PlaceOf(j)] \in seen.down
    /\ Ranking => \A a \in seen.among : \E k \in 1 .. pick.i : a = pick.list[k]

\* The best so far is the first of the best behind it.
Ranked ==
  pick.at \in {"scan", "done"} /\ Ranking /\ pick.best # 0 =>
    /\ pick.best <= pick.i
    /\ pick.mode = "source_hash" \/ seen.still =>
         /\ pick.score = Score(Answer)
         /\ \A k \in 1 .. pick.i : pick.list[k] \in seen.among =>
              \/ Score(Answer) < Score(pick.list[k])
              \/ Score(Answer) = Score(pick.list[k]) /\ pick.best <= k

\* Whoever is usable when its turn comes, or finds nobody usable, takes it.
TakesTurn ==
  pick.at = "done" /\ ~Ranking /\ seen.same
    /\ (up[pool[Start + 1]] \/ Usable(pool) = {}) => pick.best = Start + 1

\* The last answer by hash was the best of those it chose among.
HomeBest ==
  \A c \in Client : \A b \in home[c].to :
    b \in home[c].among /\ \A x \in home[c].among : Hash[<<c, x>>] <= Hash[<<c, b>>]

\* The turn of the answer to come, counted on when the cursor wraps.
NextTurn ==
  LET t == IF pick.at \in {"scan", "done"} THEN pick.turn ELSE cursor
  IN  IF t = 0 THEN Width ELSE t

\* The answers of the window had consecutive turns, and took them.
Rotates ==
  /\ Len(recent) <= NextTurn
  /\ \A k \in DOMAIN recent :
       LET x == (((NextTurn - Len(recent)) + (k - 1)) % Len(pool)) + 1
       IN  up[pool[x]] \/ Usable(pool) = {} => recent[k] = pool[x]

PickInv == /\ PickStands /\ Observed /\ Passed /\ Ranked
           /\ TakesTurn /\ HomeBest /\ Rotates
=============================================================================
