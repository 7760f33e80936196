--------------------------- MODULE BalancerOverlap ---------------------------
(* The balancer watched by an observer that knows which transitions of the   *)
(* backend, and which reseedings of its gauge, crossed. The observer changes *)
(* nothing: its variables follow from the steps of Balancer.                 *)
EXTENDS Balancer

VARIABLES
  behind,  \* history: the calls under way at a transition that another made
  crossed, \* history: whether the last transition or reseeding crossed another
  tangled  \* history: whether a transition has ever crossed another

overlapVars == <<behind, crossed, tangled>>
watchedVars == <<vars, overlapVars>>

\* The calls that have made a transition and have yet to tell it.
Tellers == {t \in Thread : \/ call[t].at \in {"err_unstamp", "use_unstamp", "fire"}
                           \/ call[t].at = "seed_load" /\ call[t].event # "None"}

\* Those, and the reload that has read the health it is to seed the gauge with.
Writers == Tellers \cup {t \in Thread : call[t].at = "seed"}

\* A compare-and-swap that succeeds, or a swap that finds a suspicion.
Transits(t) == t \in Tellers' \ Tellers

\* Such a transition, or the reading of a reload that made none.
Writes(t) == t \in Writers' \ Writers

\* A transition that came in the middle of a call crosses the one it makes.
Overtaken == \E t \in behind : Transits(t)

Watch ==
  /\ behind' = {u \in Thread : /\ call'[u].at # "idle"
                               /\ u \in behind \/ \E t \in Thread \ {u} : Transits(t)}
  /\ crossed' = IF \E t \in Thread : Writes(t) THEN Writers # {} \/ Overtaken ELSE crossed
  /\ tangled' = (tangled \/ \E t \in Thread : Transits(t) /\ (Tellers # {} \/ Overtaken))

WatchedSpec ==
  /\ Init /\ behind = {} /\ crossed = FALSE /\ tangled = FALSE
  /\ [][Next /\ Watch]_watchedVars

-----------------------------------------------------------------------------
(* Properties *)

\* "1 if the backend is healthy, 0 if down" (the gauge's help text), however
\* the calls and a reload interleave: with every transition told and no reload
\* about to seed the gauge, it shows the backend's state unless the last of
\* these crossed another.  One that does not puts the gauge right again.
GaugeUnlessCrossed == Writers = {} /\ ~crossed => gauge = healthy

\* Any reports that overlap implement the documented state machine, up to the
\* first transition that crosses another.
PromiseUnlessTangled == [][~tangled' => [Promise!Next]_Shown]_watchedVars
=============================================================================
