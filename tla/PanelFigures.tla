---------------------------- MODULE PanelFigures ----------------------------
(* The figures the web panel derives from an answer of the admin API:        *)
(* src/web/src/lib/api.js and the computed values of OverviewPanel.vue and   *)
(* ListenerCard.vue. Times are whole seconds and rates whole packets: the    *)
(* panel's floating-point fractions are rounded down.                        *)
EXTENDS Integers, Sequences, FiniteSets, SequencesExt

CONSTANT Kilo \* what humanBytes divides by: 1024 in the code

ASSUME KiloAssumption == Kilo \in Nat /\ Kilo > 1

(* A status answer is a sequence of listeners                                *)
(*   [name, backends : address -> healthy?, history : sequence of samples];  *)
(* a sample is a time t and the counters read then, here packets in.         *)

Samples == [t : Int, in : Int]

ListenerOK(l) ==
  /\ \A a \in DOMAIN l.backends : l.backends[a] \in BOOLEAN
  /\ l.history \in Seq(Samples)

StatusOK(ls) == ls \in Seq(ToSet(ls)) /\ \A i \in DOMAIN ls : ListenerOK(ls[i])

-----------------------------------------------------------------------------
(* Rates from cumulative samples *)

Forward(a, b) == b.t > a.t

Rate(a, b, key) == (b[key] - a[key]) \div (b.t - a.t)

PerSecond(history, key) ==
  LET n == Len(history) IN
  IF n < 2 \/ ~Forward(history[n - 1], history[n]) THEN 0
  ELSE Rate(history[n - 1], history[n], key)

\* The loop of rateSeries over the ring: the rate of an interval joins the
\* curve unless the clock stood still or stepped back in it.
RateSeries(history, key) ==
  LET series[i \in 0..Len(history)] ==
        IF i < 2 THEN <<>>
        ELSE IF ~Forward(history[i - 1], history[i]) THEN series[i - 1]
        ELSE Append(series[i - 1], Rate(history[i - 1], history[i], key))
  IN series[Len(history)]

-----------------------------------------------------------------------------
(* Totals of the overview *)

Reports(l, a) == a \in DOMAIN l.backends /\ l.backends[a]

\* Mutant of MarkUp: the last listener that reports an address decides.
MarkUpLast(up, l) ==
  [a \in DOMAIN up \cup DOMAIN l.backends |->
     IF a \in DOMAIN l.backends THEN l.backends[a] ELSE up[a]]

\* One listener's turn of sumBackends' loop over the map up.
MarkUp(up, l) ==
  [a \in DOMAIN up \cup DOMAIN l.backends |->
     (a \in DOMAIN up /\ up[a]) \/ Reports(l, a)]

SumBackends(listeners) ==
  LET up == FoldLeft(MarkUp, <<>>, listeners) IN
  [healthy |-> Cardinality({a \in DOMAIN up : up[a]}),
   total   |-> Cardinality(DOMAIN up)]

Total(amounts) == FoldLeft(LAMBDA v, a : v + a, 0, amounts)

SumRate(listeners, key) ==
  Total([i \in DOMAIN listeners |-> PerSecond(listeners[i].history, key)])

\* The figures at the top of the page.
OverviewStats(listeners) ==
  LET backends == SumBackends(listeners) IN
  [up |-> backends.healthy, of |-> backends.total, inPps |-> SumRate(listeners, "in")]

\* The table of a listener's card.
CardRows(l) ==
  {[backend |-> a, health |-> IF l.backends[a] THEN "UP" ELSE "DOWN"] : a \in DOMAIN l.backends}

-----------------------------------------------------------------------------
(* Charts: the points of each curve and the number of places on the axis *)

AxisLength(history) == IF Len(history) > 0 THEN Len(history) - 1 ELSE 0

CardDrawing(l) ==
  [axis |-> AxisLength(l.history), curves |-> {<<l.name, RateSeries(l.history, "in")>>}]

OverviewDrawing(listeners) ==
  [axis   |-> IF listeners = <<>> THEN 0 ELSE AxisLength(listeners[1].history),
   curves |-> {<<l.name, RateSeries(l.history, "in")>> : l \in ToSet(listeners)}]

-----------------------------------------------------------------------------
(* Byte counts and ages as text *)

Units == <<"KiB", "MiB", "GiB", "TiB">>

\* How often humanBytes divides: its loop ends below Kilo or at i = 3.
Divisions(v) == Cardinality({k \in 1..Len(Units) : v >= Kilo ^ k})

\* The loop starts at i = -1, so that i = Divisions(v) - 1 when it ends, and
\* units[i + 1] counts from zero. Past the last unit it is undefined.
HumanBytes(v) ==
  LET d == Divisions(v) IN
  [amount |-> v \div Kilo ^ d,
   unit   |-> IF d = 0 THEN "B"
              ELSE IF d + 1 \in DOMAIN Units THEN Units[d + 1] ELSE "undefined"]

\* The age ago shows: in seconds, rounded to the nearest one and a half up, and
\* 0 when the browser's clock (in ms) is behind the server's (in ns).
AgeSeconds(now, seen) ==
  LET s == (1000000 * now - seen + 500000000) \div 1000000000
  IN IF s > 0 THEN s ELSE 0

\* The text ago writes for a row last seen at `seen`, which is 0 if it never
\* was: hours are followed by minutes, minutes by seconds.
Ago(now, seen) ==
  LET s == AgeSeconds(now, seen) IN
  IF seen = 0 THEN "-"
  ELSE IF s < 60 THEN [h |-> 0, m |-> 0, s |-> s]
  ELSE IF s < 3600 THEN [h |-> 0, m |-> s \div 60, s |-> s % 60]
  ELSE [h |-> s \div 3600, m |-> (s % 3600) \div 60, s |-> 0]
=============================================================================
