------------------------------- MODULE WebPanel -------------------------------
(* The web panel in the browser (src/web/src: App.vue and its components)    *)
(* and the admin API it polls. The panel fetches /status and, once it has an *)
(* answer, /clients, every two seconds each and without waiting for the      *)
(* fetch before: several fetches are under way, and they end in any order.   *)
EXTENDS PanelFigures, Functions

CONSTANTS
  None,         \* no status yet, no table yet, no fetch
  Statuses,     \* the listeners that answers of /status may tell of
  Key,          \* columns the table can be sorted by
  Sizes,        \* byte totals that a row of the table may show
  MaxFlight,    \* bound: fetches under way at once
  MaxClicks,    \* bound: clicks on a column header
  MaxChanges    \* bound: changes of the server, reachability included

Directions == {"asc", "desc"}
Slots      == 1..MaxFlight
Cards(ls)  == {ls[i].name : i \in DOMAIN ls}
Overview   == "overview"

Tables == [sort : Key, order : Directions, bytes : Sizes]

ASSUME PanelAssumption ==
  /\ None \notin Statuses /\ None \notin Tables
  /\ "requests" \in Key
  /\ MaxFlight \in Nat \ {0} /\ MaxClicks \in Nat /\ MaxChanges \in Nat
  /\ \A ls \in Statuses : StatusOK(ls) /\ Overview \notin Cards(ls)
  /\ \A ls \in Statuses : \A i, j \in DOMAIN ls : ls[i].name = ls[j].name => i = j

VARIABLES
  dev,      \* whether the page comes from Vite's development server
  serving,  \* what the server would answer to /status now
  up,       \* whether it can be reached
  status,   \* App.vue: the last status received
  error,    \* App.vue: whether the line "admin API unreachable" is shown
  table,    \* ClientsTable.vue: cs, the last table received
  sort,     \* ClientsTable.vue: the highlighted column
  order,    \* ClientsTable.vue: asc, as the parameter sent
  charts,   \* the live echarts instances and what each has drawn
  onResize, \* the components with a resize handler on the window
  flight,   \* the fetches under way
  clicks, changes

server == <<dev, serving, up, changes>>
view   == <<status, error, charts, onResize>>
client == <<table, sort, order, clicks>>
vars   == <<server, view, client, flight>>

-----------------------------------------------------------------------------
(* Fetches: a fetch waits for the server, then carries its answer or its     *)
(* failure until the browser resumes poll(). Its parameters are those of the *)
(* moment it was sent.                                                       *)

\* Mutant of Fetch: the interval keeps the parameters of the first poll.
FetchFirst(what) == [what |-> what, sort |-> "requests", order |-> "desc",
                     stage |-> "sent", answer |-> None]

Fetch(what) == [what |-> what, sort |-> sort, order |-> order,
                stage |-> "sent", answer |-> None]
StatusFetch == [Fetch("status") EXCEPT !.sort = "requests", !.order = "desc"]

\* A fetch that has ended well carries the answer of its route.
FetchOK(f) ==
  /\ f.what \in {"status", "clients"} /\ f.sort \in Key /\ f.order \in Directions
  /\ f.stage \in {"sent", "answered", "failed"}
  /\ IF f.stage # "answered" THEN f.answer = None
     ELSE IF f.what = "status" THEN f.answer \in Statuses
     ELSE f.answer \in Tables

FreeSlots == {s \in Slots : flight[s] = None}
NextSlot  == CHOOSE s \in FreeSlots : TRUE

-----------------------------------------------------------------------------
(* Charts follow the components that are mounted *)

\* Mutant of Gone: the component forgets its chart when it leaves the page.
GoneKept(ls) == {}

\* The listener cards that the answer takes off the page: dispose.
Gone(ls) == IF status = None THEN {} ELSE Cards(status) \ Cards(ls)

\* The components it puts on the page: onMounted draws the first time.
New(ls) == IF status = None THEN Cards(ls) \cup {Overview} ELSE Cards(ls) \ Cards(status)

\* The components that stay: their watch sees a new object and draws.
Redrawn(ls) == DOMAIN charts \cap (Cards(ls) \cup {Overview})

Drawing(c, ls) ==
  IF c = Overview THEN OverviewDrawing(ls)
  ELSE CardDrawing(ls[CHOOSE i \in DOMAIN ls : ls[i].name = c])

Show(ls) ==
  /\ status' = ls
  /\ charts' = [c \in (DOMAIN charts \ Gone(ls)) \cup New(ls) |->
                  IF c \in Redrawn(ls) \cup New(ls) THEN Drawing(c, ls) ELSE charts[c]]
  /\ onResize' = (onResize \ Gone(ls)) \cup New(ls)

-----------------------------------------------------------------------------
(* What the table's header claims, and the order the server sorted by *)

Header      == <<sort, order>>
RowOrder(t) == <<t.sort, t.order>>

-----------------------------------------------------------------------------
\* main.js mounts App: onMounted sends the first poll and starts the interval.
Init ==
  /\ dev \in BOOLEAN /\ serving \in Statuses /\ up \in BOOLEAN /\ changes = 0
  /\ status = None /\ error = FALSE
  /\ charts = <<>> /\ onResize = {}
  /\ table = None /\ sort = "requests" /\ order = "desc" /\ clicks = 0
  /\ flight = [s \in Slots |-> IF s = 1 THEN StatusFetch ELSE None]

\* The interval of App.vue.
StatusTimer ==
  /\ FreeSlots # {}
  /\ flight' = [flight EXCEPT ![NextSlot] = StatusFetch]
  /\ UNCHANGED <<server, view, client>>

\* The interval of ClientsTable.vue, mounted with the first status.
ClientsTimer ==
  /\ status # None /\ FreeSlots # {}
  /\ flight' = [flight EXCEPT ![NextSlot] = Fetch("clients")]
  /\ UNCHANGED <<server, view, client>>

\* The order in which a column is shown when it is chosen first.
FirstOrder(key) == IF key \in {"requests", "last_seen"} THEN "desc" ELSE "asc"

Turned == IF order = "asc" THEN "desc" ELSE "asc"

\* A click on a header sets the order and polls at once.
SetSort(key) ==
  /\ status # None /\ FreeSlots # {} /\ clicks < MaxClicks
  /\ sort' = key
  /\ order' = IF key = sort THEN Turned ELSE FirstOrder(key)
  /\ clicks' = clicks + 1
  /\ flight' = [flight EXCEPT ![NextSlot] =
                  [Fetch("clients") EXCEPT !.sort = sort', !.order = order']]
  /\ UNCHANGED <<server, view, table>>

-----------------------------------------------------------------------------
(* The server and the network *)

\* The routes that reach the admin API: the daemon serves the page and both,
\* the development server passes on /status only.
Routes == IF dev THEN {"status"} ELSE {"status", "clients"}

Answers(f) ==
  IF f.what = "status" THEN {serving}
  ELSE {[sort |-> f.sort, order |-> f.order, bytes |-> b] : b \in Sizes}

Answer(s) ==
  /\ flight[s] # None /\ flight[s].stage = "sent"
  /\ up /\ flight[s].what \in Routes
  /\ \E a \in Answers(flight[s]) :
       flight' = [flight EXCEPT ![s].stage = "answered", ![s].answer = a]
  /\ UNCHANGED <<server, view, client>>

Unreachable(s) == flight[s] # None /\ (~up \/ flight[s].what \notin Routes)

\* Refused, reset, answered with another code than 200 or not in JSON.
Fail(s) ==
  /\ Unreachable(s) /\ flight[s].stage # "failed"
  /\ flight' = [flight EXCEPT ![s].stage = "failed", ![s].answer = None]
  /\ UNCHANGED <<server, view, client>>

\* A reload, a stop or a start.
Change ==
  /\ changes < MaxChanges
  /\ changes' = changes + 1
  /\ \/ serving' \in Statuses \ {serving} /\ up' = up
     \/ up' = ~up /\ serving' = serving
  /\ UNCHANGED <<dev, view, client, flight>>

-----------------------------------------------------------------------------
(* poll() resumes when its fetch has ended *)

Ends(s, what, stage) ==
  /\ flight[s] # None
  /\ flight[s].what = what /\ flight[s].stage = stage

\* Mutant of StatusArrives: a success leaves the error line.
StatusArrivesQuietly(s) ==
  /\ Ends(s, "status", "answered")
  /\ Show(flight[s].answer)
  /\ flight' = [flight EXCEPT ![s] = IF status = None THEN Fetch("clients") ELSE None]
  /\ UNCHANGED <<error, server, client>>

\* The first status mounts ClientsTable, whose onMounted polls.
StatusArrives(s) ==
  /\ Ends(s, "status", "answered")
  /\ Show(flight[s].answer)
  /\ error' = FALSE
  /\ flight' = [flight EXCEPT ![s] = IF status = None THEN Fetch("clients") ELSE None]
  /\ UNCHANGED <<server, client>>

\* Mutant of StatusFails: as in ClientsTable, a failure is kept quiet.
StatusFailsQuietly(s) ==
  /\ Ends(s, "status", "failed")
  /\ flight' = [flight EXCEPT ![s] = None]
  /\ UNCHANGED <<view, server, client>>

StatusFails(s) ==
  /\ Ends(s, "status", "failed")
  /\ error' = TRUE
  /\ flight' = [flight EXCEPT ![s] = None]
  /\ UNCHANGED <<status, charts, onResize, server, client>>

ClientsArrive(s) ==
  /\ Ends(s, "clients", "answered")
  /\ table' = flight[s].answer
  /\ flight' = [flight EXCEPT ![s] = None]
  /\ UNCHANGED <<server, view, sort, order, clicks>>

\* The last table is kept.
ClientsFail(s) ==
  /\ Ends(s, "clients", "failed")
  /\ flight' = [flight EXCEPT ![s] = None]
  /\ UNCHANGED <<server, view, client>>

Resume(s) == StatusArrives(s) \/ StatusFails(s) \/ ClientsArrive(s) \/ ClientsFail(s)

Next ==
  \/ StatusTimer \/ ClientsTimer
  \/ \E key \in Key : SetSort(key)
  \/ \E s \in Slots : Answer(s) \/ Fail(s) \/ Resume(s)
  \/ Change

Spec == Init /\ [][Next]_vars

\* The intervals go on and get their turn on the connection, the server
\* answers or the fetch fails, and the browser resumes what has ended.
FairSpec ==
  /\ Spec
  /\ SF_vars(StatusTimer) /\ SF_vars(ClientsTimer)
  /\ \A s \in Slots : WF_vars(Answer(s) \/ Fail(s)) /\ WF_vars(Resume(s))

-----------------------------------------------------------------------------
(* Properties *)

\* Every variable has its type, and a fetch carries the answer of its route.
PanelTypeOK ==
  /\ dev \in BOOLEAN /\ serving \in Statuses /\ up \in BOOLEAN
  /\ status \in Statuses \cup {None} /\ error \in BOOLEAN
  /\ table \in Tables \cup {None} /\ sort \in Key /\ order \in Directions
  /\ clicks \in 0..MaxClicks /\ changes \in 0..MaxChanges
  /\ DOMAIN flight = Slots
  /\ \A s \in Slots : flight[s] # None => FetchOK(flight[s])

\* A component has a live chart and a resize handler exactly while it is on
\* the page, and the chart shows the listener's history of the status on the
\* page, however listeners come and go.
ChartsFollowStatus ==
  /\ onResize = DOMAIN charts
  /\ DOMAIN charts = IF status = None THEN {} ELSE Cards(status) \cup {Overview}
  /\ \A c \in DOMAIN charts : charts[c] = Drawing(c, status)

\* "Distinct backend addresses across listeners ... up when any listener
\* reports it healthy" (OverviewPanel.vue:31): the overview counts what the
\* listeners' cards show, and its rate is what their charts end with, where
\* the clock moved on.
OverviewAgrees ==
  status # None =>
    LET rows     == UNION {CardRows(l) : l \in ToSet(status)}
        upSome   == {r.backend : r \in {q \in rows : q.health = "UP"}}
        moved(l) == LET n == Len(l.history) IN n > 1 /\ Forward(l.history[n - 1], l.history[n])
        end(l)   == IF moved(l) THEN Last(RateSeries(l.history, "in")) ELSE 0
        ends     == [i \in DOMAIN status |-> end(status[i])]
    IN OverviewStats(status) =
         [up    |-> Cardinality(upSome),
          of    |-> Cardinality({r.backend : r \in rows}),
          inPps |-> Total(ends)]

\* The rows are sorted as the header says.
RowsFollowHeader == table # None /\ RowOrder(table) = Header

\* Whatever the order in which the answers arrive, once the server stays
\* reachable the rows come to be sorted as the header says, and stay so, on
\* the page the daemon serves.
SortSettles == ~dev /\ <>[]up => <>[]RowsFollowHeader

\* ... and the panel comes to show what the server runs, without the error.
PanelConverges == <>[]up => <>[](status = serving /\ ~error)

\* "The error line on <main> covers API loss" (ClientsTable.vue:58): when the
\* server is gone for good the panel says so, and goes on saying so.
LossIsTold == <>[]~up => <>[]error

\* "humanBytes formats a byte count (e.g. 12.3 MiB)" (render.go:110): what a
\* row shows is the count, to within one of the unit shown.
UnitValue(u) ==
  IF u = "B" THEN 1 ELSE Kilo ^ (CHOOSE k \in DOMAIN Units : Units[k] = u)

BytesReadTrue ==
  table # None =>
    LET text == HumanBytes(table.bytes) IN
    /\ text.unit \in ToSet(Units) \cup {"B"}
    /\ table.bytes \div UnitValue(text.unit) = text.amount
=============================================================================
