---------------------------- MODULE MCSupervisor ----------------------------
(* An instance of Supervisor: two listeners that trade addresses, two entries *)
(* one of which covers both clients, and five scenarios as budgets.           *)
EXTENDS Supervisor

CONSTANTS e1, e2, c1, c2, a1, a2

MCCovers == [e \in Entry |-> IF e = e1 THEN {c1} ELSE {c1, c2}]

Where(first, second) == [l \in Listener |-> IF l = 1 THEN first ELSE second]
MCConfigs ==
  {[bind |-> Where(a1, a2),     inline |-> {},   listed |-> TRUE,  watched |-> TRUE],
   [bind |-> Where(a2, a1),     inline |-> {e1}, listed |-> TRUE,  watched |-> TRUE],
   [bind |-> Where(a1, Closed), inline |-> {e2}, listed |-> FALSE, watched |-> FALSE]}

MCEdits == {{}, {e1}, {e2, Crooked}, {Unparsable}, Missing}

Scenario(edits, calls, reloads, deaths, probes) ==
  [edits |-> edits, calls |-> calls, reloads |-> reloads, deaths |-> deaths, probes |-> probes]
MCBudgets ==
  {Scenario(1, 2, 1, 0, 0), Scenario(1, 1, 1, 1, 0), Scenario(2, 0, 2, 0, 0),
   Scenario(1, 0, 1, 0, 1), Scenario(0, 1, 0, 2, 0)}
=============================================================================
