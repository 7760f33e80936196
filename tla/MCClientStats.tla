--------------------------- MODULE MCClientStats ---------------------------
(***************************************************************************)
(* An instance of ClientStats: packet 3 is a second one of client 1.       *)
(***************************************************************************)
EXTENDS ClientStats

MCClientOf == [p \in Line |-> IF p = 3 THEN 1 ELSE p]

\* Two states that differ only in files that are neither named nor open behave
\* alike.
MCView == <<plain, gz, job, [i \in InUse \ {None} |-> data[i]], statsVars, historyVars>>
=============================================================================
