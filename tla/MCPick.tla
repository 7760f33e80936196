------------------------------- MODULE MCPick -------------------------------
(* Two addresses, the first of which the client's hash prefers. *)
EXTENDS Pick

CONSTANTS a, b, u

\* The order turned round, and a backend removed and added again.
MCPools == {<<a, b>>, <<b, a>>, <<b>>}

MCHash == [x \in Client \X Address |-> IF x[2] = b THEN 1 ELSE 2]
=============================================================================
