--------------------------- MODULE MCSessionTable ---------------------------
(* One listener, two clients in the first of two shards, three sessions: two  *)
(* for the same client on different backends, one for the other client.       *)
EXTENDS SessionTable

CONSTANTS l1, c1, c2, b1, b2, s1, s2, s3

MCShardOf == [k \in Key |-> 0]

MCFlowOf == [s \in Session |-> CASE s = s1 -> <<l1, c1, b1>>
                                 [] s = s2 -> <<l1, c1, b2>>
                                 [] s = s3 -> <<l1, c2, b1>>]

\* CloseBackend(l1, b1) and CloseAll.
MCSelectors == {{f \in Flow : f[1] = l1 /\ f[3] = b1}, Flow}
=============================================================================
