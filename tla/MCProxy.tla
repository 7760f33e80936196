------------------------------ MODULE MCProxy ------------------------------
(* One listener, two clients in different shards, two backends; the runs choose among them. *)
EXTENDS Proxy

CONSTANTS app, health, l1, c1, c2, b1, b2, s1, s2, s3

MCShardOf == [k \in Key |-> IF k[2] = c1 THEN 0 ELSE NShards - 1]

MCFlowOf == [s \in Session |-> CASE s = s1 -> <<l1, c1, b1>>
                                 [] s = s2 -> <<l1, c1, b2>>
                                 [] s = s3 -> <<l1, c2, b1>>]

MCSelectors == {BackendFlows(b) : b \in Backend}
                 \cup {ClientFlows(c) : c \in Client} \cup {OwnFlows}
=============================================================================
