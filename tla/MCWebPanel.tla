----------------------------- MODULE MCWebPanel -----------------------------
(* Answers of /status that differ in what the panel derives from them: no    *)
(* listener, one without a sample, one that shares a backend with another,   *)
(* whose clock once stepped back.                                            *)
EXTENDS WebPanel

Sample(t, n) == [t |-> t, in |-> n]

First(h)  == [name |-> "l1", backends |-> [a |-> TRUE], history |-> h]
Second(h) == [name |-> "l2", backends |-> [a |-> FALSE, b |-> TRUE], history |-> h]

MCStatuses ==
  {<<>>,
   <<First(<<>>)>>,
   <<First(<<Sample(1, 0), Sample(2, 4), Sample(3, 6)>>),
     Second(<<Sample(2, 0), Sample(1, 2), Sample(3, 8)>>)>>}
=============================================================================
