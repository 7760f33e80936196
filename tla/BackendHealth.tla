---------------------------- MODULE BackendHealth ----------------------------
(* The health of one backend as the documentation promises it (README.md,    *)
(* "Health checks"; docs/superpowers/specs/2026-09-22-udpshunt-health-       *)
(* design.md, 4.2): errors raise a suspicion, any sign of life clears it, a  *)
(* confirmation while suspect takes the backend down, recovery brings it     *)
(* back free of suspicion.                                                   *)

VARIABLE state

States == {"Healthy", "Suspect", "Down"}

Init == state = "Healthy"

Accuse  == state = "Healthy" /\ state' = "Suspect"
Clear   == state = "Suspect" /\ state' = "Healthy"
Confirm == state = "Suspect" /\ state' = "Down"
Recover == state = "Down" /\ state' = "Healthy"

Next == Accuse \/ Clear \/ Confirm \/ Recover

Spec == Init /\ [][Next]_state
=============================================================================
