----------------------------- MODULE MCBalancer -----------------------------
(* BalancerOverlap on a small instance; the goroutines are interchangeable.  *)
EXTENDS BalancerOverlap, TLC

ThreadSymmetry == Permutations(Thread)
=============================================================================
