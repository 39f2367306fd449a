------------------------------ MODULE MCJobQueue ------------------------------
(* Two concurrent callers; two deliveries of one issue event, and a poller  *)
(* call without delivery id or key.                                         *)
EXTENDS JobQueue, TLC

CONSTANTS d1, d2, k1, c1, c2

MCRequests ==
  {[delivery |-> d1, key |-> k1],
   [delivery |-> d2, key |-> k1],
   [delivery |-> NoDelivery, key |-> NoKey]}

QueueSymmetry == Permutations(Callers) \cup Permutations(Deliveries)
=============================================================================
