-------------------------- MODULE MCTripLifecycle --------------------------
(* One bus; what two buses share is only the broker's connection.          *)
EXTENDS TripLifecycle, TLC

Perms == Permutations(Req) \cup Permutations(Task)
============================================================================
