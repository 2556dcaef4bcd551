---------------------------- MODULE MCStopEvents ----------------------------
(* Three stops, the middle one unknown to Postgres: passengers leave on    *)
(* the way from the first to the second, or board on the way to the third, *)
(* which the bus approaches off its route.  Two handlers that can overlap  *)
(* and four messages: a baseline, a row whose answer is lost, its          *)
(* repetition and a final row, or an episode, a position between and the   *)
(* next episode.                                                           *)
EXTENDS StopEvents, TLC

Handlers == Permutations(Task)

MCPositions == {[next |-> 1, off |-> FALSE, occ |-> 1], [next |-> 2, off |-> FALSE, occ |-> 0],
                [next |-> 3, off |-> TRUE, occ |-> 2], [next |-> 0, off |-> FALSE, occ |-> 1]}
=============================================================================
