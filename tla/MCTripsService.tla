-------------------------- MODULE MCTripsService --------------------------
(* Two requests at a time on the trips of one bus: enough for two starts,  *)
(* or a start and an end, to overlap.                                      *)
EXTENDS TripsService
============================================================================
