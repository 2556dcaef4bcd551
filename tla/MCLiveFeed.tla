---------------------------- MODULE MCLiveFeed ----------------------------
(* A step of time is as long as a threshold.  In LiveFeed.cfg a report is  *)
(* live in the step it was measured in, estimated in the next and stale    *)
(* after that; the three buses are one whose reports come in order, one    *)
(* like it whose route is not on the map, and one whose reports come late. *)
EXTENDS LiveFeed
============================================================================
