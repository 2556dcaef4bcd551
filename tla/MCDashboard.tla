---------------------------- MODULE MCDashboard ----------------------------
(* Two alerts and a board that shows one, so that a newer alert hides an   *)
(* older one; two routes, a trip and two stop events, two requests, so     *)
(* that an answer can meet the page that replaced the one it was for.      *)
EXTENDS Dashboard
=============================================================================
