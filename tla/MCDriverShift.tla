---------------------------- MODULE MCDriverShift ----------------------------
(* Two ids, two codes and three requests to sign in with; then two shifts, *)
(* four requests (two starts and their ends, or retries); no fixes, which  *)
(* MCTelemetry has.                                                        *)
EXTENDS DriverShift, TLC

IdPerms == Permutations(Id)
=============================================================================
