---------------------------- MODULE MCDriverTrip ----------------------------
(* Two shifts, four requests (two starts and their ends, or retries); no   *)
(* fixes: MCTelemetry has them.                                            *)
EXTENDS DriverTrip
=============================================================================
