---------------------------- MODULE MCTelemetry ----------------------------
(* Two trips one after the other, two fixes, a buffer of one row, two      *)
(* flushes that can overlap.                                               *)
EXTENDS Telemetry
=============================================================================
