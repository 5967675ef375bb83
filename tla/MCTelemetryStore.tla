-------------------------- MODULE MCTelemetryStore --------------------------
(* A small store: two devices, one metric key, four rows, two of them of    *)
(* the same time, and a clock long enough for two retention sweeps.         *)
EXTENDS TelemetryStore

MCAt == <<1, 2, 3, 2>>
MCMetric == <<"load", "load", "load", "load">>
=============================================================================
