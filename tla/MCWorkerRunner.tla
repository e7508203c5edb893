--------------------------- MODULE MCWorkerRunner ---------------------------
\* A small template: a PID asked once, one asked every tick of 2 s, and a GPS
\* fix of one field.
EXTENDS WorkerRunner

MCRequests == <<"fuelType", "speed">>
MCOneField == <<"longitude">>
MCSignals == {"fuelType", "speed", "longitude"}
MCInterval == [n \in MCSignals |-> IF n = "speed" THEN 1 ELSE 0]
=============================================================================
