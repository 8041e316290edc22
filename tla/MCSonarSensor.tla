--------------------------- MODULE MCSonarSensor ---------------------------
(* SonarSensor with a queue of four bytes instead of eight: with the byte  *)
(* that is stalled one more than a packet, as eight is one more than two.  *)
EXTENDS SonarSensor

============================================================================
