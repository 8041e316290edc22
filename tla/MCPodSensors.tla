--------------------------- MODULE MCPodSensors ---------------------------
(* PodSensors complete, with a watchdog of two turns instead of thirty.    *)
EXTENDS PodSensors

============================================================================
