------------------------ MODULE MCSensorDataMessage ------------------------
(* SensorDataMessage on the platforms with real sensors, with one sample:  *)
(* two sweeps differ in the sensors that have data.                        *)
EXTENDS SensorDataMessage

Both == {SensorPod, HIB}

PodOnly == {SensorPod}

============================================================================
