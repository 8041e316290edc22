----------------------------- MODULE MCSensor -----------------------------
(* Sensor and BatterySensor with the turn and the sleep of                 *)
(* core_1_executor.cpp and the watchdog of sensor.h in units of 500 ms.    *)
(* The battery's sample period is scaled down, to half of the cache time   *)
(* as in the code, and the 20 ms of charging are less than a tick.         *)
EXTENDS BatterySensor

(* What any sensor returns.                                                *)
AnyOutcome == Statuses

============================================================================
