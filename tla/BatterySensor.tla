--------------------------- MODULE BatterySensor ---------------------------
(***************************************************************************)
(* The battery sensor of the HIB under Sensor::update                      *)
(* (sensors/sensor_types/battery_sensor.cpp): doUpdate switches on the     *)
(* circuit that charges a capacitor, reads the voltage in a later turn of  *)
(* the loop, switches the circuit off and rests.  In Sensor a driver may   *)
(* answer anything; here it answers what this one does, which is never an  *)
(* error, so that its reset() is never called.                             *)
(*                                                                         *)
(* A sensor of another kind has the state "none", so that one composition  *)
(* holds both.                                                             *)
(***************************************************************************)
EXTENDS Sensor

CONSTANTS
  SamplePeriod,  \* BATTERY_SAMPLE_PERIOD_MS, in ticks
  ChargePeriod   \* BATTERY_CHARGE_PERIOD_MS, in whole ticks

ASSUME BatteryAssumption ==
  /\ {SamplePeriod, ChargePeriod} \subseteq Nat
  /\ ChargePeriod <= SamplePeriod
  /\ {"OK", "OK_NO_DATA"} \subseteq Outcomes

VARIABLES
  mCurrentState,  \* "sleeping", "charging", or "none"
  period,         \* for how long mSensorTransitionTime was set,
  timer,          \* and the ticks since it was
  circuitOn,      \* mEnableSensePin is low
  charged         \* history: ticks for which it has been, or was last, on

(* charged stops here, beyond what ChargedInTime allows.                   *)
ChargeLimit == ChargePeriod + SleepTime + 2 * MaxTurn + 1

batteryVars == <<mCurrentState, period, timer, circuitOn, charged>>

allVars == <<vars, batteryVars>>

(* doInitialization, by core 0, some time before core 1's first turn.      *)
BatteryInit ==
  /\ Init
  /\ mCurrentState = "sleeping"
  /\ period = 0
  /\ timer \in {0, 1}
  /\ circuitOn = FALSE
  /\ charged = 0

OtherInit ==
  /\ Init
  /\ mCurrentState = "none"
  /\ period = 0 /\ timer = 0
  /\ circuitOn = FALSE
  /\ charged = 0

(* doUpdate compares with the present, and not with the start of the turn. *)
TransitionPassed == timer > period

BatteryTick ==
  /\ Tick
  /\ timer' = Min({timer + 1, SamplePeriod + 1})
  /\ charged' = IF circuitOn THEN Min({charged + 1, ChargeLimit}) ELSE charged
  /\ UNCHANGED <<mCurrentState, period, circuitOn>>

NoTransition ==
  /\ ~TransitionPassed
  /\ UpdateNoData
  /\ UNCHANGED batteryVars

(* A mutant of StartCharging: it sleeps between the two transitions too.   *)
StartChargingSleeps ==
  /\ mCurrentState = "sleeping"
  /\ TransitionPassed
  /\ UpdateNoData
  /\ mCurrentState' = "charging"
  /\ period' = SamplePeriod /\ timer' = 0
  /\ circuitOn' = TRUE
  /\ charged' = IF circuitOn THEN charged ELSE 0

(* The measurement circuit is enabled.                                     *)
StartCharging ==
  /\ mCurrentState = "sleeping"
  /\ TransitionPassed
  /\ UpdateNoData
  /\ mCurrentState' = "charging"
  /\ period' = ChargePeriod /\ timer' = 0
  /\ circuitOn' = TRUE
  /\ charged' = IF circuitOn THEN charged ELSE 0

(* A mutant of ReadVoltage: the circuit is left on.                        *)
ReadVoltageLeavesOn ==
  /\ mCurrentState = "charging"
  /\ TransitionPassed
  /\ UpdateOK
  /\ mCurrentState' = "sleeping"
  /\ period' = SamplePeriod /\ timer' = 0
  /\ UNCHANGED <<circuitOn, charged>>

(* The mean of a few readings becomes the data, and the circuit is         *)
(* disabled.                                                               *)
ReadVoltage ==
  /\ mCurrentState = "charging"
  /\ TransitionPassed
  /\ UpdateOK
  /\ mCurrentState' = "sleeping"
  /\ period' = SamplePeriod /\ timer' = 0
  /\ circuitOn' = FALSE
  /\ UNCHANGED charged

BatteryNext ==
  /\ mCurrentState # "none"
  /\ \/ BatteryTick
     \/ NoTransition \/ StartCharging \/ ReadVoltage
     \/ (Send \/ NextTurn) /\ UNCHANGED batteryVars

OtherNext ==
  /\ mCurrentState = "none"
  /\ Next
  /\ UNCHANGED batteryVars

(* A battery sensor, or any other.                                         *)
SensorsSpec ==
  /\ BatteryInit \/ OtherInit
  /\ [][BatteryNext \/ OtherNext]_allVars
  /\ WF_allVars(BatteryNext \/ OtherNext)

----------------------------------------------------------------------------
(* Once the battery was measured, its voltage is in every message: the     *)
(* next reading is there before the cache drops the last one, though the   *)
(* two periods, the turns in between and the cache's time out are set in   *)
(* three places (battery_sensor.cpp:14-15, battery_sensor.h:33,            *)
(* core_1_executor.cpp:57).                                                *)
VoltageIsKept == mCurrentState = "sleeping" => <>[]hasData

(* And it is in every message from the first reading on: no update drops   *)
(* it, whatever turns it comes at.                                         *)
VoltageIsNeverDropped ==
  [][mCurrentState # "none" /\ hasData => hasData']_allVars

(* What the two periods, the turns in which they end and the cache's time  *)
(* out have to do with each other for that.                                *)
TimesFit ==
  SamplePeriod + ChargePeriod + SleepTime + 2 * MaxTurn <= CacheTime

(* When the voltage is read, the capacitor has charged for longer than its *)
(* period, and the circuit, which drains the battery, was on for little    *)
(* more than a turn of the loop (battery_sensor.cpp:77-99).                *)
ChargedInTime ==
  [][ReadVoltage =>
       /\ circuitOn
       /\ charged > ChargePeriod
       /\ charged < ChargeLimit]_allVars

============================================================================
