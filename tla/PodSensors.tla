---------------------------- MODULE PodSensors ----------------------------
(***************************************************************************)
(* The two sensors of the sensor pod and their drivers, each on an I2C     *)
(* interface of its own: the SCD30 (sensors/sensor_types/scd30_sensor.cpp) *)
(* and the Stemma soil sensor (stemma_soil_sensor.cpp), under core 1's     *)
(* loop and the watchdog of Sensor::update.  Any transfer may fail, until  *)
(* the connection to the sensor is reliable, which it need never be.       *)
(*                                                                         *)
(* The devices are external.  Of the SCD30,                                *)
(* docs/SCD30_Interface_Description.pdf says that it keeps measuring, or   *)
(* not, when the power is bounced (1.3.1), and that a measurement is ready *)
(* until it is read (1.3.4).  Time is counted in turns of the loop.        *)
(***************************************************************************)
EXTENDS Naturals, FiniteSetsExt

CONSTANT WatchdogTurns  \* UPDATE_WATCHDOG_TIMEOUT_MS, in turns

ASSUME PodAssumption == WatchdogTurns \in Nat

Sensors == {"scd30", "stemma"}

VARIABLES
  pc,           \* "await" is the wait in SCD30Sensor::doInitialization
  booting,      \* main has not yet called the loops
  reliable,     \* no transfer to the sensor will fail any more
  mActive,      \* of each sensor
  status,       \* of each sensor: what its doUpdate returned
  watch,        \* of each sensor: turns since its watchdog was restarted
  measuring,    \* the SCD30 is in continuous measurement
  ready,        \* the SCD30 has a measurement that was not read
  startFailed   \* history: the last attempt to start the SCD30 did

scd30Device == <<measuring, ready>>

podVars == <<pc, booting, reliable, mActive, status, watch, measuring, ready,
             startFailed>>

(* The SCD30 may have been left in either mode when it was last used.      *)
PodInit ==
  /\ pc = "await"
  /\ booting = TRUE
  /\ reliable \in [Sensors -> BOOLEAN]
  /\ mActive = [s \in Sensors |-> FALSE]
  /\ status = [s \in Sensors |-> "OK"]
  /\ watch = [s \in Sensors |-> WatchdogTurns + 1]
  /\ measuring \in BOOLEAN
  /\ ready = FALSE
  /\ startFailed = FALSE

(* Whether one transfer gets through, or one of a few attempts at it.      *)
Transfers(s) == IF reliable[s] THEN {TRUE} ELSE BOOLEAN

(* One more turn of sensor s for its watchdog.                             *)
Later(s) == Min({watch[s] + 1, WatchdogTurns + 1})

----------------------------------------------------------------------------
(* What doUpdate returned, and what Sensor::update does about the watchdog;*)
(* whether it resets the sensor is up to the caller.                       *)
Answer(s, answer) ==
  /\ status' = [status EXCEPT ![s] = answer]
  /\ watch' = [watch EXCEPT ![s] =
       CASE answer \in {"OK", "OK_NO_DATA"} -> 0
         [] answer = "MALFUNCTIONING" ->
              IF @ > WatchdogTurns THEN 0 ELSE Later(s)
         [] answer = "INACTIVE" -> Later(s)]

----------------------------------------------------------------------------
(* SCD30Sensor.                                                            *)

(* The mode of the SCD30 after one of the two commands that change it,     *)
(* which may get through or not.                                           *)
StartPeriodicMeasurement(before, started) == before \/ started

StopPeriodicMeasurement(before, stopped) == before /\ ~stopped

(* A mutant of FinishInitialization: the error of the transfer is taken    *)
(* for success.                                                            *)
FinishInitializationInverted ==
  /\ pc = "await" /\ ready
  /\ \E awaited, firmware, started \in Transfers("scd30") :
       /\ awaited
       /\ mActive' = [mActive EXCEPT !["scd30"] = ~firmware]
       /\ measuring' = StartPeriodicMeasurement(measuring, ~firmware /\ started)
       /\ startFailed' = IF ~firmware THEN ~started ELSE startFailed
  /\ pc' = IF booting THEN "stemma init" ELSE "stemma"
  /\ UNCHANGED <<booting, reliable, status, watch, ready>>

(* doInitialization after its wait for data: the firmware's version shows  *)
(* whether the sensor is there, and startReadings starts it, in vain       *)
(* perhaps.  That the interval could not be set makes no difference.       *)
FinishInitialization ==
  /\ pc = "await" /\ ready
  /\ \E awaited, firmware, started \in Transfers("scd30") :
       /\ awaited
       /\ mActive' = [mActive EXCEPT !["scd30"] = firmware]
       /\ measuring' = StartPeriodicMeasurement(measuring, firmware /\ started)
       /\ startFailed' = IF firmware THEN ~started ELSE startFailed
  /\ pc' = IF booting THEN "stemma init" ELSE "stemma"
  /\ UNCHANGED <<booting, reliable, status, watch, ready>>

(* doInitialization still waits: there is no measurement, or the transfer  *)
(* failed and is repeated.                                                 *)
KeepWaiting ==
  /\ pc = "await"
  /\ ~ready \/ FALSE \in Transfers("scd30")
  /\ UNCHANGED podVars

(* A mutant of Calibrate: the measurement is not started again.            *)
CalibrateStops ==
  /\ pc = "commands"
  /\ mActive["scd30"]
  /\ \E stopped \in Transfers("scd30") :
       measuring' = StopPeriodicMeasurement(measuring, stopped)
  /\ pc' = "scd30"
  /\ UNCHANGED <<booting, reliable, mActive, status, watch, ready, startFailed>>

(* setTemperatureOffset or setForcedRecalibrationValue: stop, set, set the *)
(* interval and start, whatever fails on the way.  Several commands in one *)
(* turn come to the same as one.                                           *)
Calibrate ==
  /\ pc = "commands"
  /\ mActive["scd30"]
  /\ \E stopped, started \in Transfers("scd30") :
       /\ measuring' = StartPeriodicMeasurement(
                         StopPeriodicMeasurement(measuring, stopped), started)
       /\ startFailed' = ~started
  /\ pc' = "scd30"
  /\ UNCHANGED <<booting, reliable, mActive, status, watch, ready>>

(* No command, or one with a bad parameter or for an inactive sensor.      *)
NoCalibration ==
  /\ pc = "commands"
  /\ pc' = "scd30"
  /\ UNCHANGED <<booting, reliable, mActive, status, watch, scd30Device,
                 startFailed>>

(* doUpdate of an inactive sensor, which Sensor::update initializes again. *)
SCD30Inactive ==
  /\ pc = "scd30"
  /\ ~mActive["scd30"]
  /\ Answer("scd30", "INACTIVE")
  /\ pc' = "await"
  /\ UNCHANGED <<booting, reliable, mActive, scd30Device, startFailed>>

SCD30HasData ==
  /\ pc = "scd30"
  /\ mActive["scd30"] /\ ready
  /\ Answer("scd30", "OK")
  /\ ready' = FALSE
  /\ pc' = "stemma"
  /\ UNCHANGED <<booting, reliable, mActive, measuring, startFailed>>

SCD30HasNoData ==
  /\ pc = "scd30"
  /\ mActive["scd30"] /\ ~ready
  /\ Answer("scd30", "OK_NO_DATA")
  /\ pc' = "stemma"
  /\ UNCHANGED <<booting, reliable, mActive, scd30Device, startFailed>>

(* A transfer of doUpdate failed, and a measurement may be lost with it.   *)
(* reset() stops the sensor, bounces its power and initializes it again,   *)
(* which begins with a wait for data.                                      *)
SCD30Malfunctions ==
  /\ pc = "scd30"
  /\ mActive["scd30"]
  /\ FALSE \in Transfers("scd30")
  /\ Answer("scd30", "MALFUNCTIONING")
  /\ IF watch["scd30"] > WatchdogTurns
       THEN /\ \E stopped \in Transfers("scd30") :
                 measuring' = StopPeriodicMeasurement(measuring, stopped)
            /\ ready' = FALSE
            /\ pc' = "await"
       ELSE /\ ready' \in {ready, FALSE}
            /\ pc' = "stemma"
            /\ UNCHANGED measuring
  /\ UNCHANGED <<booting, reliable, mActive, startFailed>>

SCD30Update ==
  SCD30Inactive \/ SCD30HasData \/ SCD30HasNoData \/ SCD30Malfunctions

----------------------------------------------------------------------------
(* StemmaSoilSensor.                                                       *)

(* A mutant of InitializeStemma: the comparison is the wrong way round.    *)
InitializeStemmaInverted ==
  \E found, foundAgain, version \in Transfers("stemma") :
    mActive' = [mActive EXCEPT !["stemma"] = found /\ foundAgain /\ ~version]

(* doInitialization: the device must acknowledge its address twice, with a *)
(* few attempts each, and its version be read.  The reset in between and   *)
(* the hardware's identity make no difference.                             *)
InitializeStemma ==
  \E found, foundAgain, version \in Transfers("stemma") :
    mActive' = [mActive EXCEPT !["stemma"] = found /\ foundAgain /\ version]

(* The end of main's initialization; the loops begin.                      *)
BootStemma ==
  /\ pc = "stemma init"
  /\ InitializeStemma
  /\ booting' = FALSE
  /\ pc' = "commands"
  /\ UNCHANGED <<reliable, status, watch, scd30Device, startFailed>>

(* doUpdate, with getCapacitiveValue's three attempts, the last of which   *)
(* to succeed counts.  A reset writes to the device and expects no answer. *)
StemmaUpdate ==
  /\ pc = "stemma"
  /\ IF mActive["stemma"]
       THEN /\ \E read \in Transfers("stemma") :
                 Answer("stemma", IF read THEN "OK" ELSE "MALFUNCTIONING")
            /\ UNCHANGED mActive
       ELSE Answer("stemma", "INACTIVE") /\ InitializeStemma
  /\ pc' = "commands"
  /\ UNCHANGED <<booting, reliable, scd30Device, startFailed>>

----------------------------------------------------------------------------
(* The SCD30 has taken a measurement.                                      *)
Measure ==
  /\ measuring
  /\ ready' = TRUE
  /\ UNCHANGED <<pc, booting, reliable, mActive, status, watch, measuring,
                 startFailed>>

(* From now on the connection to sensor s is good.                         *)
Settle(s) ==
  /\ reliable' = [reliable EXCEPT ![s] = TRUE]
  /\ UNCHANGED <<pc, booting, mActive, status, watch, scd30Device, startFailed>>

Core1 == \/ FinishInitialization \/ KeepWaiting
         \/ Calibrate \/ NoCalibration
         \/ SCD30Update \/ BootStemma \/ StemmaUpdate

PodNext == Core1 \/ Measure \/ \E s \in Sensors : Settle(s)

(* The loop runs for ever, and a sensor that measures has data every two   *)
(* seconds.                                                                *)
PodSpec == PodInit /\ [][PodNext]_podVars /\ WF_podVars(Core1) /\ WF_podVars(Measure)

----------------------------------------------------------------------------
PodTypeOK ==
  /\ pc \in {"await", "stemma init", "commands", "scd30", "stemma"}
  /\ {booting, measuring, ready, startFailed} \subseteq BOOLEAN
  /\ reliable \in [Sensors -> BOOLEAN]
  /\ mActive \in [Sensors -> BOOLEAN]
  /\ status \in [Sensors -> {"OK", "OK_NO_DATA", "MALFUNCTIONING", "INACTIVE"}]
  /\ watch \in [Sensors -> 0..WatchdogTurns + 1]

(* An active SCD30 is measuring, through failures, resets, calibrations    *)
(* and re-initializations, unless the last attempt to start it was lost    *)
(* (scd30_sensor.cpp:99-133, 218-224, whose results nobody looks at).      *)
ActiveIsMeasuring ==
  mActive["scd30"] /\ ~startFailed /\ pc # "await" => measuring

(* Once its connection is good, an SCD30 gives data again and again, but   *)
(* for two states that the driver does not leave: it waits for data from a *)
(* sensor that was stopped (scd30_sensor.cpp:48-50), or takes a stopped    *)
(* sensor for one that has no data yet (204), which restarts the watchdog  *)
(* each time (sensor.cpp:68).                                              *)
SCD30GivesData ==
  <>reliable["scd30"] =>
    \/ []<>(status["scd30"] = "OK")
    \/ <>[](pc = "await" /\ ~measuring)
    \/ <>[](mActive["scd30"] /\ ~measuring)

(* Once its own connection is good, the soil sensor gives data again and   *)
(* again, whatever the SCD30 does, but for a wait of the SCD30's           *)
(* initialization that does not end, since one loop serves both            *)
(* (stemma_soil_sensor.cpp:30-130, scd30_sensor.cpp:48-50).                *)
StemmaGivesData ==
  <>reliable["stemma"] =>
    []<>(status["stemma"] = "OK" /\ pc = "commands") \/ <>[](pc = "await")

============================================================================
