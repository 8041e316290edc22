------------------------------ MODULE Sensor ------------------------------
(***************************************************************************)
(* The data cache and the watchdog of one sensor: Sensor::update of        *)
(* sensors/sensor.cpp, called once per turn of core 1's loop with the time *)
(* at which the turn began.                                                *)
(*                                                                         *)
(* Time is counted in ticks.  The model keeps ages instead of time stamps, *)
(* so that it can run for ever: the expiry time of the data is the age     *)
(* CacheTime of the data, the watchdog timeout the age WatchdogTime of the *)
(* last restart of the watchdog.                                           *)
(***************************************************************************)
EXTENDS Naturals, FiniteSetsExt

CONSTANTS
  Outcomes,      \* the statuses that this kind of sensor's doUpdate returns
  CacheTime,     \* getDataCacheTimeout()
  WatchdogTime,  \* UPDATE_WATCHDOG_TIMEOUT_MS
  SleepTime,     \* the sleep at the end of a turn
  MaxTurn        \* bound on the duration of a turn without the sleep

Statuses == {"OK", "OK_NO_DATA", "NOT_CONNECTED", "INACTIVE", "MALFUNCTIONING"}

ASSUME SensorAssumption ==
  /\ Outcomes \subseteq Statuses
  /\ {CacheTime, WatchdogTime, SleepTime, MaxTurn} \subseteq Nat \ {0}

(* Ages stop here: beyond every time that the code compares with.          *)
AgeLimit == Max({CacheTime, WatchdogTime}) + SleepTime + 2 * MaxTurn + 1

Ages == 0..AgeLimit

Nil == AgeLimit   \* the age of nil_time, which is before any other time

VARIABLES
  pc,         \* "update" before, "sampled" after update(), "sleep"
  elapsed,    \* ticks since the turn, or the sleep, began
  mStatus,    \* mCachedData.mStatus
  hasData,    \* mCachedData.mDataLen # 0
  dataAge,    \* ticks since mDataExpiryTime was set
  watchAge,   \* ticks since mUpdateWatchdogTimeout was set
  wasReset,   \* the last update() called reset()
  silence,    \* history: ticks since the last answer, reset or power up
  sampleAge   \* history: ticks since the cached data was read

cache == <<mStatus, hasData, dataAge, watchAge, wasReset>>

vars == <<pc, elapsed, cache, silence, sampleAge>>

Init ==
  /\ pc = "update"
  /\ elapsed = 0
  /\ mStatus = "OK"
  /\ hasData = FALSE
  /\ dataAge = Nil
  /\ watchAge = Nil
  /\ wasReset = FALSE
  /\ silence = 0
  /\ sampleAge = 0

Older(age) == Min({age + 1, AgeLimit})

(* A tick of the clock, at any point of a turn or during the sleep.        *)
Tick ==
  /\ elapsed < IF pc = "sleep" THEN SleepTime ELSE MaxTurn
  /\ elapsed' = elapsed + 1
  /\ dataAge' = Older(dataAge)
  /\ watchAge' = Older(watchAge)
  /\ silence' = Older(silence)
  /\ sampleAge' = Older(sampleAge)
  /\ UNCHANGED <<pc, mStatus, hasData, wasReset>>

(* A mutant of Passed: the sign of the difference is taken the wrong way.  *)
PassedReversed(age, time) == age < time + elapsed

(* absolute_time_diff_us(timeout, currentTime) > 0 for a timeout set age   *)
(* ticks ago: currentTime is the time at which the turn began.             *)
Passed(age, time) == age > time + elapsed

----------------------------------------------------------------------------
(* update(), by the status that doUpdate returned.                         *)
Respond(status) ==
  /\ pc = "update"
  /\ status \in Outcomes
  /\ pc' = "sampled"
  /\ mStatus' = status
  /\ UNCHANGED elapsed

UpdateOK ==
  /\ Respond("OK")
  /\ hasData' = TRUE
  /\ dataAge' = 0
  /\ watchAge' = 0
  /\ wasReset' = FALSE
  /\ silence' = 0
  /\ sampleAge' = 0

(* Mutants of UpdateNoData: the data never expires; the watchdog is not    *)
(* restarted.                                                              *)
UpdateNoDataKeeps ==
  /\ Respond("OK_NO_DATA")
  /\ watchAge' = 0
  /\ wasReset' = FALSE
  /\ silence' = 0
  /\ UNCHANGED <<hasData, dataAge, sampleAge>>

UpdateNoDataSilent ==
  /\ Respond("OK_NO_DATA")
  /\ IF Passed(dataAge, CacheTime)
       THEN hasData' = FALSE /\ dataAge' = Nil
       ELSE UNCHANGED <<hasData, dataAge>>
  /\ wasReset' = FALSE
  /\ silence' = 0
  /\ UNCHANGED <<watchAge, sampleAge>>

UpdateNoData ==
  /\ Respond("OK_NO_DATA")
  /\ IF Passed(dataAge, CacheTime)
       THEN hasData' = FALSE /\ dataAge' = Nil
       ELSE UNCHANGED <<hasData, dataAge>>
  /\ watchAge' = 0
  /\ wasReset' = FALSE
  /\ silence' = 0
  /\ UNCHANGED sampleAge

(* A mutant of UpdateMalfunctioning: every malfunction restarts the        *)
(* watchdog.                                                               *)
UpdateMalfunctioningRestarts ==
  /\ Respond("MALFUNCTIONING")
  /\ wasReset' = Passed(watchAge, WatchdogTime)
  /\ watchAge' = 0
  /\ silence' = IF wasReset' THEN 0 ELSE silence
  /\ hasData' = FALSE
  /\ UNCHANGED <<dataAge, sampleAge>>

UpdateMalfunctioning ==
  /\ Respond("MALFUNCTIONING")
  /\ wasReset' = Passed(watchAge, WatchdogTime)
  /\ watchAge' = IF wasReset' THEN 0 ELSE watchAge
  /\ silence' = IF wasReset' THEN 0 ELSE silence
  /\ hasData' = FALSE
  /\ UNCHANGED <<dataAge, sampleAge>>

UpdateNotConnected ==
  /\ Respond("NOT_CONNECTED")
  /\ wasReset' = FALSE
  /\ UNCHANGED <<hasData, dataAge, watchAge, silence, sampleAge>>

(* initialize() leaves both timers alone.                                  *)
UpdateInactive ==
  /\ Respond("INACTIVE")
  /\ hasData' = FALSE
  /\ wasReset' = FALSE
  /\ UNCHANGED <<dataAge, watchAge, silence, sampleAge>>

(* The data is packed and sent to core 0, and core 1 sleeps.               *)
Send ==
  /\ pc = "sampled"
  /\ pc' = "sleep"
  /\ elapsed' = 0
  /\ UNCHANGED <<cache, silence, sampleAge>>

NextTurn ==
  /\ pc = "sleep"
  /\ elapsed = SleepTime
  /\ pc' = "update"
  /\ elapsed' = 0
  /\ UNCHANGED <<cache, silence, sampleAge>>

Update == \/ UpdateOK
          \/ UpdateNoData
          \/ UpdateMalfunctioning
          \/ UpdateNotConnected
          \/ UpdateInactive

Next == Tick \/ Update \/ Send \/ NextTurn

(* The clock advances and core 1's loop runs; nothing is assumed of what   *)
(* the sensor answers.                                                     *)
Spec == Init /\ [][Next]_vars /\ WF_vars(Next)

----------------------------------------------------------------------------
TypeOK ==
  /\ pc \in {"update", "sampled", "sleep"}
  /\ elapsed \in 0..Max({SleepTime, MaxTurn})
  /\ mStatus \in Statuses
  /\ hasData \in BOOLEAN
  /\ dataAge \in Ages
  /\ watchAge \in Ages
  /\ wasReset \in BOOLEAN
  /\ silence \in Ages
  /\ sampleAge \in Ages

(* What core 1 sends for a sensor that is connected was read from it at    *)
(* most CacheTime before the turn began, whatever it answered since and    *)
(* however often it was unplugged (sensor.cpp:46-91).  That of a sensor    *)
(* that is unplugged is kept without a limit (sensor.cpp:81).              *)
ConnectedDataIsFresh ==
  pc = "sampled" /\ hasData /\ mStatus # "NOT_CONNECTED" =>
    sampleAge <= CacheTime + elapsed

(* A reading is dropped only once it is older than CacheTime, or when the  *)
(* sensor reports an error: a sensor that has nothing new to say does not  *)
(* make its last reading vanish early (sensor.cpp:61-69).                  *)
DataIsKept ==
  [][hasData /\ ~hasData' =>
       \/ sampleAge > CacheTime
       \/ mStatus' \in {"MALFUNCTIONING", "INACTIVE"}]_vars

(* The watchdog resets a sensor only after it has given no valid answer    *)
(* for longer than WatchdogTime, counted from the last reset too; only the *)
(* first reset of a sensor that has never given one comes at once          *)
(* (sensor.cpp:71-79).                                                     *)
LaterResetsAfterSilence ==
  [][wasReset' /\ Update => silence > WatchdogTime \/ watchAge = Nil]_vars

(* A sensor that does nothing but fail is reset again and again.           *)
FailingSensorIsReset ==
  <>[](mStatus = "MALFUNCTIONING") => []<>wasReset

============================================================================
