--------------------------- MODULE SensorProofs ---------------------------
(***************************************************************************)
(* Proofs about the cache and the watchdog of Sensor, for every kind of    *)
(* sensor and all of its times, and about the battery sensor, which is     *)
(* shown to be one of them.                                                *)
(***************************************************************************)
EXTENDS BatterySensor, TLAPS

LEMMA MinOfTwo ==
  ASSUME NEW a \in Nat, NEW b \in Nat
  PROVE  Min({a, b}) = IF a <= b THEN a ELSE b
BY DEF Min

LEMMA MaxOfTwo ==
  ASSUME NEW a \in Nat, NEW b \in Nat
  PROVE  Max({a, b}) = IF a >= b THEN a ELSE b
BY DEF Max

LEMMA Times ==
  /\ CacheTime \in Nat \ {0} /\ WatchdogTime \in Nat \ {0}
  /\ SleepTime \in Nat \ {0} /\ MaxTurn \in Nat \ {0}
  /\ AgeLimit \in Nat /\ AgeLimit > CacheTime /\ AgeLimit > WatchdogTime
  /\ Max({SleepTime, MaxTurn}) \in Nat
  /\ Max({SleepTime, MaxTurn}) >= SleepTime
  /\ Max({SleepTime, MaxTurn}) >= MaxTurn
  /\ Outcomes \subseteq Statuses
<1>1. /\ CacheTime \in Nat \ {0} /\ WatchdogTime \in Nat \ {0}
      /\ SleepTime \in Nat \ {0} /\ MaxTurn \in Nat \ {0}
      /\ Outcomes \subseteq Statuses
  BY SensorAssumption
<1>2. QED
  BY <1>1, MaxOfTwo DEF AgeLimit

(* What a tick does to an age.                                             *)
LEMMA OlderIsNext ==
  ASSUME NEW age \in Ages
  PROVE  /\ Older(age) \in Ages
         /\ Older(age) = IF age < AgeLimit THEN age + 1 ELSE AgeLimit
BY MinOfTwo, Times DEF Older, Ages

----------------------------------------------------------------------------
(* The inductive invariant of a sensor: a turn and a sleep are bounded,    *)
(* data that is there expires by its own age, the watchdog counts the      *)
(* silence once it was started, and what the properties say.               *)
InTurn == IF pc = "sleep" THEN elapsed <= SleepTime ELSE elapsed <= MaxTurn

AgesAgree ==
  /\ hasData => dataAge = sampleAge
  /\ watchAge = silence \/ watchAge = Nil

SensorInv == TypeOK /\ InTurn /\ AgesAgree /\ ConnectedDataIsFresh

LEMMA SensorInvInit == Init => SensorInv
<1> SUFFICES ASSUME Init PROVE SensorInv
  OBVIOUS
<1>1. 0 \in Ages /\ Nil \in Ages /\ 0 \in 0..Max({SleepTime, MaxTurn})
  BY Times DEF Ages, Nil
<1>2. TypeOK
  BY <1>1 DEF Init, TypeOK, Statuses
<1>3. InTurn /\ AgesAgree /\ ConnectedDataIsFresh
  BY Times DEF Init, InTurn, AgesAgree, ConnectedDataIsFresh
<1>4. QED
  BY <1>2, <1>3 DEF SensorInv

LEMMA TickKeepsInv ==
  ASSUME SensorInv, Tick
  PROVE  SensorInv'
<1>1. /\ elapsed' = elapsed + 1 /\ elapsed \in Nat
      /\ UNCHANGED <<pc, mStatus, hasData, wasReset>>
      /\ elapsed < IF pc = "sleep" THEN SleepTime ELSE MaxTurn
  BY DEF Tick, SensorInv, TypeOK
<1>2. /\ dataAge \in Ages /\ dataAge' = Older(dataAge)
      /\ watchAge \in Ages /\ watchAge' = Older(watchAge)
      /\ silence \in Ages /\ silence' = Older(silence)
      /\ sampleAge \in Ages /\ sampleAge' = Older(sampleAge)
  BY DEF Tick, SensorInv, TypeOK
<1>3. InTurn'
  BY <1>1, Times DEF InTurn
<1>4. TypeOK'
  <2>1. elapsed' \in 0..Max({SleepTime, MaxTurn})
    BY <1>1, Times
  <2>2. QED
    BY <1>1, <1>2, <2>1, OlderIsNext DEF SensorInv, TypeOK
<1>5. AgesAgree'
  <2>1. hasData' => dataAge' = sampleAge'
    BY <1>1, <1>2 DEF SensorInv, AgesAgree
  <2>2. Older(Nil) = Nil
    BY OlderIsNext, Times DEF Nil, Ages
  <2>3. QED
    BY <1>2, <2>1, <2>2 DEF SensorInv, AgesAgree
<1>6. ConnectedDataIsFresh'
  <2>1. sampleAge' <= sampleAge + 1 /\ sampleAge \in Nat
    BY <1>2, OlderIsNext, Times DEF Ages
  <2>2. QED
    BY <1>1, <1>2, <2>1, OlderIsNext, Times DEF SensorInv, ConnectedDataIsFresh, Ages
<1>7. QED
  BY <1>3, <1>4, <1>5, <1>6 DEF SensorInv

LEMMA SensorInvStep == SensorInv /\ [Next]_vars => SensorInv'
<1> SUFFICES ASSUME SensorInv, [Next]_vars PROVE SensorInv'
  OBVIOUS
<1> USE DEF SensorInv, InTurn, AgesAgree
<1>0. 0 \in Ages /\ Nil \in Ages /\ CacheTime + elapsed \in Nat
  BY Times DEF Ages, Nil, TypeOK
<1>1. CASE Tick
  BY <1>1, TickKeepsInv
<1>2. CASE Update
  <2>1. /\ pc = "update" /\ pc' = "sampled" /\ elapsed' = elapsed
        /\ mStatus' \in Statuses
    BY <1>2, Times
       DEF Update, UpdateOK, UpdateNoData, UpdateMalfunctioning,
           UpdateNotConnected, UpdateInactive, Respond
  <2>2. TypeOK'
    <3>1. hasData' \in BOOLEAN /\ wasReset' \in BOOLEAN
      <4>1. CASE UpdateMalfunctioning
        <5>1. hasData' = FALSE /\ wasReset' = Passed(watchAge, WatchdogTime)
          BY <4>1 DEF UpdateMalfunctioning
        <5>2. Passed(watchAge, WatchdogTime) \in BOOLEAN
          BY Times DEF Passed, TypeOK, Ages
        <5>3. QED
          BY <5>1, <5>2
      <4>2. CASE ~UpdateMalfunctioning
        BY <1>2, <4>2
           DEF Update, UpdateOK, UpdateNoData, UpdateNotConnected,
               UpdateInactive, TypeOK
      <4>3. QED
        BY <4>1, <4>2
    <3>2. {dataAge', watchAge', silence', sampleAge'} \subseteq Ages
      BY <1>0, <1>2
         DEF Update, UpdateOK, UpdateNoData, UpdateMalfunctioning,
             UpdateNotConnected, UpdateInactive, TypeOK
    <3>3. QED
      BY <2>1, <3>1, <3>2 DEF TypeOK
  <2>3. AgesAgree'
    BY <1>2
       DEF Update, UpdateOK, UpdateNoData, UpdateMalfunctioning,
           UpdateNotConnected, UpdateInactive
  <2>4. ConnectedDataIsFresh'
    <3>1. CASE UpdateOK
      BY <1>0, <2>1, <3>1 DEF UpdateOK, ConnectedDataIsFresh
    <3>2. CASE UpdateNoData
      <4>1. sampleAge' = sampleAge /\ (hasData' => hasData /\ ~Passed(dataAge, CacheTime))
        BY <3>2 DEF UpdateNoData
      <4>2. dataAge \in Nat /\ CacheTime + elapsed \in Nat
        BY <1>0 DEF TypeOK, Ages
      <4>3. QED
        BY <2>1, <4>1, <4>2 DEF ConnectedDataIsFresh, Passed
    <3>3. CASE UpdateMalfunctioning \/ UpdateNotConnected \/ UpdateInactive
      BY <3>3
         DEF UpdateMalfunctioning, UpdateNotConnected, UpdateInactive, Respond,
             ConnectedDataIsFresh
    <3>4. QED
      BY <1>2, <3>1, <3>2, <3>3 DEF Update
  <2>5. QED
    BY <2>1, <2>2, <2>3, <2>4
<1>3. CASE Send \/ NextTurn
  BY <1>3, Times DEF Send, NextTurn, cache, TypeOK, ConnectedDataIsFresh
<1>4. CASE UNCHANGED vars
  BY <1>4 DEF vars, cache, TypeOK, ConnectedDataIsFresh
<1>5. QED
  BY <1>1, <1>2, <1>3, <1>4 DEF Next

LEMMA SensorInvariance == Init /\ [][Next]_vars => []SensorInv
BY SensorInvInit, SensorInvStep, PTL

----------------------------------------------------------------------------
(* A battery sensor takes the steps of a sensor, and no others: that is    *)
(* what battery_sensor.cpp promises Sensor::update.  (That it is as fair   *)
(* is beyond the provers.)                                                 *)
THEOREM BatteryIsASensor == SensorsSpec => Init /\ [][Next]_vars
<1>1. BatteryInit \/ OtherInit => Init
  BY DEF BatteryInit, OtherInit
<1>2. [BatteryNext \/ OtherNext]_allVars => [Next]_vars
  <2> SUFFICES ASSUME [BatteryNext \/ OtherNext]_allVars PROVE [Next]_vars
    OBVIOUS
  <2>1. CASE BatteryNext
    BY <2>1
       DEF BatteryNext, BatteryTick, NoTransition, StartCharging, ReadVoltage,
           Next, Update
  <2>2. CASE OtherNext
    BY <2>2 DEF OtherNext
  <2>3. CASE UNCHANGED allVars
    BY <2>3 DEF allVars
  <2>4. QED
    BY <2>1, <2>2, <2>3
<1>3. QED
  BY <1>1, <1>2, PTL DEF SensorsSpec

(* What core 1 sends for a connected sensor was read at most CacheTime     *)
(* before the turn began, whatever the sensor answered since               *)
(* (sensor.cpp:46-91).                                                     *)
THEOREM DataIsFresh ==
  /\ Spec => []ConnectedDataIsFresh
  /\ SensorsSpec => []ConnectedDataIsFresh
<1>1. Init /\ [][Next]_vars => []ConnectedDataIsFresh
  <2>1. SensorInv => ConnectedDataIsFresh
    BY DEF SensorInv
  <2>2. QED
    BY <2>1, SensorInvariance, PTL
<1>2. QED
  BY <1>1, BatteryIsASensor, PTL DEF Spec

(* A reading is dropped only when it is older than CacheTime, or on an     *)
(* error (sensor.cpp:61-69).                                               *)
THEOREM NoEarlyDrop ==
  /\ Spec => DataIsKept
  /\ SensorsSpec => DataIsKept
<1>1. ASSUME SensorInv, [Next]_vars, hasData, ~hasData'
      PROVE  sampleAge > CacheTime \/ mStatus' \in {"MALFUNCTIONING", "INACTIVE"}
  <2>1. UpdateNoData \/ UpdateMalfunctioning \/ UpdateInactive
    BY <1>1
       DEF Next, Update, UpdateOK, UpdateNotConnected, Tick, Send, NextTurn,
           vars, cache
  <2>2. CASE UpdateNoData
    <3>1. Passed(dataAge, CacheTime) /\ dataAge = sampleAge
      BY <1>1, <2>2 DEF UpdateNoData, SensorInv, AgesAgree
    <3>2. dataAge \in Nat /\ elapsed \in Nat
      BY <1>1, Times DEF SensorInv, TypeOK, Ages
    <3>3. QED
      BY <3>1, <3>2, Times DEF Passed
  <2>3. CASE UpdateMalfunctioning \/ UpdateInactive
    BY <2>3 DEF UpdateMalfunctioning, UpdateInactive, Respond
  <2>4. QED
    BY <2>1, <2>2, <2>3
<1>2. Init /\ [][Next]_vars => DataIsKept
  BY <1>1, SensorInvariance, PTL DEF DataIsKept
<1>3. QED
  BY <1>2, BatteryIsASensor, PTL DEF Spec

(* The watchdog resets a sensor only after it has given no valid answer    *)
(* for longer than WatchdogTime, but for the first reset of one that has   *)
(* never given any (sensor.cpp:71-79).                                     *)
THEOREM NoEarlyReset ==
  /\ Spec => LaterResetsAfterSilence
  /\ SensorsSpec => LaterResetsAfterSilence
<1>1. ASSUME SensorInv, wasReset', Update
      PROVE  silence > WatchdogTime \/ watchAge = Nil
  <2>1. Passed(watchAge, WatchdogTime)
    BY <1>1
       DEF Update, UpdateOK, UpdateNoData, UpdateMalfunctioning,
           UpdateNotConnected, UpdateInactive
  <2>2. watchAge \in Nat /\ elapsed \in Nat
    BY <1>1, Times DEF SensorInv, TypeOK, Ages
  <2>3. watchAge > WatchdogTime
    BY <2>1, <2>2, Times DEF Passed
  <2>4. QED
    BY <1>1, <2>3 DEF SensorInv, AgesAgree
<1>2. Init /\ [][Next]_vars => LaterResetsAfterSilence
  BY <1>1, SensorInvariance, PTL DEF LaterResetsAfterSilence
<1>3. QED
  BY <1>2, BatteryIsASensor, PTL DEF Spec

----------------------------------------------------------------------------
(* The battery sensor's own invariant: the circuit is on just while it     *)
(* charges; the capacitor has then charged for as long as the timer has    *)
(* run, up to the period, and for a number of ticks that the stage of the  *)
(* turn bounds: charging begins in an update and is over in the next one   *)
(* that finds the period passed, so that no turn but the first ends with   *)
(* it passed.                                                              *)
Charging ==
  /\ circuitOn
  /\ period = ChargePeriod
  /\ timer <= ChargePeriod => charged = timer
  /\ timer > ChargePeriod => charged > ChargePeriod
  /\ pc = "sampled" => charged <= ChargePeriod + elapsed
  /\ pc = "sleep" => charged <= ChargePeriod + MaxTurn + elapsed
  /\ pc = "update" => charged <= ChargePeriod + MaxTurn + SleepTime + elapsed

BatteryInv ==
  /\ mCurrentState \in {"sleeping", "charging", "none"}
  /\ timer \in Nat /\ charged \in Nat
  /\ mCurrentState = "sleeping" => ~circuitOn
  /\ mCurrentState = "charging" => Charging

LEMMA BatteryTimes ==
  /\ SamplePeriod \in Nat /\ ChargePeriod \in Nat /\ ChargePeriod <= SamplePeriod
  /\ ChargeLimit \in Nat
  /\ ChargeLimit = ChargePeriod + SleepTime + MaxTurn + MaxTurn + 1
BY BatteryAssumption, Times DEF ChargeLimit

LEMMA BatteryTickKeepsInv ==
  ASSUME SensorInv, BatteryInv, BatteryTick
  PROVE  BatteryInv'
<1>1. /\ elapsed' = elapsed + 1 /\ elapsed \in Nat
      /\ elapsed < IF pc = "sleep" THEN SleepTime ELSE MaxTurn
      /\ UNCHANGED <<pc, mCurrentState, period, circuitOn>>
      /\ timer' = Min({timer + 1, SamplePeriod + 1})
      /\ charged' = IF circuitOn THEN Min({charged + 1, ChargeLimit}) ELSE charged
      /\ timer \in Nat /\ charged \in Nat
  BY DEF BatteryTick, Tick, SensorInv, TypeOK, BatteryInv
<1>2. /\ timer' = IF timer < SamplePeriod + 1 THEN timer + 1 ELSE SamplePeriod + 1
      /\ charged' = IF ~circuitOn THEN charged
                    ELSE IF charged < ChargeLimit THEN charged + 1 ELSE ChargeLimit
  BY <1>1, MinOfTwo, BatteryTimes
<1>3. timer' \in Nat /\ charged' \in Nat
  BY <1>1, <1>2, BatteryTimes
<1>4. ASSUME Charging, circuitOn
      PROVE  Charging'
  <2>1. timer' <= ChargePeriod => charged' = timer'
    BY <1>1, <1>2, <1>4, BatteryTimes, Times DEF Charging
  <2>2. timer' > ChargePeriod => charged' > ChargePeriod
    BY <1>1, <1>2, <1>4, BatteryTimes, Times DEF Charging
  <2>3. charged' <= charged + 1
    BY <1>1, <1>2, <1>4, BatteryTimes
  <2>4. /\ pc = "sampled" => charged' <= ChargePeriod + elapsed'
        /\ pc = "sleep" => charged' <= ChargePeriod + MaxTurn + elapsed'
        /\ pc = "update" => charged' <= ChargePeriod + MaxTurn + SleepTime + elapsed'
    BY <1>1, <1>3, <1>4, <2>3, BatteryTimes, Times DEF Charging
  <2>5. QED
    BY <1>1, <1>4, <2>1, <2>2, <2>4 DEF Charging
<1>5. QED
  BY <1>1, <1>3, <1>4 DEF BatteryInv, Charging

LEMMA BatteryInvStep ==
  ASSUME SensorInv, BatteryInv, [BatteryNext \/ OtherNext]_allVars
  PROVE  BatteryInv'
<1>1. CASE BatteryTick
  BY <1>1, BatteryTickKeepsInv
<1>2. CASE NoTransition
  <2>1. /\ UNCHANGED batteryVars /\ ~(timer > period)
        /\ pc = "update" /\ pc' = "sampled" /\ elapsed' = elapsed
        /\ elapsed \in Nat
    BY <1>2 DEF NoTransition, TransitionPassed, UpdateNoData, Respond, SensorInv, TypeOK
  <2>2. ASSUME Charging PROVE Charging'
    <3>1. charged = timer /\ timer <= ChargePeriod /\ timer \in Nat
      BY <2>1, <2>2, BatteryTimes DEF Charging, BatteryInv
    <3>2. QED
      BY <2>1, <2>2, <3>1, BatteryTimes DEF Charging, batteryVars
  <2>3. QED
    BY <2>1, <2>2 DEF BatteryInv, batteryVars
<1>3. CASE StartCharging
  <2>1. /\ mCurrentState' = "charging" /\ circuitOn'
        /\ period' = ChargePeriod /\ timer' = 0 /\ charged' = 0
        /\ pc' = "sampled" /\ elapsed' = elapsed /\ elapsed \in Nat
    BY <1>3 DEF StartCharging, UpdateNoData, Respond, BatteryInv, SensorInv, TypeOK
  <2>2. Charging'
    <3>1. ChargePeriod \in Nat /\ 0 <= ChargePeriod + elapsed
      BY <2>1, BatteryTimes
    <3>2. timer' <= ChargePeriod /\ charged' <= ChargePeriod + elapsed'
      BY <2>1, <3>1
    <3>3. QED
      BY <2>1, <3>1, <3>2 DEF Charging
  <2>3. QED
    BY <2>1, <2>2 DEF BatteryInv
<1>4. CASE ReadVoltage
  BY <1>4 DEF ReadVoltage, BatteryInv
<1>5. CASE (Send \/ NextTurn) /\ UNCHANGED batteryVars
  <2>1. UNCHANGED batteryVars /\ elapsed \in Nat /\ charged \in Nat
    BY <1>5 DEF BatteryInv, SensorInv, TypeOK
  <2>2. \/ pc = "sampled" /\ pc' = "sleep" /\ elapsed' = 0 /\ elapsed <= MaxTurn
        \/ pc = "sleep" /\ pc' = "update" /\ elapsed' = 0 /\ elapsed = SleepTime
    BY <1>5 DEF Send, NextTurn, SensorInv, InTurn
  <2>3. ASSUME Charging PROVE Charging'
    BY <2>1, <2>2, <2>3, BatteryTimes, Times DEF Charging, batteryVars
  <2>4. QED
    BY <2>1, <2>3 DEF BatteryInv, batteryVars
<1>6. CASE OtherNext
  BY <1>6 DEF OtherNext, batteryVars, BatteryInv
<1>7. CASE UNCHANGED allVars
  BY <1>7 DEF allVars, vars, batteryVars, BatteryInv, Charging
<1>8. QED
  BY <1>1, <1>2, <1>3, <1>4, <1>5, <1>6, <1>7 DEF BatteryNext

(* When the voltage is read the circuit is on, and the capacitor has       *)
(* charged for longer than its period and for little more than a turn of   *)
(* the loop (battery_sensor.cpp:77-99).                                    *)
THEOREM VoltageReadInTime == SensorsSpec => ChargedInTime
<1>1. BatteryInit \/ OtherInit => BatteryInv
  BY DEF BatteryInit, OtherInit, BatteryInv
<1>2. ASSUME SensorInv, BatteryInv, ReadVoltage
      PROVE  circuitOn /\ charged > ChargePeriod /\ charged < ChargeLimit
  <2>1. Charging /\ timer > period /\ pc = "update" /\ elapsed <= MaxTurn
    BY <1>2
       DEF ReadVoltage, TransitionPassed, UpdateOK, Respond, BatteryInv,
           SensorInv, InTurn
  <2>2. charged \in Nat /\ elapsed \in Nat
    BY <1>2 DEF BatteryInv, SensorInv, TypeOK
  <2>3. QED
    BY <2>1, <2>2, BatteryTimes, Times DEF Charging
<1>3. SensorsSpec => []SensorInv
  BY BatteryIsASensor, SensorInvariance, PTL
<1>4. QED
  BY <1>1, <1>2, <1>3, BatteryInvStep, PTL DEF SensorsSpec, ChargedInTime

----------------------------------------------------------------------------
(* The age of the voltage in the cache.  While the battery sensor sleeps,  *)
(* the data is as old as its timer; while it charges, older by as much as  *)
(* the sleep may have taken.  A period that has passed is noticed in the   *)
(* next update.                                                            *)
Before ==
  IF mCurrentState = "sleeping" THEN 0
  ELSE SamplePeriod + MaxTurn + SleepTime + MaxTurn

Aging ==
  /\ mCurrentState = "sleeping" => period = SamplePeriod
  /\ timer <= period => dataAge <= Before + timer
  /\ pc = "sampled" => dataAge <= Before + period + elapsed
  /\ pc = "sleep" => dataAge <= Before + period + MaxTurn + elapsed
  /\ pc = "update" =>
       dataAge <= Before + period + MaxTurn + SleepTime + elapsed

VoltageInv == mCurrentState # "none" /\ hasData => Aging

(* Where the battery sensor is in its cycle, and for how long.             *)
LEMMA BatteryCycle ==
  ASSUME SensorInv, BatteryInv, mCurrentState # "none", VoltageInv, hasData
  PROVE  /\ Aging
         /\ period \in Nat /\ period <= SamplePeriod /\ Before \in Nat
         /\ timer \in Nat /\ dataAge \in Nat /\ elapsed \in Nat
         /\ mCurrentState = "charging" => period = ChargePeriod
BY BatteryTimes, Times
   DEF VoltageInv, Aging, Before, SensorInv, TypeOK, Ages, BatteryInv, Charging

LEMMA VoltageTick ==
  ASSUME SensorInv, BatteryInv, VoltageInv, BatteryTick
  PROVE  VoltageInv'
<1> SUFFICES ASSUME mCurrentState' # "none", hasData'
             PROVE  Aging'
  BY DEF VoltageInv
<1>1. /\ elapsed' = elapsed + 1
      /\ UNCHANGED <<pc, hasData, mCurrentState, period, Before>>
      /\ timer' = Min({timer + 1, SamplePeriod + 1})
      /\ dataAge' = Older(dataAge)
      /\ dataAge \in Ages /\ timer \in Nat
  BY DEF BatteryTick, Tick, Before, SensorInv, TypeOK, BatteryInv
<1>2. /\ Aging
      /\ period \in Nat /\ period <= SamplePeriod /\ Before \in Nat
      /\ timer \in Nat /\ dataAge \in Nat /\ elapsed \in Nat
  BY <1>1, BatteryCycle
<1>3. dataAge' <= dataAge + 1 /\ dataAge' \in Nat
  BY <1>1, <1>2, OlderIsNext, Times DEF Ages
<1>4. timer' <= period => timer' = timer + 1 /\ timer <= period
  BY <1>1, <1>2, MinOfTwo, BatteryTimes
<1>5. timer' <= period => dataAge' <= Before + timer'
  BY <1>2, <1>3, <1>4 DEF Aging
<1>6. /\ pc = "sampled" => dataAge' <= Before + period + elapsed'
      /\ pc = "sleep" => dataAge' <= Before + period + MaxTurn + elapsed'
      /\ pc = "update" =>
           dataAge' <= Before + period + MaxTurn + SleepTime + elapsed'
  BY <1>1, <1>2, <1>3, Times DEF Aging
<1>7. QED
  BY <1>1, <1>2, <1>5, <1>6 DEF Aging

(* An update without new data keeps the data that is in time.              *)
LEMMA KeepsWhatIsInTime ==
  ASSUME SensorInv, UpdateNoData, dataAge <= CacheTime + elapsed
  PROVE  UNCHANGED <<hasData, dataAge, elapsed>> /\ pc' = "sampled"
BY Times DEF UpdateNoData, Respond, Passed, SensorInv, TypeOK, Ages

LEMMA VoltageStep ==
  ASSUME TimesFit, SensorInv, BatteryInv, VoltageInv,
         [BatteryNext \/ OtherNext]_allVars
  PROVE  VoltageInv' /\ (mCurrentState # "none" /\ hasData => hasData')
<1>1. CASE BatteryTick
  BY <1>1, VoltageTick DEF BatteryTick, Tick
<1>2. CASE NoTransition
  <2>1. /\ UNCHANGED batteryVars /\ ~(timer > period) /\ UpdateNoData
    BY <1>2 DEF NoTransition, TransitionPassed
  <2>2. CASE mCurrentState # "none" /\ hasData
    <3>1. /\ Aging /\ period \in Nat /\ Before \in Nat /\ timer \in Nat
          /\ dataAge \in Nat /\ elapsed \in Nat
          /\ mCurrentState = "charging" => period = ChargePeriod
          /\ mCurrentState = "sleeping" => period = SamplePeriod
          /\ mCurrentState = "sleeping" \/ mCurrentState = "charging"
      BY <2>2, BatteryCycle DEF Aging, BatteryInv
    <3>2. dataAge <= Before + timer /\ timer <= period
      BY <2>1, <3>1 DEF Aging
    <3>3. Before + period <= CacheTime + elapsed
      BY <3>1, BatteryTimes, Times DEF Before, TimesFit
    <3>4. dataAge <= CacheTime + elapsed
      BY <3>1, <3>2, <3>3, Times
    <3>5. /\ UNCHANGED <<hasData, dataAge, elapsed>> /\ pc' = "sampled"
      BY <2>1, <3>4, KeepsWhatIsInTime
    <3>6. dataAge <= Before + period + elapsed
      BY <3>1, <3>2
    <3>7. Before' = Before
      BY <2>1 DEF batteryVars, Before
    <3>8. Aging'
      BY <2>1, <3>1, <3>2, <3>5, <3>6, <3>7 DEF Aging, batteryVars
    <3>9. QED
      BY <2>2, <3>5, <3>8 DEF VoltageInv
  <2>3. CASE ~(mCurrentState # "none" /\ hasData)
    BY <2>1, <2>3 DEF UpdateNoData, VoltageInv, batteryVars
  <2>4. QED
    BY <2>2, <2>3
<1>3. CASE StartCharging
  <2>1. /\ mCurrentState = "sleeping" /\ timer > period /\ UpdateNoData
        /\ mCurrentState' = "charging" /\ period' = ChargePeriod /\ timer' = 0
        /\ pc = "update"
    BY <1>3 DEF StartCharging, TransitionPassed, UpdateNoData, Respond
  <2>2. CASE hasData
    <3>1. /\ Aging /\ period = SamplePeriod /\ dataAge \in Nat
          /\ elapsed \in Nat /\ elapsed <= MaxTurn
      BY <2>1, <2>2, BatteryCycle DEF Aging, SensorInv, InTurn
    <3>2. dataAge <= SamplePeriod + MaxTurn + SleepTime + elapsed
      BY <2>1, <3>1, BatteryTimes, Times DEF Aging, Before
    <3>3. dataAge <= CacheTime + elapsed
      BY <3>1, <3>2, BatteryTimes, Times DEF TimesFit
    <3>4. UNCHANGED <<hasData, dataAge, elapsed>> /\ pc' = "sampled"
      BY <2>1, <3>3, KeepsWhatIsInTime
    <3>5. Before' = SamplePeriod + MaxTurn + SleepTime + MaxTurn
      BY <2>1 DEF Before
    <3>6. /\ dataAge <= SamplePeriod + MaxTurn + SleepTime + MaxTurn + 0
          /\ dataAge <= SamplePeriod + MaxTurn + SleepTime + MaxTurn
                          + ChargePeriod + elapsed
      BY <3>1, <3>2, BatteryTimes, Times
    <3>7. Aging'
      BY <2>1, <3>4, <3>5, <3>6 DEF Aging
    <3>8. QED
      BY <2>2, <3>4, <3>7 DEF VoltageInv
  <2>3. CASE ~hasData
    BY <2>1, <2>3 DEF UpdateNoData, VoltageInv
  <2>4. QED
    BY <2>2, <2>3
<1>4. CASE ReadVoltage
  <2>1. /\ mCurrentState' = "sleeping" /\ period' = SamplePeriod /\ timer' = 0
        /\ hasData' /\ dataAge' = 0 /\ pc' = "sampled" /\ elapsed' = elapsed
        /\ elapsed \in Nat
    BY <1>4 DEF ReadVoltage, UpdateOK, Respond, SensorInv, TypeOK
  <2>2. Before' = 0
    BY <2>1 DEF Before
  <2>3. 0 <= 0 + SamplePeriod + elapsed
    BY <2>1, BatteryTimes
  <2>4. QED
    BY <2>1, <2>2, <2>3 DEF VoltageInv, Aging
<1>5. CASE (Send \/ NextTurn) /\ UNCHANGED batteryVars
  <2>1. /\ UNCHANGED <<batteryVars, hasData, dataAge, Before>>
    BY <1>5 DEF Send, NextTurn, cache, batteryVars, Before
  <2>2. \/ pc = "sampled" /\ pc' = "sleep" /\ elapsed' = 0 /\ elapsed <= MaxTurn
        \/ pc = "sleep" /\ pc' = "update" /\ elapsed' = 0 /\ elapsed = SleepTime
    BY <1>5 DEF Send, NextTurn, SensorInv, InTurn
  <2>3. CASE mCurrentState # "none" /\ hasData
    <3>1. Aging /\ period \in Nat /\ Before \in Nat /\ dataAge \in Nat /\ elapsed \in Nat
      BY <2>3, BatteryCycle
    <3>2. /\ pc = "sampled" => dataAge <= Before + period + MaxTurn + 0
          /\ pc = "sleep" => dataAge <= Before + period + MaxTurn + SleepTime + 0
      BY <2>2, <3>1, Times DEF Aging
    <3>3. Aging'
      BY <2>1, <2>2, <3>1, <3>2 DEF Aging, batteryVars
    <3>4. QED
      BY <2>1, <2>3, <3>3 DEF VoltageInv
  <2>4. CASE ~(mCurrentState # "none" /\ hasData)
    BY <2>1, <2>4 DEF VoltageInv, batteryVars
  <2>5. QED
    BY <2>3, <2>4
<1>6. CASE OtherNext
  BY <1>6 DEF OtherNext, batteryVars, VoltageInv
<1>7. CASE UNCHANGED allVars
  BY <1>7 DEF allVars, vars, cache, batteryVars, VoltageInv, Aging, Before
<1>8. QED
  BY <1>1, <1>2, <1>3, <1>4, <1>5, <1>6, <1>7 DEF BatteryNext

(* If a cache time is longer than a cycle of the battery sensor with the   *)
(* turns in which its periods end, no update drops the voltage, whatever   *)
(* turns it comes at: with the 300 s, 20 ms and 600 s of                   *)
(* battery_sensor.cpp:14-15 and battery_sensor.h:33 it is by far.          *)
THEOREM VoltageStays ==
  ASSUME TimesFit
  PROVE  SensorsSpec => VoltageIsNeverDropped
<1>1. BatteryInit \/ OtherInit => BatteryInv /\ VoltageInv
  BY DEF BatteryInit, OtherInit, Init, BatteryInv, VoltageInv
<1>2. SensorsSpec => []SensorInv
  BY BatteryIsASensor, SensorInvariance, PTL
<1>3. SensorInv /\ BatteryInv /\ VoltageInv /\ [BatteryNext \/ OtherNext]_allVars
        => /\ BatteryInv' /\ VoltageInv'
           /\ [mCurrentState # "none" /\ hasData => hasData']_allVars
  BY BatteryInvStep, VoltageStep
<1>4. QED
  BY <1>1, <1>2, <1>3, PTL DEF SensorsSpec, VoltageIsNeverDropped

============================================================================
