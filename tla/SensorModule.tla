--------------------------- MODULE SensorModule ---------------------------
(***************************************************************************)
(* The two cores of the Pico and the mailbox between them: core 1 handles  *)
(* control commands and samples the sensors (cores/core_1_executor.cpp),   *)
(* core 0 publishes what core 1 sampled (cores/core_0_executor.cpp), and   *)
(* the network stack, in interrupts of core 0, hands control commands to   *)
(* core 1 (network/mqtt_controller.cpp).                                   *)
(*                                                                         *)
(* Each queue of the mailbox is the atomic queue of LossyQueue, which      *)
(* CoreMessageQueue implements.  A reading is abstracted to the last       *)
(* control command that the sensor had handled when it gave it; a sensor   *)
(* may or may not give one when it is updated.                             *)
(***************************************************************************)
EXTENDS Integers, Sequences, FiniteSetsExt

CONSTANTS
  UpdateMessages,   \* NUM_SENSOR_UPDATE_MESSAGES
  ControlMessages,  \* NUM_SENSOR_CONTROL_MESSAGES
  NumGroups,        \* number of sensor groups of the hardware platform
  ControlTopic,     \* control topic of each group, NoTopic if it has none
  NoTopic,
  Handles,          \* the groups with a sensor that handles control commands
  MaxSweeps,        \* sweeps are numbered up to here, later ones all get it
  MaxCommands       \* bound on the number of control commands

Groups == 1..NumGroups

Topics == {ControlTopic[g] : g \in Groups} \ {NoTopic}

ASSUME ModuleAssumption ==
  /\ {UpdateMessages, ControlMessages, NumGroups} \subseteq Nat \ {0}
  /\ DOMAIN ControlTopic = Groups
  /\ Handles \subseteq Groups
  /\ MaxSweeps \in Nat \ {0}
  /\ MaxCommands \in Nat

Settings == [Handles -> 0..MaxCommands]

NoReading == -1    \* mDataLen is 0

(* Readings of sensors that handle no commands show no effect of any, and  *)
(* are left out.                                                           *)
Readings == [Handles -> (0..MaxCommands) \cup {NoReading}]

Sweep == [number : 0..MaxSweeps, data : Readings]

Command == [number : 0..MaxCommands, topic : Topics \cup {NoTopic}]

NoSweepYet == [number |-> 0, data |-> [g \in Handles |-> NoReading]]

NoCommandYet == [number |-> 0, topic |-> NoTopic]

VARIABLES
  updateQueue, updateRead, gotUpdate,     \* mSensorUpdateQueue2
  controlQueue, controlRead, gotCommand,  \* mSensorControlQueue2
  sweeps,        \* number of the last sweep sent to core 0
  commands,      \* number of the last command sent to core 1
  connected,     \* the MQTT client has a connection to the broker
  pc0,           \* core 0: 0 in its loop, g when about to publish group g
  published,     \* published[g]: the last reading in a message of g
  pc1,           \* core 1: the stage of its loop
  group,         \* core 1: the group to update next
  setting,       \* setting[g]: the last command that a sensor of g handled
  cached,        \* cached[g]: the reading in the cache of g's sensor
  taken,         \* history: the commands that core 1 has taken
  burst,         \* history: commands since core 1 last left stage 1
  longestBurst   \* history: the largest value of burst

updateVars  == <<updateQueue, updateRead, gotUpdate>>
controlVars == <<controlQueue, controlRead, gotCommand>>
core0Vars   == <<pc0, published>>
core1Vars   == <<pc1, group, setting, cached, taken, sweeps>>
netVars     == <<connected, commands, longestBurst>>

vars == <<updateVars, controlVars, core0Vars, core1Vars, netVars, burst>>

(* Both queues have a single reader: core 0 reads updates and core 1       *)
(* control commands.                                                       *)
Updates == INSTANCE LossyQueue
  WITH Capacity <- UpdateMessages, Readers <- {"core0"}, Messages <- Sweep,
       NoMessage <- NoSweepYet, queue <- updateQueue, received <- updateRead,
       found <- gotUpdate

Commands == INSTANCE LossyQueue
  WITH Capacity <- ControlMessages, Readers <- {"core1"}, Messages <- Command,
       NoMessage <- NoCommandYet, queue <- controlQueue,
       received <- controlRead, found <- gotCommand

latest == updateRead["core0"]

command == controlRead["core1"]

Init ==
  /\ Updates!Init
  /\ Commands!Init
  /\ sweeps = 0
  /\ commands = 0
  /\ connected = FALSE
  /\ pc0 = 0
  /\ published = [g \in Handles |-> NoReading]
  /\ pc1 = "control"
  /\ group = 1
  /\ setting = [g \in Handles |-> 0]
  /\ cached = [g \in Handles |-> NoReading]
  /\ taken = {}
  /\ burst = 0
  /\ longestBurst = 0

----------------------------------------------------------------------------
(* The network.  A connection opens only from core 0's loop                *)
(* (createMQTTConnection, which subscribes to every control topic); it may *)
(* be lost at any time.                                                    *)
Connect ==
  /\ pc0 = 0
  /\ ~connected
  /\ connected' = TRUE
  /\ UNCHANGED <<updateVars, controlVars, core0Vars, core1Vars, commands,
                 burst, longestBurst>>

LoseConnection ==
  /\ connected
  /\ connected' = FALSE
  /\ UNCHANGED <<updateVars, controlVars, core0Vars, core1Vars, commands,
                 burst, longestBurst>>

(* mqtt_publish_data_callback at the end of a well-formed message, in an   *)
(* interrupt of core 0.                                                    *)
ReceiveCommand(topic) ==
  /\ connected
  /\ commands < MaxCommands
  /\ commands' = commands + 1
  /\ Commands!Put([number |-> commands', topic |-> topic])
  /\ burst' = burst + 1
  /\ longestBurst' = Max({longestBurst, burst'})
  /\ UNCHANGED <<updateVars, connected, core0Vars, core1Vars>>

----------------------------------------------------------------------------
(* Core 0: transmitSensorData when an update is due.                       *)
TakeSweep ==
  /\ pc0 = 0
  /\ connected
  /\ Updates!Get("core0")
  /\ pc0' = 1
  /\ UNCHANGED <<controlVars, published, core1Vars, netVars, burst>>

NoSweep ==
  /\ pc0 = 0
  /\ connected
  /\ Updates!GetNothing("core0")
  /\ UNCHANGED <<controlVars, core0Vars, core1Vars, netVars, burst>>

(* The message of g gets to the broker with a reading: the error of a      *)
(* publish on a lost connection is ignored, and a message without a        *)
(* reading takes back nothing that an earlier one showed.                  *)
Shows(g) ==
  connected /\ ControlTopic[g] # NoTopic /\ latest.data[g] # NoReading

(* A mutant of Publish: the last group is left out.                        *)
PublishSkipsLast ==
  /\ pc0 \in Groups
  /\ published' = [g \in Handles |-> IF g = pc0 /\ Shows(g)
                                       THEN latest.data[g] ELSE published[g]]
  /\ pc0' = IF pc0 + 1 = NumGroups THEN 0 ELSE pc0 + 1
  /\ UNCHANGED <<updateVars, controlVars, core1Vars, netVars, burst>>

(* publishMessage for the group whose turn it is, if it has a topic.       *)
Publish ==
  /\ pc0 \in Groups
  /\ published' = [g \in Handles |-> IF g = pc0 /\ Shows(g)
                                       THEN latest.data[g] ELSE published[g]]
  /\ pc0' = IF pc0 = NumGroups THEN 0 ELSE pc0 + 1
  /\ UNCHANGED <<updateVars, controlVars, core1Vars, netVars, burst>>

----------------------------------------------------------------------------
(* Core 1, stage 1: processSensorControlCommands takes commands until the  *)
(* queue is empty.                                                         *)
TakeCommand ==
  /\ pc1 = "control"
  /\ Commands!Get("core1")
  /\ taken' = taken \cup {controlRead'["core1"].number}
  /\ pc1' = "handle"
  /\ UNCHANGED <<updateVars, core0Vars, group, setting, cached, sweeps,
                 netVars, burst>>

(* The first group with the command's topic and a sensor that knows the    *)
(* command handles it.                                                     *)
Handler(topic) ==
  {g \in Handles : /\ ControlTopic[g] = topic
                   /\ \A h \in Handles : ControlTopic[h] = topic => g <= h}

HandleCommand ==
  /\ pc1 = "handle"
  /\ setting' = [g \in Handles |->
                   IF g \in Handler(command.topic) THEN command.number
                                                   ELSE setting[g]]
  /\ pc1' = "control"
  /\ UNCHANGED <<updateVars, controlVars, core0Vars, group, cached, taken,
                 sweeps, netVars, burst>>

NoCommand ==
  /\ pc1 = "control"
  /\ Commands!GetNothing("core1")
  /\ pc1' = "update"
  /\ group' = 1
  /\ burst' = 0
  /\ UNCHANGED <<updateVars, core0Vars, setting, cached, taken, sweeps,
                 netVars>>

(* Sensor::update: new data takes the place of what is cached; without it  *)
(* the sensor keeps what is cached, or drops it when it has expired or the *)
(* sensor fails.                                                           *)
Update(g) == {setting[g], cached[g], NoReading}

(* Stage 2: SensorGroup::update of one group after the other.              *)
UpdateGroup ==
  /\ pc1 = "update"
  /\ IF group \in Handles
       THEN \E reading \in Update(group) :
              cached' = [cached EXCEPT ![group] = reading]
       ELSE UNCHANGED cached
  /\ IF group = NumGroups
       THEN pc1' = "send" /\ UNCHANGED group
       ELSE group' = group + 1 /\ UNCHANGED pc1
  /\ UNCHANGED <<updateVars, controlVars, core0Vars, setting, taken, sweeps,
                 netVars, burst>>

(* A mutant of SendSweep: core 1 waits while the queue is full.            *)
SendSweepWaits ==
  /\ pc1 = "send"
  /\ Len(updateQueue) < UpdateMessages
  /\ sweeps' = IF sweeps < MaxSweeps THEN sweeps + 1 ELSE sweeps
  /\ Updates!Put([number |-> sweeps', data |-> cached])
  /\ pc1' = "control"
  /\ UNCHANGED <<controlVars, core0Vars, group, setting, cached, taken,
                 netVars, burst>>

(* Stage 3: sendSensorDataToCore0, then sleep_ms(500).                     *)
SendSweep ==
  /\ pc1 = "send"
  /\ sweeps' = IF sweeps < MaxSweeps THEN sweeps + 1 ELSE sweeps
  /\ Updates!Put([number |-> sweeps', data |-> cached])
  /\ pc1' = "control"
  /\ UNCHANGED <<controlVars, core0Vars, group, setting, cached, taken,
                 netVars, burst>>

Core0 == TakeSweep \/ NoSweep \/ Publish

Core1 == TakeCommand \/ HandleCommand \/ NoCommand \/ UpdateGroup \/ SendSweep

Network == Connect \/ LoseConnection \/ \E t \in Topics : ReceiveCommand(t)

Next == Core0 \/ Core1 \/ Network

(* Both cores loop for ever; nothing is assumed of the network.            *)
Spec == Init /\ [][Next]_vars /\ WF_vars(Core0) /\ WF_vars(Core1)

----------------------------------------------------------------------------
TypeOK ==
  /\ updateQueue \in Seq(Sweep) /\ Len(updateQueue) <= UpdateMessages
  /\ updateRead \in [{"core0"} -> Sweep]
  /\ gotUpdate \in [{"core0"} -> BOOLEAN]
  /\ controlQueue \in Seq(Command) /\ Len(controlQueue) <= ControlMessages
  /\ controlRead \in [{"core1"} -> Command]
  /\ gotCommand \in [{"core1"} -> BOOLEAN]
  /\ sweeps \in 0..MaxSweeps
  /\ commands \in 0..MaxCommands
  /\ connected \in BOOLEAN
  /\ pc0 \in Groups \cup {0}
  /\ published \in Readings
  /\ pc1 \in {"control", "handle", "update", "send"}
  /\ group \in Groups
  /\ setting \in Settings
  /\ cached \in Readings
  /\ taken \in SUBSET (1..MaxCommands)
  /\ burst \in 0..MaxCommands
  /\ longestBurst \in 0..MaxCommands

Pending == {controlQueue[i].number : i \in 1..Len(controlQueue)}

(* A control command is lost only by an overflow: unless more than         *)
(* ControlMessages commands arrive during one turn of core 1's loop, every *)
(* command that was received is pending or has been taken                  *)
(* (core_message_queue.h:24-39 with core_1_executor.cpp:61-81).            *)
NoLossWithoutBurst ==
  longestBurst <= ControlMessages => 1..commands = Pending \cup taken

(* Every sweep that core 0 takes to publish is newer than all that it took *)
(* before, and fewer than UpdateMessages sweeps behind core 1, also on a   *)
(* connection that was down for long (multicore_mailbox.cpp:18-24 and      *)
(* core_message_queue.h:24-39).                                            *)
FreshInOrder ==
  [][TakeSweep =>
       /\ \/ latest'.number > latest.number
          \/ latest'.number = MaxSweeps
       /\ latest'.number + UpdateMessages > sweeps]_vars

(* No message takes back on the broker what an earlier one showed of the   *)
(* effect of a command, over both queues, whatever overflows, whether or   *)
(* not sensors give data, and over connections that are lost               *)
(* (core_1_executor.cpp:39-81, core_0_executor.cpp:186-199).               *)
EffectsNeverRevert ==
  [][\A g \in Handles : published'[g] >= published[g]]_vars

(* A command that is pending is taken, or given up for a newer one that    *)
(* is taken.                                                               *)
PendingCommandIsTaken ==
  \A n \in 1..MaxCommands : n \in Pending ~> command.number >= n

(* The sensor of g gives data again and again, in time for the cache never *)
(* to run empty from some time on.                                         *)
KeepsGivingData(g) ==
  /\ []<><<UpdateGroup /\ group = g /\ cached'[g] = setting[g]>>_vars
  /\ <>[](cached[g] # NoReading)

(* The effect of a command on a group whose sensor keeps giving data is on *)
(* the broker in the end, unless the connection is lost.                   *)
EffectIsPublished ==
  \A g \in Handles : KeepsGivingData(g) =>
    \A n \in 1..MaxCommands :
      setting[g] = n /\ ControlTopic[g] # NoTopic
        ~> (~connected \/ published[g] >= n)

============================================================================
