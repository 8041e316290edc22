# A verification development for the AutoBloomer sensor module

The firmware under `src/pico/src` runs on a Raspberry Pi Pico W. It samples a few
sensors and publishes what they say over MQTT, and it takes calibration commands
from MQTT and settings from a serial port. This directory holds TLA+ models of
its parts, TLC configurations that check them on small instances, and proofs that
TLAPS checks for all instances. All paths below are relative to `src/pico/src`.

## 1. The system

Core 1 (`cores/core_1_executor.cpp`) goes round a loop for ever: it takes control
commands from a queue until none is left and hands each to the sensor that knows
it, updates every sensor of every group, packs the result into one message, puts
that into a second queue, and sleeps for 500 ms.

Core 0 (`cores/core_0_executor.cpp`) goes round another loop: serial input,
WiFi, the MQTT broker, and every 750 ms one message from the second queue, which
it unpacks into JSON and publishes, one MQTT message per sensor group.
lwIP runs in interrupts of core 0 and calls the program back from there
(`network/mqtt_controller.cpp`), in particular to put a command into the first
queue.

| Part | State | Operations | Interacts with | What must hold |
|---|---|---|---|---|
| Message queue, `messaging/core_message_queue.h` | ring of slots, `mFront`, `mRear`, mutex | `addToQueue`, `readFromQueue`, `isFull` | both cores and the callbacks | behaves like one atomic queue; order; no slot of an earlier lap is delivered |
| Mailbox, `messaging/multicore_mailbox.*` | two queues, two scratch messages | send and take sweeps and commands | both loops, callbacks | nothing is lost but by overflow; nothing reverts |
| Core 1 loop | stage of the loop | commands, sweep, send | queues, sensors | never waits for core 0; handles every command that is left to it |
| Core 0 loop | time outs, connection | serial, network, transmit, write settings | everything | keeps going; a change of settings is written |
| Sensor, `sensors/sensor.*` | cached data, its expiry, watchdog | `update` | drivers, groups | data sent is fresh; a silent sensor is reset, a working one is not |
| Group and message, `sensors/sensor_group.*`, `messaging/sensor_data_message.*` | array of bytes | pack, unpack, route a command | mailbox | what goes in comes out, sensor by sensor |
| Settings, `userdata/user_data.*` | strings in memory, flash | set, wipe, write, read | serial commands, core 0 | all or nothing after a loss of power; durable |
| Serial commands, `serial_control/*` | line buffer | `updateUserData` | settings | an accepted command takes effect |
| Debug output, `util/debug_io.*` | one mutex, one buffer | `DEBUG_PRINT` | every context | no context waits for itself |
| MQTT and WiFi, `network/*` | client, broker address, incoming buffer | connect, subscribe, publish, callbacks | core 0, lwIP | calls return; commands are assembled right |
| Drivers, `sensors/sensor_types/*` | state of each device | `doUpdate`, `reset`, commands | I2C, PIO, ADC | recover from errors |
| Shift registers, `board_hardware/*` | 16 bits | set, write, read | both cores (HIB only) | both cores' bits survive |

What is hard here: two cores and interrupts that share queues, mutexes and a
register; queues that drop on overflow; data that is cached with time outs; an
array read at positions that depend on what was written; flash that is erased
before it is written; blocking calls that wait for callbacks. `PROJECT.json` lists
each place under `hazards`, with the properties aimed at it.

## 2. The modules

```
LossyQueue                      abstract queue
   ^ implemented by                ^ two instances
CoreMessageQueue                SensorModule        both cores, both queues, network
                                NetworkConnection   WiFi, look-up, broker, callbacks
                                SensorDataMessage   bytes between the cores
                                UserData            serial commands, settings, flash
                                CoreLocks           mutexes, interrupts, lock out
                                Sensor              one sensor's cache and watchdog
                                   ^ EXTENDS
                                BatterySensor       the battery sensor under it
                                PodSensors          the drivers of the sensor pod
                                SCD30Driver         what the SCD30 is told and says
                                SonarSensor         a sonar, its receiver and driver
                                IndicatorRegister   both cores at one shift register
```

Each has an `MC...` module and `.cfg` files for TLC. The proofs are in modules of
their own, some of which are about two components that share no variable:

| Proofs | About |
|---|---|
| `CoreMessageQueueProofs` | `CoreMessageQueue`, and that it implements `LossyQueue` |
| `CoresProofs` | `SensorModule`, `CoreLocks` |
| `SensorProofs` | `Sensor`, `BatterySensor` |
| `SensorTypesProofs` | `SonarSensor`, `PodSensors` |
| `LayoutProofs` | `UserData`, `SensorDataMessage` |
| `ControlMessageProofs` | `NetworkConnection`, `SCD30Driver` |
| `IndicatorRegisterProofs` | `IndicatorRegister` |
| `FoldLemmas` | what the folds, sums and concatenations of the community modules compute |

So that one module can extend two, the second of each pair puts its name before `Init`,
`Next` and the like (`LocksInit`, `PodInit`, `DriverInit`, `UserDataInit`, `MessageInit`),
and `SensorDataMessage` calls its program counter `phase`. Definitions called a "mutant" in
their comment are variations of the next definition that stand for a plausible bug; they
are not part of any specification, and `PROJECT.json` says which property notices which.

### LossyQueue and CoreMessageQueue

`CoreMessageQueue` models `addToQueue` and `readFromQueue` statement by
statement: a thread waits for the mutex (`Enter`), then `AdvanceRear`,
`InitFront`, `CopyIn`, or `FindNothing` / `CopyOut`, `AdvanceFront`, and `Exit`.
Every thread has its own program counter, so all interleavings are there that the
mutex permits. Messages are numbered in the order in which they move `mRear`,
which is the order of entering. Overflow is as in the code: a full ring to which
a message is added has `mRear` catching up with `mFront` and then holds that message only.

`LossyQueue` is what callers rely on: `Put` appends, or, when full, replaces
everything; `Get` and `GetNothing`. `ImplementsLossyQueue` states the refinement:
the abstract queue is what lies between `mFront` and `mRear`, with a correction
while a call is half way through.

### SensorModule

The two loops and the network with both queues atomic (`INSTANCE LossyQueue`
twice). A reading of a sensor that handles commands is abstracted to the number of the
last command it had handled when it gave it, which is enough to say whether published data
shows the effect of a command; readings of other sensors are left out. An update
(`Update`) may bring new data, keep the reading in the cache, as the SCD30 does at most
turns since it measures every 2 s, or drop it; which of these happens when is the
subject of `Sensor` and `PodSensors`. The network may connect only from core 0's loop and is lost at any
time; a publish on a lost connection does nothing, as its error is ignored.
`TakeSweep`, `NoSweep`, `Publish` are core 0's transmission, `TakeCommand`, `HandleCommand`,
`NoCommand`, `UpdateGroup`, `SendSweep` the stages of core 1's loop.

### Sensor

`Sensor::update` with one action for each status that `doUpdate` may return, in
discrete time. Ages stand for time stamps, so that time needs no bound: an age
stops growing once it is beyond whatever the code compares with. As in the code
the comparison uses the time at which the turn of the loop began, while time passes
during a turn (`MaxTurn`) and while core 1 sleeps (`SleepTime`).

### BatterySensor

The battery sensor's two states, the time at which each ends and the circuit that it
switches, as a driver under `Sensor`: each of its actions is one of `Sensor`'s together
with what `doUpdate` does before it returns (`NoTransition`, `StartCharging`,
`ReadVoltage`). It never fails, so its `reset` is never called. A sensor of any other
kind is the same composition without a battery, so that one run checks both.

### SensorDataMessage

The flat array with positions as the code computes them: `Fill` writes the
sensors of one group back to back, `Unpack` reads at fixed distances. Status,
length and data are all numbers, as they are bytes in the code. The layouts are
a constant, in the runs those of the two platforms with real sensors, at their real
sizes, and in the proofs any groups of any kinds of sensors; the sensors'
statuses and what each leaves in the cache are inputs restricted to what `Sensor`
allows. Groups without a name or a location have no topic.

### UserData

Lines on the serial port (`SetCommand`, `WipeCommand`, `IgnoredLine`) in one call
of `updateUserData` (`BeginUpdate` to `EndUpdate`), then `Erase`, `Program` page by
page and `SoftwareReset`; `PowerFailure` may come at any point and `Boot` reads
the flash back. Strings are sequences, because one that is too long runs into its
neighbour; but none is longer than the field of the broker's address (256 characters, where a
serial line has 128 at most), the last one before the key. Erasure and the programming of one page are taken to be atomic: what
a loss of power does in the middle of one is a matter of the flash chip. The
lines that the operator types are taken to fit the line buffer and to name
existing groups.

### CoreLocks

Three contexts, namely the two loops and the callbacks, which interrupt core 0's
loop and run to their end; three mutexes; the lock out of core 1, which freezes it
wherever it is; the disabling of interrupts. A write goes through the stages at which others
may or may not run: core 1 is asked to stop (`StartLockout`), it stops (`Freeze`), interrupts are
disabled (`DisableInterrupts`), the flash is written and they are restored
(`RestoreInterrupts`), core 1 is let go (`EndLockout`) and returns (`Thaw`), and core 0
enables the watchdog, which restarts the program (`EnableWatchdog`, `Restart`). Between two steps a context is either
idle, waits for a mutex or holds one: no operation of the program takes two.

### NetworkConnection

Core 0's calls that block: joining WiFi (`CheckNetwork`, `JoinWiFi`, `JoinFails`),
the look-up of the broker (`ResolveHost`, `Resolved`), the connection
(`ConnectToBroker`, `WaitForBroker`, `ReturnStatus`) and the subscriptions, with the
callbacks that run in interrupts between any two of these steps. The network stack
is external. It answers each request that it accepted, once, may refuse any at
once, and ends the connections in it when it is shut down. The other half is the
single buffer in which incoming messages are assembled (`PublishStart`,
`PublishData`, `Deliver`): a payload is a few units, each of which bears the number
of the message that it came from, so that what an earlier message left behind
can be told. `stray` records that a callback wrote to the monitor of a call that has
returned.

### PodSensors

The SCD30 and the soil sensor under one loop, as on the sensor pod. A transfer gets
through or fails, freely, until `reliable` says that it fails no more, which it need
never say. The device keeps its mode of measurement over a power cut, as its
description in `docs/` says. What is kept of a driver is `mActive`, what `doUpdate`
returned, and the turns since the watchdog was restarted.

### SCD30Driver

The same SCD30 with what is transferred. `CommandParams` is the memory that a control
message's value is copied to, with the topic behind it; `strtol` and `strtod` read it;
`CalibrationWords` is what is then passed on. Texts are digits with at most a point: a sign,
an exponent or `inf`, which `strtol` and `strtod` accept too, is outside the model. A method of `SCD30Sensor` is the sequence
`todo` of the calls that it still makes, each a record of what one function of
`scd30_i2c.c` writes and expects, and each transfer is a step (`WriteCommand`,
`ReadAnswer`), so that the sensor may take a measurement between any two. Bytes are sets
of bits. `generate_crc`, `add_uint16_t_to_buffer`, `read_data_inplace` and the
`bytes_to_...` functions are those of the driver; the sensor computes its checksums as
the remainder of a division of polynomials (`Checksum`), a second definition against
which the driver's eight rounds are checked. A transfer may fail before or after it
reached the sensor, and noise may garble any word; the two bytes of a command have no
checksum and are taken to arrive as they were sent if they were acknowledged. When the
watchdog resets the sensor is left open: it may after any failure.

### SonarSensor

The bytes that a sonar sends, the receiver of `pio/uart_rx.pio` with its queue, and
`doUpdate`, which reads until a packet is complete. A byte is known by its place
in its frame, and whether others were lost before it; any byte may look like a
header. What the receiver makes of a byte whose beginning it missed is `Garbage`. Bytes
are lost, but noise on the line that changes one is not modelled.

### IndicatorRegister

`setState` as a load and a store, `writeStates` as one step for each pin that it
sets, for each core, with the chip's shift register behind the pins. The register
that detects connections is used by core 1 alone, and is what it shows when latched.
The pins are initialized in `Init`: `main` initializes the sensors, and with them both
registers, on core 0 before it launches core 1 (`main.cpp:35`, 39), and every later
call returns at once (`board_hardware/shift_register.cpp:13`), so that no core
writes to a register that is being initialized.

## 3. What the runs show

| Run | Shows | Instance |
|---|---|---|
| `core_message_queue` | The ring holds the newest messages in order without a gap, also within a call (`NewestPending`); refinement of `LossyQueue`; each delivery is newer than all before, so that none is repeated, not even at once (`InOrderDelivery`) | 2 slots as in the update queue, core 1 and an interrupt as writers, 5 messages: more than two laps, overflow at each fill level |
| `sensor_module` | Commands are lost by overflow only (`NoLossWithoutBurst`); every sweep that is taken is newer than before and close to the newest (`FreshInOrder`); no message takes back what an earlier one showed of a command's effect (`EffectsNeverRevert`); a pending command is taken or superseded (`PendingCommandIsTaken`), and its effect is published while the connection lasts and the sensor goes on giving data (`EffectIsPublished`) | both queues of 2, two groups, 3 commands (one more than the queue), sweep numbers up to 3 |
| `sensor` | Data of a connected sensor is never older than the cache time when the turn began; it is not dropped early; later resets follow a real silence; a sensor that keeps failing is reset again and again; once the battery was measured its voltage stays in every message (`VoltageIsKept`, `VoltageIsNeverDropped`), and it is read from a charged capacitor that is then switched off (`ChargedInTime`) | a battery or any other sensor; cache 20, watchdog 30, sleep 1, turns of up to 2 and a sample period of 10, which keep the order that the times have in the code; any status at any turn |
| `message` | The array neither overflows nor shrinks; a sensor is reported right if those before it in its group have data, so always on the HIB, where groups have one sensor | both platforms, all statuses, any groups without topic, any number of sweeps |
| `message_short` | violated: see 4 | the sensor pod |
| `user_data` | A boot finds all of the settings saved last or, if that write was cut short, none; a complete write is always recognised, even with strings too long; a change stays unwritten only after a line that is no command | three fields and short and too long strings; lengths and page size scaled so that fields and key lie in different pages and the key in the last one, as at full size |
| `core_locks` | While the flash is written nothing else executes; there are exactly two deadlocks (`OnlyTwoDeadlocks`), the second of them before or after the flash is written; when no more messages arrive both loops go on for ever | complete, nothing is bounded |
| `network` | A connection that serves is subscribed to every topic; commands are assembled from one message only, whole, and end where they should; callbacks write to a live monitor but for one case; core 0 returns to its loop but for three | two topics, payloads of four units of 64 bytes of which two are cleared and messages of up to five, two messages, fragments of any length |
| `pod_sensors` | An active SCD30 is measuring unless the command to start was lost; once transfers succeed, each sensor gives data again and again, with the exceptions of 4 | complete but for the watchdog, which has 2 turns instead of 30 |
| `scd30_driver` | What the driver returns is bit for bit what the sensor answered to that command, and it fails only if a transfer did; the sensor's calibrations change to the number of the control message and to nothing else; no transfer is made without a bus | one control message; texts at the edges of eight characters and of 16 bits, with a fraction, and without a number; a dozen patterns of noise, single bits and bursts of up to eight, in any word |
| `sonar` | Every packet without a loss inside is a frame, whatever was lost before and wherever a header appears in the data; the last byte of a report has waited three turns at most | a queue of 4 bytes instead of 8 |
| `indicators` | A write that the other core does not disturb leaves the lamps as in memory, whatever is in the chip; the sonars' lamps become right when core 0 is still | a register of 3 bits instead of 16: the LED, a sonar and one unused |

A type invariant is among a run's properties where it says more than types, namely
that an index, a length or a queue stays within its bounds (`TypeOK`, `UserDataTypeOK`,
`MessageTypeOK`), unless it is proved only (`SensorModule`, `SonarSensor`); the other
modules define theirs for the proofs.

Deadlock is checked in all runs but those of `CoreLocks`, where it is the subject.

Bounds. `MaxMessages`, `MaxCommands` and `MaxPublishes` bound the environment; they
are in the guard of the action that creates the item. `MaxSweeps` bounds a number
only: later sweeps all bear it, and core 1 never stops. The bounds exceed the
queues so that every queue is filled, wrapped and overflowed. The control queue has 4
slots in the code and 2 in the run; the proofs about the queue hold for every
size. Two messages are enough for the incoming buffer, because every message
begins by setting its topic, size and position: what is left over comes from the
one before. The sonar's queue with the byte that the receiver holds back is one
more than a packet, as it is one more than two packets in the code, so that
packets straddle what one stall leaves behind; the proofs take a queue of any length. Whether the SCD30's watchdog has 2 turns or 30
matters to none of the properties, which speak of what happens for ever. One control
message is enough in `SCD30Driver`, since a method ends its calls before the next
message is looked at; what it finds, a sensor in any mode with its driver active or
not, is there before the first. The noise is a sample of the bursts of up to
8 bits, which is what a checksum of 8 bits must find, with every border between bytes;
the proofs take any such burst. Ticks in `BatterySensor` are coarse, so that
the charging of 20 ms is less than one. The time that the capacitor has charged is
counted up to `ChargeLimit`, one more than the longest that the schedule of the loop
allows, so that reaching it would violate `ChargedInTime`.

Fairness. The loops of both cores are weakly fair as a whole, since each is a
`while(1)` on a core of its own. In `CoreLocks` the steps of a loop are strongly fair
because interrupts are short and leave it time to run; a callback, a print or a
change of settings need never come. In `NetworkConnection` the stack answers what
it has accepted, by its own time out if nobody else does. In `PodSensors` a sensor
that is in continuous measurement does measure. In `IndicatorRegister` core 0 ends what it
began but may leave the LED alone for ever. Nothing is assumed of the network, the
operator or the transfers: that a connection lasts, that a sensor
goes on giving data, or that transfers succeed from some time on, is a premise of the properties that need it.

## 4. Where the code differs from what it says, and what the properties except

One difference has a run of its own, in which TLC exhibits it:

* `message_short`: on the sensor pod, when the SCD30 has no data, the Stemma's
  status and moisture are read from bytes that belong to nobody: the writer
  advances by the actual length, the reader (`sensors/sensor_group.cpp:106`) by the
  full size.

The others are exceptions that properties of the passing runs name:

* An unplugged sonar keeps its last distance in every message for as long as it stays
  unplugged, though `sensors/sensor.h:88` keeps data for 5 s: `sensors/sensor.cpp:81`
  does nothing for `SENSOR_NOT_CONNECTED` (`ConnectedDataIsFresh`).
* A sensor whose first answer is an error is reset at once and not after 15 s
  (`sensors/sensor.h:87`), as the watchdog's time out is still `nil_time`
  (`LaterResetsAfterSilence`).
* A line that is no command, read in the same call as a setting and behind it,
  overwrites `userDataUpdated` (`serial_control/serial_controller.cpp:26`); the setting
  is neither written nor followed by the reboot (`ChangeIsWrittenOrDropped`).
* A callback that prints while the loop it interrupted prints waits for a mutex
  of its own core for ever (`util/debug_io.h:39`); and core 1 may be frozen inside the
  control queue, or a print, before a message arrives that needs it, either before
  interrupts are disabled (`cores/core_0_executor.cpp:111`) or after they are restored
  (`userdata/user_data.cpp:116`) and before core 1 is let go
  (`cores/core_0_executor.cpp:113`). These are the disjuncts of `OnlyTwoDeadlocks`.
* Core 0 waits for ever after an error of `dns_gethostbyname` that it does not test
  (`network/network_controller.cpp:40`) or of `mqtt_client_connect`
  (`network/mqtt_controller.cpp:70`), whose time out never runs down; and halts in an
  assertion if WiFi comes up just after the first attempt gave up, when there
  is no client (`NeverEnds`).
* When an established connection ends, the callback writes to a monitor in a frame
  that `connectToBrokerBlocking` has left (`StrayOnlyAtTheEnd`). What it hits there
  is not modelled.
* A command that a sensor handled shows in what is published only once the sensor gives
  new data (`sensors/sensor.cpp:61`): one that gives none, as an SCD30 whose start was
  lost (see below), goes on with its last reading and then without any (`EffectIsPublished`).
* A payload of 128 bytes or more may be followed by the rest of an earlier one, as
  half the buffer is cleared (`CommandsAreWhole`).
* A reset of the SCD30 whose stop got through waits for data that never come, and
  with it the loop of core 1; a calibration whose start was lost leaves a sensor that
  stays silent and is never reset (`SCD30GivesData`, `StemmaGivesData`).
* A packet with a loss inside is told from a frame by an 8 bit checksum only, and
  may give a wrong distance (`PacketsAreFrames`).
* A calibration beyond 16 bits is set to what remains of it, and one of more than eight
  characters to the first eight; a temperature offset that is no binary fraction may
  come out a hundredth too low, as `1.15 * 100` is cut off
  (`sensors/sensor_types/scd30_sensor.cpp:105`, 261, `messaging/sensor_control_message.cpp:32`;
  `CalibrationIsWhatWasSent`).
* Core 1 may undo core 0's change of the WiFi LED, until core 0 makes it
  again (`IndicatorsSettle`).

## 5. What is proved

TLAPS proves 37 theorems that `PROJECT.json` lists, all but seven with the property of a run
that they state; between them they state every property of the passing runs that is not a
liveness property. They hold for every value of the constants that the assumption of the
module (`QueueAssumption`, `ModuleAssumption`, ...) admits, which TLC evaluates in every
run. Five theorems have a hypothesis besides:

| Theorem | Hypothesis | Why |
|---|---|---|
| `WritesAreWhole` | `PageSize` is a number | nothing else is needed there |
| `AllOrNothing` | `PageSize` does not divide `Size` | in the code 256 and 415 + 66 for each group, which is odd, in the run 8 and 19; where it does divide it, the loop programs one more page than has settings, and a power failure before that page leaves settings that are recognised though the write is not complete |
| `VoltageStays` | `TimesFit`: the battery's times fit each other | 300.52 s and two turns against 600 s |
| `RecentReports` | `AgeLimit` turns are more than the queue can last at a packet a turn | with the 8 bytes of the receiver, a limit of 4; in the run 4 bytes and 3 |
| `CalibrationsArrive` | `TextsMeanNumbers`: what `strtol` and `strtod` make of the texts is what they mean | both are recursive on the text; `MCSCD30Driver` assumes it of its texts, so that TLC evaluates it |

The provers have no induction over data: the theorems of the library that would give it take
an operator for a parameter. `FoldLemmas` gets what is needed of it by first-order means. The
folds of the community modules are `CHOOSE` definitions of functions on subsets; that such
a function exists is shown for the exceptions to a claim, which as a set of numbers or of
finite sets have a minimal element (`LeastElement`, `SubsetInduction`). On this rest
what a left fold does step by step, that a sum over a set does not depend on the order, and
splits (`SumUnion`), where the elements of a flattened sequence lie (`FlattenPlaces`), and what
writing one sequence over another leaves (`SpliceProperties`).

### The message queue (`CoreMessageQueueProofs`)

For every ring size, every set of writers and readers and every bound on the messages:
`TypeCorrect` and `PendingAreNewest`, the invariants that the run checks;
`MutexExcludes` and `IsFullIsExact`, that at most one thread is inside an operation and
that `isFull` holds exactly when every slot is pending; `Refinement`, that every
behaviour of the ring is one of the atomic `LossyQueue`; `DeliveryInOrder`.

The inductive invariant is `IInv`. Its first part, `TypeInv`, ties the program
counters to the mutex (only the owner is inside a call) and the cursors to
each other (both are -1 or neither is, but for the two steps in the middle
of which one lags behind). On it rest lemmas that say what a step does to the
*backlog*, the sequence of pending messages: `AdvanceRear` adds one, or leaves
one when the ring was full, `CopyOut` removes one, and all others leave it as it
is (`Silent`). `NewestPending` is not inductive by itself: that the message
being copied in has the number of the last one sent, that what a reader has copied
out is older than the whole backlog, and that the backlog is never longer than what
was sent are further conjuncts (`Carried`, `Consumed`, `Bounded`). For the refinement,
each of the two effective steps maps to `Put` or `Get`, `FindNothing` to
`GetNothing`, and the rest to stuttering.

### Both cores (`CoresProofs`)

For all queue sizes, numbers of groups, topics and bounds: `TypeCorrect`,
`NoCommandIsLost`, `TakenInOrder`, `NoEffectReverts`. One lemma says
what `Put` makes of a queue (`PutProperties`), and each property has its own invariant:

* A command is lost only if the queue overflowed, so `NoLossWithoutBurst` counts: what is
  pending arrived in this burst or before, and no burst is longer than the longest
  (`BurstCounts`).
* `FreshInOrder` needs the order within the queue, and that the i-th of n pending sweeps is
  at most n - i behind core 1 (`SweepsInOrder`); the numbers stop at `MaxSweeps`.
* `EffectsNeverRevert` follows a command's effect from the settings over the cache and
  the update queue to the broker. Any place may be without a reading, at any time, so that
  the order of neighbours would not carry over: the invariant relates every two places, and
  says that the later one shows no newer command than the earlier one unless that is
  without a reading (`EffectsInOrder`). Settings only grow since pending commands are in order
  (`CommandsInOrder`). A queue that is cleared by overflow keeps the order.

### A sensor and the battery (`SensorProofs`)

For all times, turns and possible outcomes. `DataIsFresh`, `NoEarlyDrop`
and `NoEarlyReset` are proved for `Spec` and for `SensorsSpec`, the latter through
`BatteryIsASensor`: each step of the battery sensor is one of a sensor. The invariant
`SensorInv` says that data that is there expires by its own age and that the watchdog,
once it runs, counts the silence (`AgesAgree`), and bounds the time since a turn
or a sleep began (`InTurn`); without the first the cache's expiry could be that of an
earlier reading. `VoltageReadInTime` needs how long the capacitor may have charged at
each stage of a turn (`Charging`): charging begins in one update and is over in the
first that finds the period passed. `VoltageStays` bounds the age of the cached voltage
in the same way over the whole cycle (`Aging`), and shows what the three constants and
the loop must have to do with each other (`TimesFit`): sample period, charging
period, a sleep and two turns together must not exceed the cache time, as 300.52 s and two
turns do not exceed 600 s.

### Locks, interrupts and the lock out (`CoresProofs`)

`FlashAlone` and `JustTwoDeadlocks`: with or without debug
output and settings (the contexts are the program's own three). Added to the
properties: a context that waits for a mutex or holds it is one that uses it
(`MutexIsUsed`), and each state of the lock out belongs to certain stages of core 0's
write (`WriteIsCore0s`). A
state in which nothing moves is then followed from who waits to who holds, until it
ends at the callbacks.

### The connection (`ControlMessageProofs`)

For every finite set of topics, size of the payload and of what is cleared of it, and
number of messages: `ServedIsSubscribed`, `NoAttemptIsOutlived`, `TypeCorrect`,
`CommandsArriveWhole`. `ConnectionInv` ties core 0's place in its blocking calls to
the connection (one is being made only while core 0 waits for it, none is there while
it looks for the broker, and while it subscribes each topic is done or still to do).
`BufferInv` says what the buffer holds half way through a message that fits: its topic,
its size, its units up to where the next fragment goes, and zeros from there to what
was cleared; and that it stays empty through one that does not fit.

### The sonar and the pod (`SensorTypesProofs`)

For every length of the queue: `TypeCorrect`, `OnlyFrames` and `RecentReports`. The invariant `InStep` says
that bytes between which nothing was lost follow on each other in their frame, in the
queue and from the queue to the wire, and what the next byte to be read may be:
the one that a frame in the buffer asks for; or, where the reader is out of step, one
that is ahead, so that the next header is met before the packet is full. `RecentInv`
bounds how long the byte that is followed waits: each turn but its first begins with an
empty packet, and so takes four bytes or empties the queue. So the last byte of a report
has waited one turn and a quarter of the queue at most, three turns with the receiver's eight
bytes.

Of the pod's sensors, for every watchdog time: `ActiveMeasures`. `ActiveIsMeasuring` is
inductive with the type of `mActive`, since each path to an active sensor ends with a
start.

### The shift register (`IndicatorRegisterProofs`)

For every number of bits: `CleanWritesShow`. While a core has been alone since its write
began, the chip's lowest bits are those of the memory from the top down to the bit it is at
(`ClockedOut`), by induction over the bits as the code's loop goes through them.

### The settings (`LayoutProofs`)

For every sequence of fields with their lengths, number of groups and page size.

* `ChangesReachFlash`: within a call of `updateUserData` memory agrees with the flash unless
  the change is noted or was dropped (`ChangeInv`).
* `WritesAreWhole`: after a write that was completed the flash is the image of the
  settings, wherever the power failed before and after (`WriteInv`: the pages programmed so
  far hold their part of it, and memory does not change meanwhile).
* `SettingsKeepTheirPlace`: no string, field or page is written beyond its memory
  (`UserDataTypeOK`). A string may be longer than its field, and then runs into the next
  one; that none reaches the key needs that none is longer than the broker's field.
* `AllOrNothing`: a boot finds what was saved last or nothing. The chain of lemmas is that
  the fields lie one behind the other (`FieldBytes`, by induction over the fields through
  the stages of the fold that writes them); that each is read back as it was written if it
  fits; that the key is behind all of them, so that an image with some pages missing, erased
  from there on, has no key. `FlashInv` says that the flash is always the first pages
  of one image: all of them and of what was saved last, or not all.

### The message between the cores (`LayoutProofs`)

`NoSensorWritesBeyond` and `FaithfulBehindData`, for any number of groups with any number of
sensors of any sizes, any readings and any number of sweeps. Each place in the array is a sum
of sizes over a set of sensors (`Measures`), for the writer over the sensors before in
the group and all groups before, for the reader over the sensors before as far as they have
data. `MessageInv` says that of a sensor whose predecessors all have data, what core 1
packed is at the place at which core 0 reads it (`Arrived`), which survives the later groups
because they write behind it. What `message_short` exhibits is the case without this premise.

### The SCD30's driver (`ControlMessageProofs`)

* `TransfersFindABus`, for all texts, noise, measurements and numbers of control messages.
  `BusInv` relates the bus to the calls that are still to be made: a bus is missing only
  if these are an initialization, or that after bouncing the power, and `hal_free`
  occurs in no list of calls but a reset's (`Scheduled`).
* `ChecksumsAgree`: the driver's shift register (`generate_crc`) computes, of every word, the
  remainder of the division of polynomials by which the sensor's checksum is defined. Both
  are shown to be linear, so that the eight bits of each byte decide.
* `AnswersSurviveNoise`: what a function of the driver returns as read is the sensor's answer
  to that very command, and it fails only if the transfer did (`AnswersAreExact`). Noise is any
  burst of up to eight bits in any word, which leaves a remainder that is not zero
  (`Syndrome`); that `read_data_inplace` moves the words to the front of the same buffer loses
  none (`Compacted`, round by round); and `AnswerInv` says that between a command and its
  answer nothing else is asked.
* `CalibrationsArrive`: a calibration changes in the transfer of the last control message's
  command and at no other time, to the number that was typed, and does so unless that
  transfer is disturbed. `CalibrationInv` says that a call that is still to be made and
  calibrates is the one that was typed last (`AsTyped`), since a method ends its calls before
  the next message is looked at; the sensor takes a word only with its checksum, which
  `ChecksumsAgree` and the argument about noise make the word that was sent.

### What is only model-checked

* Liveness, which needs fairness and ENABLED: `PendingCommandIsTaken`, `EffectIsPublished`,
  `FailingSensorIsReset`, `VoltageIsKept`, `LoopsKeepRunning`, `LoopReturns`, `SCD30GivesData`,
  `StemmaGivesData`, `IndicatorsSettle`; and the fairness in the refinement of
  `BatterySensor`.
* What `strtol` and `strtod` make of a text (`TextsMeanNumbers`), for the texts of the run.

The type invariants of `Sensor`, `BatterySensor`, `CoreLocks`, `PodSensors`, `SCD30Driver` and
`IndicatorRegister` are neither properties of a run nor theorems; of each the proofs carry
the part that they need in their own invariant.

## 6. Not modelled, and the plan

Not modelled because the program does not use it: the functions of the Sensirion
driver that nobody calls, the bit-banged I2C (not compiled), the watchdog of the I2C
interface. Not modelled because there is nothing to check: the dummy sensor, which
returns made up values at every update, the wording of the JSON, PCB files and
pictures. Not modelled because no property of it would hold or fail by the program's
logic: what a line beyond its buffer overwrites (`serial_control/serial_controller.cpp:31`)
and what a digit beyond the groups does (line 91) depend on the layout of objects and
on whether assertions are compiled in.

Planned next, in this order:

1. An abstract specification "one command per publish" for `NetworkConnection`'s
   buffer to implement.
2. `NetworkConnection` composed with `SensorModule` in place of its `Connect` and
   `LoseConnection`: `SensorModule`'s network as the abstraction.
3. `SCD30Driver` and `PodSensors` composed, so that a transfer that fails in the one is a
   transfer that fails in the other.
