------------------------- MODULE SensorDataMessage -------------------------
(***************************************************************************)
(* How one sweep's results travel between the cores: core 1 packs the      *)
(* cached status and data of every sensor into one flat array of bytes     *)
(* (SensorDataMessage::fillFromSensors, SensorGroup::packSensorData) and   *)
(* core 0 unpacks the array into one MQTT message per group                *)
(* (SensorDataMessage::toMQTT, SensorGroup::unpackSensorDataToJSON).       *)
(* The queue between the two copies the array byte for byte, see           *)
(* CoreMessageQueue.                                                       *)
(*                                                                         *)
(* A status, a length and a byte of data are all numbers, because a reader *)
(* at a wrong position takes one for the other.                            *)
(***************************************************************************)
EXTENDS Naturals, Sequences, FiniteSetsExt, SequencesExt

CONSTANTS
  Platforms,  \* the hardware platforms that are checked
  Samples     \* distinguishes two readings of one sensor

\* Sensor::SensorStatus
SENSOR_OK == 0
SENSOR_OK_NO_DATA == 1
SENSOR_NOT_CONNECTED == 2
SENSOR_INACTIVE == 3
SENSOR_MALFUNCTIONING == 4

(* A kind of sensor: its RAW_DATA_SIZE and what its doUpdate may return.   *)
SCD30 == [size |-> 12,
          statuses |-> {SENSOR_OK, SENSOR_OK_NO_DATA, SENSOR_INACTIVE, SENSOR_MALFUNCTIONING}]
Stemma == [size |-> 2,
           statuses |-> {SENSOR_OK, SENSOR_INACTIVE, SENSOR_MALFUNCTIONING}]
Battery == [size |-> 4,
            statuses |-> {SENSOR_OK, SENSOR_OK_NO_DATA}]
Sonar == [size |-> 2,
          statuses |-> {SENSOR_OK, SENSOR_OK_NO_DATA, SENSOR_NOT_CONNECTED, SENSOR_MALFUNCTIONING}]

(* The groups of the two hardware platforms with real sensors.             *)
SensorPod == << <<SCD30, Stemma>> >>
HIB == << <<Battery>>, <<Sonar>>, <<Sonar>> >>

(* A platform has groups, and a group may have any kinds of sensors.       *)
ASSUME SensorDataMessageAssumption ==
  /\ Platforms \subseteq Seq(Seq([size : Nat, statuses : SUBSET Nat])) \ {<<>>}
  /\ Samples \subseteq Nat

VARIABLES
  layout,      \* for each group, the kinds of its sensors; fixed when built
  phase,       \* "update", "fill", "unpack" or "sent"
  group,       \* the group that fillFromSensors or toMQTT has come to
  named,       \* the groups that hasTopics()
  cached,      \* mCachedData of every sensor
  mData,       \* mSensorUpdateWriteScratch.mData, as a sequence of bytes
  outbound     \* for each group, what its JSON says of each sensor

messageVars == <<layout, phase, group, named, cached, mData, outbound>>

Groups == DOMAIN layout

Sensors == {s \in Groups \X UNION {DOMAIN layout[g] : g \in Groups} :
              s[2] \in DOMAIN layout[s[1]]}

Before(s) == {t \in Sensors : t[1] = s[1] /\ t[2] < s[2]}

DataSize(s) == layout[s[1]][s[2]].size

(* Mutants of Framed: the length's byte is forgotten; the sensor type that *)
(* the comment in getRawDataSize speaks of gets a byte too.                *)
FramedByStatus(s) == DataSize(s) + 1

FramedWithType(s) == DataSize(s) + 3

(* What getRawDataSize of a group adds for the sensor s.                   *)
Framed(s) == DataSize(s) + 2

RawDataSize(g) == MapThenSumSet(Framed, {s \in Sensors : s[1] = g})

Offset(g) == MapThenSumSet(RawDataSize, 1..g-1)

Total == MapThenSumSet(LAMBDA s : DataSize(s) + 2, Sensors)

(* The bytes of a reading: no two sensors and no two samples have the same *)
(* ones, and none is a status or a length that occurs.                     *)
Reading(s, r) == [k \in 1..DataSize(s) |-> 100 * (10 * s[1] + s[2]) + 20 * r + k]

(* What Sensor::update leaves in mCachedData: data with SENSOR_OK, perhaps *)
(* older data with the statuses that keep it.                              *)
Cacheable(s) ==
  LET data == {Reading(s, r) : r \in Samples} IN
  {c \in [status : layout[s[1]][s[2]].statuses, data : data \union {<<>>}] :
    /\ c.status = SENSOR_OK => c.data # <<>>
    /\ c.status \in {SENSOR_INACTIVE, SENSOR_MALFUNCTIONING} => c.data = <<>>}

MessageInit ==
  /\ layout \in Platforms
  /\ phase = "update"
  /\ group = 1
  /\ named \in SUBSET Groups
  /\ cached = [s \in Sensors |-> [status |-> SENSOR_OK, data |-> <<>>]]
  /\ mData = [p \in 1..Total |-> 0]
  /\ outbound = [g \in Groups |-> <<>>]

(* Core 1 updates every sensor of every group.                             *)
Update ==
  /\ phase = "update"
  /\ cached' \in {c \in [Sensors -> UNION {Cacheable(s) : s \in Sensors}] :
                    \A s \in Sensors : c[s] \in Cacheable(s)}
  /\ phase' = "fill"
  /\ group' = 1
  /\ UNCHANGED <<layout, named, mData, outbound>>

(* Advance to the next group, or to the next phase behind the last one.    *)
NextGroup(next) ==
  IF group < Len(layout)
    THEN group' = group + 1 /\ UNCHANGED phase
    ELSE group' = 1 /\ phase' = next

(* What packSensorData writes for one sensor.                              *)
Packed(s) == <<cached[s].status, Len(cached[s].data)>> \o cached[s].data

(* packSensorData: the sensors of the group back to back from the group's  *)
(* place on.  The bytes behind them keep what an earlier sweep left there. *)
Fill ==
  /\ phase = "fill"
  /\ LET packed == FlattenSeq([i \in DOMAIN layout[group] |-> Packed(<<group, i>>)])
         end == Offset(group) + Len(packed) IN
     mData' = SubSeq(mData, 1, Offset(group)) \o packed \o SubSeq(mData, end + 1, Len(mData))
  /\ NextGroup("unpack")
  /\ UNCHANGED <<layout, named, cached, outbound>>

(* Where unpackSensorDataToJSON looks for the sensor s.                    *)
ReadStart(s) == Offset(s[1]) + MapThenSumSet(LAMBDA t : 2 + DataSize(t), Before(s))

(* What the JSON says of s.  The serializers read the whole reading, what- *)
(* ever the length is.                                                     *)
Unpacked(s) ==
  LET start == ReadStart(s) IN
  [status |-> mData[start + 1],
   data |-> IF mData[start + 2] # 0
              THEN SubSeq(mData, start + 3, start + 2 + DataSize(s))
              ELSE <<>>]

(* toMQTT for one group; <<>> stands for mReadyToSend = false.             *)
Unpack ==
  /\ phase = "unpack"
  /\ outbound' = [outbound EXCEPT ![group] =
                    IF group \in named
                      THEN [i \in DOMAIN layout[group] |-> Unpacked(<<group, i>>)]
                      ELSE <<>>]
  /\ NextGroup("sent")
  /\ UNCHANGED <<layout, named, cached, mData>>

(* The messages are published and core 1 begins the next sweep.            *)
Sent ==
  /\ phase = "sent"
  /\ phase' = "update"
  /\ UNCHANGED <<layout, group, named, cached, mData, outbound>>

MessageNext == Update \/ Fill \/ Unpack \/ Sent

MessageSpec == MessageInit /\ [][MessageNext]_messageVars

----------------------------------------------------------------------------
(* The array keeps its size: no sensor writes beyond what the hardware's   *)
(* TOTAL_RAW_DATA_SIZE reserves for the groups together.                   *)
MessageTypeOK ==
  /\ phase \in {"update", "fill", "unpack", "sent"}
  /\ group \in Groups
  /\ named \subseteq Groups
  /\ DOMAIN cached = Sensors
  /\ mData \in Seq(Nat) /\ Len(mData) = Total
  /\ DOMAIN outbound = Groups

(* What a message says of a sensor is what core 1 cached of it.            *)
Faithful(s) == s[1] \in named => outbound[s[1]][s[2]] = cached[s]

(* Every message that goes out says of each of its sensors what core 1     *)
(* cached in this sweep, whatever the other sensors of the group report,   *)
(* and whichever groups have no topic yet.                                 *)
RoundTrip == phase = "sent" => \A s \in Sensors : Faithful(s)

(* The same for the sensors whose predecessors in the group all have data, *)
(* so for every sensor that is alone or first in its group: a sensor with- *)
(* out data is the only thing that displaces the reader, and it does so    *)
(* within its group only.                                                  *)
RoundTripBehindData ==
  phase = "sent" =>
    \A s \in Sensors : (\A t \in Before(s) : cached[t].data # <<>>) => Faithful(s)

============================================================================
