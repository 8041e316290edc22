---------------------------- MODULE SonarSensor ----------------------------
(***************************************************************************)
(* A sonar of the HIB: the frames that it sends, the receiver with its     *)
(* queue of bytes (pio/uart_rx.pio) and SonarSensor::doUpdate, which takes *)
(* at most one packet from it in each turn of core 1's loop                *)
(* (sensors/sensor_types/sonar_sensor.cpp).                                *)
(*                                                                         *)
(* The sonar sends all the time, far more than is read.  When the queue is *)
(* full the receiver stalls with one more byte in hand, and what the sonar *)
(* sends then is lost; the receiver may resume in the middle of a byte.    *)
(* A frame is a header, two bytes of distance and a checksum.  Of a byte   *)
(* the model keeps its place in its frame; that it equals the header, as   *)
(* any byte of a frame may, is decided when it is read.  Of a packet it    *)
(* keeps whether it is a frame, in which case its checksum is right; that  *)
(* of any other may be right or wrong.  Bytes are lost, but not changed by *)
(* noise on the line.                                                      *)
(***************************************************************************)
EXTENDS Naturals, Sequences

CONSTANTS
  QueueLength,  \* depth of the receiver's queue, both halves joined
  AgeLimit      \* turns after which the age of a byte is no longer counted

ASSUME SonarAssumption == {QueueLength, AgeLimit} \subseteq Nat \ {0}

SONAR_SENSOR_PACKET_SIZE == 4

Places == 1..SONAR_SENSOR_PACKET_SIZE

VARIABLES
  plugged,            \* what the bit of the connection register says
  sent,               \* bytes that were sent of the present frame
  inStep,             \* the receiver has missed nothing since its last byte
  queue,              \* the bytes not read yet, a stalled one included
  updating,           \* core 1 is in doUpdate's loop
  mPacketBuffer,      \* a frame so far, with a loss within, or neither
  mCurrentBufferPos,
  followed,           \* history: the place in the queue of one byte, or 0,
  age                 \* and the turns in a row with a sonar that it waited

vars == <<plugged, sent, inStep, queue, updating, mPacketBuffer,
          mCurrentBufferPos, followed, age>>

core1Vars == <<updating, mPacketBuffer, mCurrentBufferPos>>

(* A byte that the receiver took, and whether others before it were lost.  *)
Byte == [place : Places, gap : BOOLEAN]

(* What the receiver takes for a byte though it is none counts as one from *)
(* the middle of a frame, between two losses.                              *)
Garbage == 2

Init ==
  /\ plugged \in BOOLEAN
  /\ sent = 0
  /\ inStep = FALSE
  /\ queue = <<>>
  /\ updating = FALSE
  /\ mPacketBuffer = "frame"
  /\ mCurrentBufferPos = 0
  /\ followed = 0
  /\ age = 0

----------------------------------------------------------------------------
(* The wire.                                                               *)
SendByte ==
  /\ plugged
  /\ sent' = (sent + 1) % SONAR_SENSOR_PACKET_SIZE
  /\ UNCHANGED <<plugged, core1Vars>>

(* The age of any byte may be followed, of one at a time.                  *)
Push(place) ==
  /\ queue' = Append(queue, [place |-> place, gap |-> ~inStep])
  /\ \/ UNCHANGED <<followed, age>>
     \/ followed = 0 /\ followed' = Len(queue') /\ age' = 0

(* The queue takes one more byte, or the receiver keeps it in hand.        *)
HasRoom == Len(queue) <= QueueLength

(* A byte arrives as it was sent.                                          *)
ReceiveByte ==
  /\ HasRoom
  /\ SendByte
  /\ Push(sent + 1)
  /\ inStep' = TRUE

(* The receiver resumed in the middle of a byte and takes what it sees for *)
(* another one.                                                            *)
ReceiveGarbage ==
  /\ HasRoom
  /\ ~inStep
  /\ SendByte
  /\ Push(Garbage)
  /\ UNCHANGED inStep

(* The receiver is stalled, or drops a byte without a proper stop bit.     *)
LoseByte ==
  /\ HasRoom => ~inStep
  /\ SendByte
  /\ inStep' = FALSE
  /\ UNCHANGED <<queue, followed, age>>

(* The sonar is connected or disconnected, between two bytes; it begins    *)
(* with a new frame.                                                       *)
Plug ==
  /\ plugged' = ~plugged
  /\ sent' = 0
  /\ inStep' = FALSE
  /\ UNCHANGED <<queue, core1Vars, followed, age>>

----------------------------------------------------------------------------
(* Core 1.                                                                 *)

(* The next turn: doUpdate reads the connection register, and goes no      *)
(* further without a sonar.                                                *)
BeginUpdate ==
  /\ ~updating
  /\ updating' = plugged
  /\ age' = IF followed = 0 \/ ~plugged THEN 0
            ELSE IF age < AgeLimit THEN age + 1 ELSE age
  /\ UNCHANGED <<plugged, sent, inStep, queue, mPacketBuffer,
                 mCurrentBufferPos, followed>>

(* Whether a byte is like the header.                                      *)
HeaderLike(byte) == IF byte.place = 1 THEN {TRUE} ELSE BOOLEAN

(* A mutant of Position: a byte like the header does not begin a packet.   *)
PositionInOrder(header) == mCurrentBufferPos

(* Where a byte goes that is, or is not, like the header.                  *)
Position(header) == IF header THEN 0 ELSE mCurrentBufferPos

(* What is in the packet buffer with a byte at the position.               *)
WithByte(position, byte) ==
  IF position > 0 /\ (byte.gap \/ mPacketBuffer = "gapped") THEN "gapped"
  ELSE IF byte.place = position + 1 /\ (position > 0 => mPacketBuffer = "frame")
    THEN "frame"
  ELSE "misaligned"

(* The first byte leaves the queue.                                        *)
Pop == /\ queue' = Tail(queue)
       /\ followed' = IF followed = 0 THEN 0 ELSE followed - 1
       /\ UNCHANGED age

(* A packet is complete, and doUpdate returns.                             *)
Full(position) == position + 1 >= SONAR_SENSOR_PACKET_SIZE

(* A mutant of ReadByte: one byte is read in each turn.                    *)
ReadOneByte ==
  /\ updating
  /\ queue # <<>>
  /\ \E header \in HeaderLike(Head(queue)) :
       /\ mPacketBuffer' = WithByte(Position(header), Head(queue))
       /\ mCurrentBufferPos' = IF Full(Position(header)) THEN 0
                               ELSE Position(header) + 1
       /\ updating' = FALSE
  /\ Pop
  /\ UNCHANGED <<plugged, sent, inStep>>

(* One round of doUpdate's loop.  A full packet ends it; reset(), which    *)
(* may follow a bad one, finds the position at 0 already.                  *)
ReadByte ==
  /\ updating
  /\ queue # <<>>
  /\ \E header \in HeaderLike(Head(queue)) :
       /\ mPacketBuffer' = WithByte(Position(header), Head(queue))
       /\ mCurrentBufferPos' = IF Full(Position(header)) THEN 0
                               ELSE Position(header) + 1
       /\ updating' = ~Full(Position(header))
  /\ Pop
  /\ UNCHANGED <<plugged, sent, inStep>>

(* The queue is empty.                                                     *)
EndUpdate ==
  /\ updating
  /\ queue = <<>>
  /\ updating' = FALSE
  /\ UNCHANGED <<plugged, sent, inStep, queue, mPacketBuffer,
                 mCurrentBufferPos, followed, age>>

Sonar == ReceiveByte \/ ReceiveGarbage \/ LoseByte \/ Plug

DoUpdate == BeginUpdate \/ ReadByte \/ EndUpdate

Next == Sonar \/ DoUpdate

Spec == Init /\ [][Next]_vars

----------------------------------------------------------------------------
TypeOK ==
  /\ plugged \in BOOLEAN /\ inStep \in BOOLEAN /\ updating \in BOOLEAN
  /\ sent \in 0..SONAR_SENSOR_PACKET_SIZE - 1
  /\ queue \in Seq(Byte) /\ Len(queue) <= QueueLength + 1
  /\ mPacketBuffer \in {"frame", "gapped", "misaligned"}
  /\ mCurrentBufferPos \in 0..SONAR_SENSOR_PACKET_SIZE - 1
  /\ followed \in 0..Len(queue)
  /\ age \in 0..AgeLimit

(* This step completes a packet.                                           *)
Completes == ReadByte /\ mCurrentBufferPos' = 0

(* The reader is in step with the frames, whatever it missed before and    *)
(* wherever bytes like the header turn up: four bytes in a row that it     *)
(* takes for a packet are a frame.  So a checksum error, and a wrong       *)
(* distance that the checksum lets pass, need a loss within the very       *)
(* packet (sonar_sensor.cpp:96-128).                                       *)
PacketsAreFrames == [][Completes => mPacketBuffer' # "misaligned"]_vars

(* While a sonar is connected, the last byte of a reported packet waited   *)
(* for a few turns at most, though most of what the sonar sends is lost,   *)
(* the queue is hardly ever empty, and keeps what it holds while the sonar *)
(* is disconnected (sonar_sensor.cpp:85-131).                              *)
ReportsAreRecent == [][Completes /\ followed = 1 => age < AgeLimit]_vars

============================================================================
