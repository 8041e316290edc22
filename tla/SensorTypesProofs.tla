------------------------- MODULE SensorTypesProofs -------------------------
(***************************************************************************)
(* Theorems about two components that have no variable in common: the      *)
(* sonar (SonarSensor), for a receiver's queue of any depth, and the two   *)
(* sensors of the pod (PodSensors), for a watchdog of any length.          *)
(***************************************************************************)
EXTENDS SonarSensor, PodSensors, SequenceTheorems, TLAPS

(* The sonar.  The reader is in step with the frames.                      *)

LEMMA Limits == QueueLength \in Nat \ {0} /\ AgeLimit \in Nat \ {0}
BY SonarAssumption

LEMMA ByteTypes ==
  ASSUME NEW b \in Byte
  PROVE  b.place \in 1..4 /\ b.gap \in BOOLEAN
BY DEF Byte, Places, SONAR_SENSOR_PACKET_SIZE

(* The place after another one, and the number of bytes sent then.         *)
LEMMA Modulo ==
  /\ \A p \in 1..4 : p % 4 = IF p = 4 THEN 0 ELSE p
  /\ \A n \in 0..3 : (n + 1) % 4 = IF n = 3 THEN 0 ELSE n + 1
OBVIOUS

----------------------------------------------------------------------------
LEMMA TypeInit == Init => TypeOK
<1> SUFFICES ASSUME Init PROVE TypeOK
  OBVIOUS
<1>1. plugged \in BOOLEAN /\ inStep \in BOOLEAN /\ updating \in BOOLEAN
  BY DEF Init
<1>2. queue \in Seq(Byte) /\ Len(queue) = 0
  BY DEF Init
<1>3. QED
  BY <1>1, <1>2, Limits DEF Init, TypeOK, SONAR_SENSOR_PACKET_SIZE

LEMMA PushTypes ==
  ASSUME TypeOK, NEW place \in Places, Push(place), HasRoom
  PROVE  /\ queue' \in Seq(Byte) /\ Len(queue') <= QueueLength + 1
         /\ Len(queue') = Len(queue) + 1
         /\ queue'[Len(queue) + 1] = [place |-> place, gap |-> ~inStep]
         /\ \A i \in 1..Len(queue) : queue'[i] = queue[i]
         /\ followed' \in 0..Len(queue') /\ age' \in 0..AgeLimit
<1> DEFINE b == [place |-> place, gap |-> ~inStep]
<1>1. b \in Byte
  BY DEF Byte, TypeOK
<1>2. queue \in Seq(Byte) /\ queue' = Append(queue, b) /\ Len(queue) <= QueueLength
  BY DEF TypeOK, Push, HasRoom
<1> HIDE DEF b
<1>3. /\ queue' \in Seq(Byte)
      /\ Len(queue') = Len(queue) + 1
      /\ queue'[Len(queue) + 1] = b
      /\ \A i \in 1..Len(queue) : queue'[i] = queue[i]
  BY <1>1, <1>2, AppendProperties
<1>4. followed \in 0..Len(queue) /\ age \in 0..AgeLimit
      /\ \/ followed' = followed /\ age' = age
         \/ followed' = Len(queue') /\ age' = 0
  BY DEF TypeOK, Push
<1>5. followed' \in 0..Len(queue') /\ age' \in 0..AgeLimit
  BY <1>2, <1>3, <1>4, Limits
<1>6. QED
  BY <1>2, <1>3, <1>5, Limits DEF b

LEMMA PopTypes ==
  ASSUME TypeOK, Pop, queue # << >>
  PROVE  /\ queue' \in Seq(Byte) /\ Len(queue') <= QueueLength + 1
         /\ Len(queue) \in Nat \ {0} /\ Len(queue') = Len(queue) - 1
         /\ Head(queue) = queue[1] /\ queue[1] \in Byte
         /\ \A i \in 1..Len(queue) - 1 : queue'[i] = queue[i + 1]
         /\ followed' \in 0..Len(queue') /\ age' = age
<1>1. /\ queue \in Seq(Byte) /\ queue' = Tail(queue)
      /\ Len(queue) <= QueueLength + 1
      /\ followed \in 0..Len(queue)
      /\ followed' = IF followed = 0 THEN 0 ELSE followed - 1
      /\ age' = age
  BY DEF TypeOK, Pop
<1>2. /\ queue' \in Seq(Byte)
      /\ Len(queue) \in Nat \ {0} /\ Len(queue') = Len(queue) - 1
      /\ Head(queue) = queue[1] /\ queue[1] \in Byte
      /\ \A i \in 1..Len(queue) - 1 : queue'[i] = queue[i + 1]
  BY <1>1, HeadTailProperties
<1>3. QED
  BY <1>1, <1>2, Limits

LEMMA TypeStep == TypeOK /\ [Next]_vars => TypeOK'
<1> SUFFICES ASSUME TypeOK, [Next]_vars PROVE TypeOK'
  OBVIOUS
<1> USE DEF SONAR_SENSOR_PACKET_SIZE
<1>0. ASSUME SendByte
      PROVE  sent' \in 0..3 /\ UNCHANGED <<plugged, core1Vars>>
  BY <1>0, Modulo DEF SendByte, TypeOK
<1>1. CASE ReceiveByte
  <2>1. sent + 1 \in Places /\ Push(sent + 1) /\ HasRoom /\ SendByte
        /\ inStep' = TRUE
    BY <1>1 DEF ReceiveByte, TypeOK, Places
  <2>2. /\ queue' \in Seq(Byte) /\ Len(queue') <= QueueLength + 1
        /\ followed' \in 0..Len(queue') /\ age' \in 0..AgeLimit
    BY <2>1, PushTypes
  <2>3. QED
    BY <1>0, <2>1, <2>2 DEF TypeOK, core1Vars
<1>2. CASE ReceiveGarbage
  <2>1. Garbage \in Places /\ Push(Garbage) /\ HasRoom /\ SendByte
        /\ inStep' = inStep
    BY <1>2 DEF ReceiveGarbage, Garbage, Places
  <2>2. /\ queue' \in Seq(Byte) /\ Len(queue') <= QueueLength + 1
        /\ followed' \in 0..Len(queue') /\ age' \in 0..AgeLimit
    BY <2>1, PushTypes
  <2>3. QED
    BY <1>0, <2>1, <2>2 DEF TypeOK, core1Vars
<1>3. CASE LoseByte
  <2>1. sent' \in 0..3 /\ inStep' \in BOOLEAN
        /\ UNCHANGED <<plugged, core1Vars, queue, followed, age>>
    BY <1>0, <1>3 DEF LoseByte
  <2>2. QED
    BY <2>1 DEF TypeOK, core1Vars
<1>4. CASE Plug
  <2>1. plugged' \in BOOLEAN /\ inStep' \in BOOLEAN /\ sent' = 0
        /\ UNCHANGED <<queue, core1Vars, followed, age>>
    BY <1>4 DEF Plug
  <2>2. QED
    BY <2>1 DEF TypeOK, core1Vars
<1>5. CASE BeginUpdate
  <2>1. age' \in 0..AgeLimit
    BY <1>5, Limits DEF BeginUpdate, TypeOK
  <2>2. QED
    BY <1>5, <2>1 DEF BeginUpdate, TypeOK
<1>6. CASE ReadByte
  <2>1. Pop /\ queue # << >> /\ UNCHANGED <<plugged, sent, inStep>>
    BY <1>6 DEF ReadByte
  <2>2. /\ queue' \in Seq(Byte) /\ Len(queue') <= QueueLength + 1
        /\ followed' \in 0..Len(queue') /\ age' \in 0..AgeLimit
    BY <2>1, PopTypes DEF TypeOK
  <2>3. PICK header \in BOOLEAN :
          /\ mPacketBuffer' = WithByte(Position(header), Head(queue))
          /\ mCurrentBufferPos' = IF Full(Position(header)) THEN 0
                                  ELSE Position(header) + 1
          /\ updating' = ~Full(Position(header))
    BY <1>6 DEF ReadByte, HeaderLike
  <2>4. Position(header) \in 0..3
    BY DEF Position, TypeOK
  <2>5. mCurrentBufferPos' \in 0..3
    BY <2>3, <2>4 DEF Full
  <2>6. mPacketBuffer' \in {"frame", "gapped", "misaligned"}
    BY <2>3 DEF WithByte
  <2>7. updating' \in BOOLEAN
    BY <2>3
  <2>8. QED
    BY <2>1, <2>2, <2>5, <2>6, <2>7 DEF TypeOK
<1>7. CASE EndUpdate
  BY <1>7 DEF EndUpdate, TypeOK
<1>8. CASE UNCHANGED vars
  BY <1>8 DEF vars, TypeOK, core1Vars
<1>9. QED
  BY <1>1, <1>2, <1>3, <1>4, <1>5, <1>6, <1>7, <1>8 DEF Next, Sonar, DoUpdate

(* The queue never holds more than its depth and the byte in hand, and the *)
(* position stays within the packet.                                       *)
THEOREM TypeCorrect == Spec => []TypeOK
BY TypeInit, TypeStep, PTL DEF Spec

----------------------------------------------------------------------------
(* Bytes between which nothing was lost have places that follow on each    *)
(* other, in the queue and from the queue to the wire; and such a byte,    *)
(* where it is the next to be read, has the place that the packet buffer   *)
(* asks for: with a frame begun, the one at the position; with bytes that  *)
(* are out of step with their position, a place ahead of it, so that the   *)
(* header comes before the packet is full.                                 *)
FollowsBuffer(place) ==
  mCurrentBufferPos > 0 =>
    /\ mPacketBuffer = "frame" => place = mCurrentBufferPos + 1
    /\ mPacketBuffer = "misaligned" => place = 1 \/ place >= mCurrentBufferPos + 2

InStep ==
  /\ \A i \in 1..Len(queue) - 1 :
       ~queue[i + 1].gap => queue[i + 1].place = (queue[i].place % 4) + 1
  /\ inStep /\ Len(queue) > 0 => sent = queue[Len(queue)].place % 4
  /\ Len(queue) > 0 /\ ~queue[1].gap => FollowsBuffer(queue[1].place)
  /\ Len(queue) = 0 /\ inStep => FollowsBuffer(sent + 1)

LEMMA InStepInit == Init => InStep
BY DEF Init, InStep

(* What reading a byte makes of the buffer.                                *)
LEMMA ReadEffect ==
  ASSUME TypeOK, InStep, ReadByte,
         NEW next \in Nat, next = (queue[1].place % 4) + 1
  PROVE  /\ FollowsBuffer(next)'
         /\ mCurrentBufferPos' = 0 => mPacketBuffer' # "misaligned"
<1> DEFINE b == queue[1]
<1>1. /\ Head(queue) = b /\ b.place \in 1..4 /\ b.gap \in BOOLEAN
      /\ Len(queue) > 0
      /\ mCurrentBufferPos \in 0..3
      /\ mPacketBuffer \in {"frame", "gapped", "misaligned"}
      /\ ~b.gap => FollowsBuffer(b.place)
  <2>1. Pop /\ queue # << >>
    BY DEF ReadByte
  <2>2. Head(queue) = b /\ b \in Byte /\ Len(queue) \in Nat \ {0}
    BY <2>1, PopTypes
  <2>3. QED
    BY <2>2, ByteTypes DEF TypeOK, InStep, SONAR_SENSOR_PACKET_SIZE
<1>2. PICK header \in BOOLEAN :
        /\ b.place = 1 => header
        /\ mPacketBuffer' = WithByte(Position(header), b)
        /\ mCurrentBufferPos' = IF Full(Position(header)) THEN 0
                                ELSE Position(header) + 1
  BY <1>1 DEF ReadByte, HeaderLike
<1> DEFINE place == b.place
           gap == b.gap
           pos == mCurrentBufferPos
<1>3. next = IF place = 4 THEN 1 ELSE place + 1
  BY <1>1, Modulo
<1> HIDE DEF b
<1>4. CASE Position(header) = 0
  <2>1. /\ mPacketBuffer' = IF place = 1 THEN "frame" ELSE "misaligned"
        /\ mCurrentBufferPos' = 1
    BY <1>1, <1>2, <1>4 DEF WithByte, Full, SONAR_SENSOR_PACKET_SIZE
  <2>2. QED
    BY <1>1, <1>3, <2>1 DEF FollowsBuffer
<1>5. CASE Position(header) # 0
  <2>1. Position(header) = pos /\ pos \in 1..3 /\ place # 1
    BY <1>1, <1>2, <1>5 DEF Position
  <2>2. mCurrentBufferPos' = IF pos = 3 THEN 0 ELSE pos + 1
    BY <1>2, <2>1 DEF Full, SONAR_SENSOR_PACKET_SIZE
  <2>3. CASE gap \/ mPacketBuffer = "gapped"
    <3>1. mPacketBuffer' = "gapped"
      BY <1>2, <2>1, <2>3 DEF WithByte
    <3>2. QED
      BY <3>1 DEF FollowsBuffer
  <2>4. CASE ~gap /\ mPacketBuffer = "frame"
    <3>1. place = pos + 1
      BY <1>1, <2>1, <2>4 DEF FollowsBuffer
    <3>2. mPacketBuffer' = "frame"
      BY <1>2, <2>1, <2>4, <3>1 DEF WithByte
    <3>3. QED
      BY <1>3, <2>1, <2>2, <3>1, <3>2 DEF FollowsBuffer
  <2>5. CASE ~gap /\ mPacketBuffer = "misaligned"
    <3>1. place >= pos + 2
      BY <1>1, <2>1, <2>5 DEF FollowsBuffer
    <3>2. pos # 3
      BY <1>1, <2>1, <3>1
    <3>3. mPacketBuffer' = "misaligned"
      BY <1>1, <1>2, <2>1, <2>5, <3>1 DEF WithByte
    <3>4. mCurrentBufferPos' = pos + 1 /\ (next = 1 \/ next >= pos + 1 + 2)
      BY <1>1, <1>3, <2>1, <2>2, <3>1, <3>2
    <3>5. mCurrentBufferPos' # 0
      BY <2>1, <3>4
    <3>6. QED
      BY <3>3, <3>4, <3>5 DEF FollowsBuffer
  <2>6. QED
    BY <1>1, <2>3, <2>4, <2>5
<1>6. QED
  BY <1>4, <1>5

LEMMA PushKeepsStep ==
  ASSUME TypeOK, InStep, NEW place \in Places, Push(place), HasRoom,
         inStep => place = sent + 1,
         inStep' => sent' = place % 4,
         UNCHANGED core1Vars
  PROVE  InStep'
<1>1. /\ Len(queue') = Len(queue) + 1 /\ Len(queue) \in Nat
      /\ queue'[Len(queue) + 1] = [place |-> place, gap |-> ~inStep]
      /\ \A i \in 1..Len(queue) : queue'[i] = queue[i]
  BY PushTypes DEF TypeOK
<1>2. /\ queue'[Len(queue) + 1].place = place
      /\ ~queue'[Len(queue) + 1].gap => inStep /\ place = sent + 1
  <2>1. queue'[Len(queue) + 1].place = place
    BY <1>1
  <2>2. queue'[Len(queue) + 1].gap = ~inStep
    BY <1>1
  <2>3. ~queue'[Len(queue) + 1].gap => inStep
    BY <2>2, Zenon
  <2>4. QED
    BY <2>1, <2>3
<1>3. ASSUME NEW i \in 1..Len(queue') - 1, ~queue'[i + 1].gap
      PROVE  queue'[i + 1].place = (queue'[i].place % 4) + 1
  <2>1. CASE i = Len(queue)
    <3>1. inStep /\ queue'[i + 1].place = sent + 1 /\ queue'[i] = queue[i]
      BY <1>1, <1>2, <1>3, <2>1
    <3>2. sent = queue[i].place % 4
      BY <2>1, <3>1 DEF InStep
    <3>3. QED
      BY <3>1, <3>2
  <2>2. CASE i # Len(queue)
    <3>1. i \in 1..Len(queue) - 1 /\ i + 1 \in 1..Len(queue)
      BY <1>1, <2>2
    <3>2. queue'[i] = queue[i] /\ queue'[i + 1] = queue[i + 1]
      BY <1>1, <3>1
    <3>3. QED
      BY <1>3, <3>1, <3>2 DEF InStep
  <2>3. QED
    BY <2>1, <2>2
<1>4. Len(queue') > 0 /\ (inStep' => sent' = queue'[Len(queue')].place % 4)
  BY <1>1, <1>2
<1>5. ASSUME ~queue'[1].gap
      PROVE  FollowsBuffer(queue'[1].place)
  <2>1. CASE Len(queue) = 0
    <3>1. Len(queue) + 1 = 1
      BY <2>1
    <3>2. inStep /\ queue'[1].place = sent + 1
      BY <1>2, <1>5, <3>1
    <3>3. QED
      BY <2>1, <3>2 DEF InStep
  <2>2. CASE Len(queue) # 0
    <3>1. Len(queue) > 0 /\ queue'[1] = queue[1]
      BY <1>1, <2>2
    <3>2. QED
      BY <1>5, <3>1 DEF InStep
  <2>3. QED
    BY <2>1, <2>2
<1>6. ~(Len(queue') = 0)
  BY <1>1
<1>7. QED
  BY <1>3, <1>4, <1>5, <1>6 DEF InStep, FollowsBuffer, core1Vars

LEMMA ReadKeepsStep ==
  ASSUME TypeOK, InStep, ReadByte
  PROVE  InStep'
<1>1. /\ queue # << >> /\ Pop /\ UNCHANGED <<sent, inStep>>
  BY DEF ReadByte
<1>2. /\ Len(queue) \in Nat \ {0} /\ Len(queue') = Len(queue) - 1
      /\ queue[1] \in Byte
      /\ \A i \in 1..Len(queue) - 1 : queue'[i] = queue[i + 1]
  BY <1>1, PopTypes
<1> DEFINE next == (queue[1].place % 4) + 1
<1>3. next \in Nat
  BY <1>2, ByteTypes, Modulo
<1>4. ASSUME NEW n \in Nat, n = next
      PROVE  FollowsBuffer(n)'
  BY <1>4, ReadEffect
<1>5. ASSUME NEW i \in 1..Len(queue') - 1, ~queue'[i + 1].gap
      PROVE  queue'[i + 1].place = (queue'[i].place % 4) + 1
  <2>1. /\ i + 1 \in 1..Len(queue) - 1
        /\ queue'[i] = queue[i + 1] /\ queue'[i + 1] = queue[(i + 1) + 1]
    BY <1>2
  <2>2. QED
    BY <1>5, <2>1 DEF InStep
<1>6. ASSUME inStep', Len(queue') > 0
      PROVE  sent' = queue'[Len(queue')].place % 4
  <2>1. Len(queue') \in 1..Len(queue) - 1 /\ Len(queue') + 1 = Len(queue)
    BY <1>2, <1>6
  <2>2. queue'[Len(queue')] = queue[Len(queue)]
    BY <1>2, <2>1
  <2>3. QED
    BY <1>1, <1>2, <1>6, <2>2 DEF InStep
<1>7. ASSUME Len(queue') > 0, ~queue'[1].gap
      PROVE  FollowsBuffer(queue[1].place)'
  <2>1. 1 \in 1..Len(queue) - 1 /\ queue'[1] = queue[1 + 1]
    BY <1>2, <1>7
  <2>2. queue'[1].place = next
    BY <1>7, <2>1 DEF InStep
  <2>3. QED
    BY <1>3, <1>4, <2>2 DEF FollowsBuffer
<1>8. ASSUME Len(queue') = 0, inStep'
      PROVE  FollowsBuffer(sent + 1)'
  <2>1. Len(queue) = 1
    BY <1>2, <1>8
  <2>2. sent = queue[1].place % 4
    BY <1>1, <1>8, <2>1 DEF InStep
  <2>3. sent' + 1 = next
    BY <1>1, <2>2
  <2>4. QED
    BY <1>3, <1>4, <2>3 DEF FollowsBuffer
<1>9. QED
  BY <1>5, <1>6, <1>7, <1>8 DEF InStep, FollowsBuffer

LEMMA InStepStep ==
  ASSUME TypeOK, InStep, [Next]_vars
  PROVE  InStep'
<1>1. CASE ReceiveByte
  <2>1. /\ Push(sent + 1) /\ HasRoom /\ UNCHANGED core1Vars
        /\ sent' = (sent + 1) % 4 /\ sent + 1 \in Places
    BY <1>1
       DEF ReceiveByte, SendByte, TypeOK, Places, SONAR_SENSOR_PACKET_SIZE
  <2>2. QED
    BY <2>1, PushKeepsStep
<1>2. CASE ReceiveGarbage
  <2>1. /\ Push(Garbage) /\ HasRoom /\ ~inStep /\ ~inStep'
        /\ UNCHANGED core1Vars /\ Garbage \in Places
    BY <1>2
       DEF ReceiveGarbage, SendByte, Garbage, Places, SONAR_SENSOR_PACKET_SIZE
  <2>2. QED
    BY <2>1, PushKeepsStep
<1>3. CASE LoseByte \/ Plug
  <2>1. ~inStep' /\ UNCHANGED <<queue, core1Vars>>
    BY <1>3 DEF LoseByte, Plug, SendByte
  <2>2. QED
    BY <2>1 DEF InStep, FollowsBuffer, core1Vars
<1>4. CASE ReadByte
  BY <1>4, ReadKeepsStep
<1>5. CASE BeginUpdate \/ EndUpdate \/ UNCHANGED vars
  <2>1. UNCHANGED <<sent, inStep, queue, mPacketBuffer, mCurrentBufferPos>>
    BY <1>5 DEF BeginUpdate, EndUpdate, vars
  <2>2. QED
    BY <2>1 DEF InStep, FollowsBuffer
<1>6. QED
  BY <1>1, <1>2, <1>3, <1>4, <1>5 DEF Next, Sonar, DoUpdate

(* Four bytes in a row that the reader takes for a packet are a frame,     *)
(* unless something was lost between them (sonar_sensor.cpp:96-128).       *)
THEOREM OnlyFrames == Spec => PacketsAreFrames
<1>1. ASSUME TypeOK, InStep, Completes
      PROVE  mPacketBuffer' # "misaligned"
  <2>1. ReadByte /\ mCurrentBufferPos' = 0
    BY <1>1 DEF Completes
  <2>2. queue[1] \in Byte
    BY <1>1, <2>1, PopTypes DEF ReadByte
  <2>3. (queue[1].place % 4) + 1 \in Nat
    BY <2>2, ByteTypes, Modulo
  <2>4. QED
    BY <1>1, <2>1, <2>3, ReadEffect
<1>2. QED
  BY <1>1, TypeInit, TypeStep, InStepInit, InStepStep, PTL
     DEF Spec, PacketsAreFrames

----------------------------------------------------------------------------
(* How far the byte that is followed has come in its turns: each of them   *)
(* but the first begins with a new packet, and takes four bytes if it does *)
(* not empty the queue.                                                    *)
RecentInv ==
  /\ TypeOK
  /\ followed > 0 /\ age > 0 =>
       IF updating
         THEN age > 1 => followed + mCurrentBufferPos + 4 * age <= QueueLength + 8
         ELSE /\ mCurrentBufferPos = 0
              /\ followed + 4 * age <= QueueLength + 4

(* What TypeOK says of the byte that is followed.                          *)
LEMMA FollowedTypes ==
  ASSUME TypeOK
  PROVE  /\ followed \in Nat /\ followed <= QueueLength + 1
         /\ age \in Nat /\ age <= AgeLimit
         /\ mCurrentBufferPos \in 0..3 /\ updating \in BOOLEAN
         /\ queue = <<>> => followed = 0
<1>1. queue \in Seq(Byte) /\ Len(queue) <= QueueLength + 1
      /\ followed \in 0..Len(queue) /\ age \in 0..AgeLimit
  BY DEF TypeOK
<1>2. Len(queue) \in Nat /\ (queue = <<>> => Len(queue) = 0)
  BY <1>1, LenProperties
<1> QED
  BY <1>1, <1>2, Limits DEF TypeOK, SONAR_SENSOR_PACKET_SIZE

(* At first no byte is followed.                                           *)
LEMMA RecentInit == Init => RecentInv
<1> SUFFICES ASSUME Init PROVE RecentInv
  OBVIOUS
<1>1. TypeOK /\ followed = 0
  BY TypeInit DEF Init
<1> QED
  BY <1>1 DEF RecentInv

(* A byte that is read: the packet that it is in begins with it or before. *)
LEMMA ReadMovesOn ==
  ASSUME ReadByte, TypeOK
  PROVE  /\ updating /\ age' = age
         /\ followed' = IF followed = 0 THEN 0 ELSE followed - 1
         /\ \/ ~updating' /\ mCurrentBufferPos = 3 /\ mCurrentBufferPos' = 0
            \/ /\ updating' /\ mCurrentBufferPos' > 0
               /\ mCurrentBufferPos' <= mCurrentBufferPos + 1
<1>1. PICK header \in BOOLEAN :
        /\ mCurrentBufferPos' = IF Full(Position(header)) THEN 0
                                ELSE Position(header) + 1
        /\ updating' = ~Full(Position(header))
  BY DEF ReadByte, HeaderLike
<1>2. mCurrentBufferPos \in 0..3
  BY FollowedTypes
<1>3. Position(header) = 0 \/ Position(header) = mCurrentBufferPos
  BY DEF Position
<1>4. Full(Position(header)) <=> Position(header) = 3
  BY <1>2, <1>3 DEF Full, SONAR_SENSOR_PACKET_SIZE
<1>5. /\ updating /\ age' = age
      /\ followed' = IF followed = 0 THEN 0 ELSE followed - 1
  BY DEF ReadByte, Pop
<1> DEFINE position == Position(header)
<1>6. position = 0 \/ position = mCurrentBufferPos
  BY <1>3
<1>7. /\ mCurrentBufferPos' = IF position = 3 THEN 0 ELSE position + 1
      /\ updating' <=> position # 3
  BY <1>1, <1>4
<1> HIDE DEF position
<1>8. CASE position = 3
  BY <1>2, <1>5, <1>6, <1>7, <1>8
<1>9. CASE position = mCurrentBufferPos /\ position # 3
  BY <1>2, <1>5, <1>7, <1>9
<1>10. CASE position = 0
  BY <1>2, <1>5, <1>7, <1>10
<1> QED
  BY <1>6, <1>8, <1>9, <1>10

(* The bound while a packet is read, in numbers.                          *)
LEMMA OneReadOn ==
  ASSUME NEW f \in Nat, NEW p \in 0..3, NEW q \in 0..3, NEW n \in Nat,
         NEW length \in Nat, f + p + 4 * n <= length + 8, q <= p + 1
  PROVE  (f - 1) + q + 4 * n <= length + 8
OBVIOUS

(* The bound holds with a limit beyond the turns that the queue can last.  *)
LEMMA RecentStep ==
  ASSUME QueueLength + 4 < 4 * AgeLimit, RecentInv, [Next]_vars
  PROVE  RecentInv'
<1>1. TypeOK /\ TypeOK'
  BY TypeStep DEF RecentInv
<1>2. /\ followed \in Nat /\ followed <= QueueLength + 1
      /\ age \in Nat /\ age <= AgeLimit
      /\ mCurrentBufferPos \in 0..3
      /\ queue = <<>> => followed = 0
      /\ QueueLength \in Nat /\ AgeLimit \in Nat
  BY <1>1, FollowedTypes, Limits
<1>3. CASE ReceiveByte \/ ReceiveGarbage
  <2>1. /\ UNCHANGED core1Vars
        /\ UNCHANGED <<followed, age>> \/ age' = 0
    BY <1>3 DEF ReceiveByte, ReceiveGarbage, SendByte, Push
  <2> QED
    BY <1>1, <2>1 DEF RecentInv, core1Vars
<1>4. CASE LoseByte \/ Plug \/ UNCHANGED vars
  <2>1. UNCHANGED <<core1Vars, followed, age>>
    BY <1>4 DEF LoseByte, Plug, SendByte, vars, core1Vars
  <2> QED
    BY <1>1, <2>1 DEF RecentInv, core1Vars
<1>5. CASE BeginUpdate
  <2>1. /\ ~updating /\ UNCHANGED <<followed, mCurrentBufferPos>>
        /\ updating' = plugged
        /\ age' = IF followed = 0 \/ ~plugged THEN 0
                  ELSE IF age < AgeLimit THEN age + 1 ELSE age
    BY <1>5 DEF BeginUpdate
  <2>2. CASE followed = 0 \/ ~plugged \/ age = 0
    BY <1>1, <1>2, <2>1, <2>2, Limits DEF RecentInv
  <2>3. CASE followed > 0 /\ plugged /\ age > 0
    <3>1. mCurrentBufferPos = 0 /\ followed + 4 * age <= QueueLength + 4
      BY <2>1, <2>3 DEF RecentInv
    <3>2. age < AgeLimit
      BY <1>2, <2>3, <3>1
    <3>3. age' = age + 1 /\ updating'
      BY <2>1, <2>3, <3>2
    <3> QED
      BY <1>1, <1>2, <2>1, <3>1, <3>3 DEF RecentInv
  <2> QED
    BY <1>2, <2>2, <2>3
<1>6. CASE ReadByte
  <2>1. /\ updating /\ age' = age
        /\ followed' = IF followed = 0 THEN 0 ELSE followed - 1
        /\ \/ ~updating' /\ mCurrentBufferPos = 3 /\ mCurrentBufferPos' = 0
           \/ /\ updating' /\ mCurrentBufferPos' > 0
              /\ mCurrentBufferPos' <= mCurrentBufferPos + 1
    BY <1>1, <1>6, ReadMovesOn
  <2>2. CASE followed = 0 \/ age = 0
    BY <1>1, <1>2, <2>1, <2>2 DEF RecentInv
  <2>3. CASE followed > 0 /\ age = 1
    BY <1>1, <1>2, <2>1, <2>3 DEF RecentInv
  <2>4. CASE followed > 0 /\ age > 1
    <3>1. followed + mCurrentBufferPos + 4 * age <= QueueLength + 8
      BY <1>2, <2>1, <2>4 DEF RecentInv
    <3>2. mCurrentBufferPos' \in 0..3
      BY <1>1 DEF TypeOK, SONAR_SENSOR_PACKET_SIZE
    <3>3. followed' = followed - 1 /\ age' = age
      BY <2>1, <2>4
    <3>4. CASE updating'
      <4>1. mCurrentBufferPos' <= mCurrentBufferPos + 1
        BY <2>1, <3>4
      <4>2. (followed - 1) + mCurrentBufferPos' + 4 * age <= QueueLength + 8
        BY <1>2, <2>4, <3>1, <3>2, <4>1, OneReadOn
      <4> QED
        BY <1>1, <3>3, <3>4, <4>2 DEF RecentInv
    <3>5. CASE ~updating'
      <4>1. mCurrentBufferPos = 3 /\ mCurrentBufferPos' = 0
        BY <2>1, <3>5
      <4>2. followed' + 4 * age' <= QueueLength + 4
        BY <1>2, <3>1, <3>3, <4>1
      <4> QED
        BY <1>1, <3>5, <4>1, <4>2 DEF RecentInv
    <3> QED
      BY <3>4, <3>5
  <2> QED
    BY <1>2, <2>2, <2>3, <2>4
<1>7. CASE EndUpdate
  <2>1. followed' = 0
    BY <1>2, <1>7 DEF EndUpdate
  <2> QED
    BY <1>1, <2>1 DEF RecentInv
<1> QED
  BY <1>3, <1>4, <1>5, <1>6, <1>7 DEF Next, Sonar, DoUpdate

(* While a sonar is connected, the last byte of a reported packet waited   *)
(* for one turn and a quarter of the queue at most, whatever is lost and   *)
(* wherever bytes like the header turn up: with the eight bytes of the     *)
(* receiver, for three turns (sonar_sensor.cpp:85-131).                    *)
THEOREM RecentReports ==
  QueueLength + SONAR_SENSOR_PACKET_SIZE < SONAR_SENSOR_PACKET_SIZE * AgeLimit
    => (Spec => ReportsAreRecent)
<1> SUFFICES ASSUME QueueLength + 4 < 4 * AgeLimit
             PROVE  Spec => ReportsAreRecent
  BY DEF SONAR_SENSOR_PACKET_SIZE
<1>1. ASSUME RecentInv, Completes, followed = 1
      PROVE  age < AgeLimit
  <2>1. TypeOK /\ ReadByte /\ mCurrentBufferPos' = 0
    BY <1>1 DEF RecentInv, Completes
  <2>2. updating /\ mCurrentBufferPos \in 0..3 /\ age \in Nat
    BY <2>1, ReadMovesOn, FollowedTypes
  <2>3. mCurrentBufferPos = 3
    BY <2>1, <2>2, ReadMovesOn
  <2>4. age > 1 => 1 + 3 + 4 * age <= QueueLength + 8
    BY <1>1, <2>2, <2>3 DEF RecentInv
  <2> QED
    BY <2>2, <2>4, Limits
<1>2. RecentInv /\ [Next]_vars =>
        [Completes /\ followed = 1 => age < AgeLimit]_vars
  BY <1>1
<1>3. RecentInv /\ [Next]_vars => RecentInv'
  BY RecentStep
<1> QED
  BY <1>2, <1>3, RecentInit, PTL DEF Spec, ReportsAreRecent

----------------------------------------------------------------------------
(* The pod.  The transfers of a start are all that decides: an attempt     *)
(* that got through leaves the SCD30 measuring, whatever was lost before   *)
(* it, and a reset stops it only on the way to another initialization.     *)

PodInv ==
  /\ mActive \in [Sensors -> BOOLEAN]
  /\ ActiveIsMeasuring

LEMMA PodInvInit == PodInit => PodInv
BY DEF PodInit, PodInv, ActiveIsMeasuring, Sensors

(* A transfer gets through or not.                                         *)
LEMMA TransferIsBoolean ==
  ASSUME NEW s, NEW through \in Transfers(s)
  PROVE  through \in BOOLEAN
BY DEF Transfers

LEMMA PodInvStep ==
  ASSUME PodInv, [PodNext]_podVars
  PROVE  PodInv'
<1> USE DEF PodInv, ActiveIsMeasuring
<1>1. CASE FinishInitialization
  <2>1. PICK firmware, started \in Transfers("scd30") :
          /\ mActive' = [mActive EXCEPT !["scd30"] = firmware]
          /\ measuring' = (measuring \/ (firmware /\ started))
          /\ startFailed' = IF firmware THEN ~started ELSE startFailed
    BY <1>1 DEF FinishInitialization, StartPeriodicMeasurement
  <2>2. firmware \in BOOLEAN /\ started \in BOOLEAN
    BY <2>1, TransferIsBoolean
  <2>3. /\ mActive' \in [Sensors -> BOOLEAN]
        /\ mActive'["scd30"] = firmware
    BY <2>1, <2>2 DEF Sensors
  <2>4. firmware /\ ~startFailed' => measuring'
    BY <2>1, <2>2
  <2> QED
    BY <2>3, <2>4
<1>2. CASE KeepWaiting
  BY <1>2 DEF KeepWaiting, podVars, scd30Device
<1>3. CASE Calibrate
  <2>1. PICK started \in Transfers("scd30") :
          (started => measuring') /\ startFailed' = ~started
    BY <1>3 DEF Calibrate, StartPeriodicMeasurement
  <2>2. started \in BOOLEAN
    BY <2>1, TransferIsBoolean
  <2>3. ~startFailed' => measuring'
    BY <2>1, <2>2
  <2> QED
    BY <1>3, <2>3 DEF Calibrate
<1>4. CASE NoCalibration
  BY <1>4 DEF NoCalibration, scd30Device
<1>5. CASE SCD30Update
  <2>1. CASE SCD30Inactive
    BY <2>1 DEF SCD30Inactive, scd30Device
  <2>2. CASE SCD30HasData
    BY <2>2 DEF SCD30HasData
  <2>3. CASE SCD30HasNoData
    BY <2>3 DEF SCD30HasNoData, scd30Device
  <2>4. CASE SCD30Malfunctions
    BY <2>4 DEF SCD30Malfunctions
  <2> QED
    BY <1>5, <2>1, <2>2, <2>3, <2>4 DEF SCD30Update
<1>6. ASSUME InitializeStemma
      PROVE  /\ mActive' \in [Sensors -> BOOLEAN]
             /\ mActive'["scd30"] = mActive["scd30"]
  <2>1. PICK found, foundAgain, version \in Transfers("stemma") :
          mActive' = [mActive EXCEPT
                          !["stemma"] = found /\ foundAgain /\ version]
    BY <1>6 DEF InitializeStemma
  <2>2. (found /\ foundAgain /\ version) \in BOOLEAN
    BY Zenon
  <2> QED
    BY <2>1, <2>2 DEF Sensors
<1>7. CASE BootStemma
  BY <1>6, <1>7 DEF BootStemma, scd30Device
<1>8. CASE StemmaUpdate
  <2>1. /\ mActive' \in [Sensors -> BOOLEAN]
        /\ mActive'["scd30"] = mActive["scd30"]
    BY <1>6, <1>8 DEF StemmaUpdate
  <2> QED
    BY <1>8, <2>1 DEF StemmaUpdate, scd30Device
<1>9. CASE Measure
  BY <1>9 DEF Measure
<1>10. ASSUME NEW s \in Sensors, Settle(s)
       PROVE  PodInv'
  BY <1>10 DEF Settle, scd30Device
<1>11. CASE UNCHANGED podVars
  BY <1>11 DEF podVars
<1> QED
  BY <1>1, <1>2, <1>3, <1>4, <1>5, <1>7, <1>8, <1>9, <1>10, <1>11
  DEF PodNext, Core1

(* An active SCD30 that was told to measure does, whatever transfers fail  *)
(* in updates, resets, calibrations and initializations, and however long  *)
(* the watchdog waits (scd30_sensor.cpp:44-133, 218-262).                  *)
THEOREM ActiveMeasures == PodSpec => []ActiveIsMeasuring
<1>1. PodInv => ActiveIsMeasuring
  BY DEF PodInv
<1> QED
  BY PodInvInit, PodInvStep, <1>1, PTL DEF PodSpec

============================================================================
