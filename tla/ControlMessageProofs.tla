----------------------- MODULE ControlMessageProofs ------------------------
(***************************************************************************)
(* Theorems about the way of a control message, from the broker to a       *)
(* sensor: the connection that it arrives on (NetworkConnection), and the  *)
(* driver of the SCD30, whose settings it changes (SCD30Driver).  The two  *)
(* have no variable in common.  The theorems hold for any finite set of    *)
(* control topics that the stack can subscribe to at once, any length of   *)
(* the payload and of its cleared part, any texts, measurements and bursts *)
(* of noise, and any number of messages.                                   *)
(***************************************************************************)
EXTENDS NetworkConnection, SCD30Driver, FoldLemmas

LEMMA Lengths ==
  /\ PayloadLength \in Nat \ {0} /\ ClearedLength \in Nat \ {0}
  /\ ClearedLength <= PayloadLength
  /\ MaxPublishes \in Nat
BY NetworkAssumption

(* TypeOK in two parts: the connection, and the way of a command.          *)
ConnectionTypes ==
  /\ pc \in {"check", "joining", "broker", "resolve", "resolving", "resolved",
             "connecting", "return", "subscribe", "publish", "halted"}
  /\ toSubscribe \subseteq Topics
  /\ stack \in BOOLEAN /\ wifi \in BOOLEAN /\ client \in BOOLEAN
  /\ resolved \in BOOLEAN /\ pending \in BOOLEAN
  /\ mConnectionCompleted \in BOOLEAN /\ stray \in BOOLEAN
  /\ conn \in {"disconnected", "connecting", "connected"}
  /\ subscribed \subseteq Topics
  /\ resolution \in {"ok", "arg", "inprogress", "other"}
  /\ mStatus \in {"unset", "accepted", "refused"}

MessageTypes ==
  /\ mMessage \in Message
  /\ mPayloadSize \in 0..PayloadLength
  /\ mBufferIndex \in 0..mPayloadSize
  /\ incoming \in [number : Numbers, length : 0..PayloadLength + 1,
                   sent : 0..PayloadLength + 1]
  /\ publishes \in Numbers
  /\ delivered \in [number : Numbers, length : 0..PayloadLength + 1,
                    topic : Numbers, payload : [Units -> Numbers]]

LEMMA TypesAreTypes == TypeOK <=> ConnectionTypes /\ MessageTypes
BY DEF TypeOK, ConnectionTypes, MessageTypes

----------------------------------------------------------------------------
(* Of the connection: it is being made only while core 0 waits for the     *)
(* answer; core 0 looks for the broker only without one; what the monitor  *)
(* says of a connection that is there is right; and on the way through the *)
(* topics each is subscribed to or still to be.                            *)
ConnectionInv ==
  /\ ConnectionTypes
  /\ conn = "connecting" => pc = "connecting" /\ ~mConnectionCompleted
  /\ conn # "disconnected" => client
  /\ pc \in {"joining", "resolve", "resolving", "resolved"} => conn = "disconnected"
  /\ conn = "connected" /\ pc \in {"connecting", "return"} => mStatus = "accepted"
  /\ conn = "connected" /\ pc = "subscribe" => subscribed \cup toSubscribe = Topics
  /\ ServedMeansSubscribed

(* What the end of a connection leaves of the connection and its monitor.  *)
LEMMA EndTypes ==
  ASSUME ConnectionTypes, EndConnection
  PROVE  /\ conn' = "disconnected" /\ subscribed' = {}
         /\ mConnectionCompleted' \in BOOLEAN /\ stray' \in BOOLEAN
         /\ mStatus' \in {"unset", "accepted", "refused"}
<1>1. CASE conn # "disconnected"
  BY <1>1 DEF EndConnection, ConnectionCallback, ConnectionTypes
<1>2. CASE conn = "disconnected"
  BY <1>2 DEF EndConnection, ConnectionTypes, monitorVars
<1> QED
  BY <1>1, <1>2

LEMMA ConnectionInvInit == Init => ConnectionInv
BY DEF Init, ConnectionInv, ConnectionTypes, ServedMeansSubscribed

(* The stack has room for the topics.                                      *)
LEMMA RoomForTopic ==
  ASSUME NEW S \in SUBSET Topics, NEW t \in Topics, t \notin S
  PROVE  Cardinality(S) < MaxInFlight
<1>1. IsFiniteSet(Topics) /\ Cardinality(Topics) <= MaxInFlight /\ MaxInFlight \in Nat
  BY NetworkAssumption
<1>2. IsFiniteSet(S) /\ Cardinality(S) <= Cardinality(Topics)
      /\ (Cardinality(S) = Cardinality(Topics) => S = Topics)
  BY <1>1, FS_Subset
<1>3. Cardinality(S) \in Nat /\ Cardinality(Topics) \in Nat
  BY <1>1, <1>2, FS_CardinalityType
<1>4. QED
  BY <1>1, <1>2, <1>3

(* The end of a connection, whatever core 0 is doing.                      *)
LEMMA EndKeepsInv ==
  ASSUME ConnectionInv, EndConnection, client' = client, ConnectionTypes',
         ~(conn = "connecting" /\ pc # "connecting")
  PROVE  ConnectionInv'
BY DEF EndConnection, ConnectionInv, ServedMeansSubscribed

LEMMA ConnectionInvStep == ConnectionInv /\ [Next]_vars => ConnectionInv'
<1> SUFFICES ASSUME ConnectionInv, [Next]_vars PROVE ConnectionInv'
  OBVIOUS
<1> USE DEF ConnectionInv, ServedMeansSubscribed
<1>1. CASE CheckNetwork
  <2>1. CASE wifi
    BY <1>1, <2>1
       DEF CheckNetwork, ConnectionTypes, dnsVars, clientVars, monitorVars
  <2>2. CASE ~wifi
    <3>1. /\ EndConnection /\ client' = client
          /\ pc' \in {"joining", "broker"}
          /\ stack' \in BOOLEAN /\ UNCHANGED <<wifi, toSubscribe, dnsVars, client>>
      BY <1>1, <2>2 DEF CheckNetwork
    <3>2. ConnectionTypes'
      BY <3>1, EndTypes DEF ConnectionTypes, dnsVars
    <3>3. QED
      BY <3>1, <3>2, EndKeepsInv
  <2>3. QED
    BY <2>1, <2>2
<1>2. CASE JoinWiFi
  BY <1>2 DEF JoinWiFi, ConnectionTypes, dnsVars, monitorVars
<1>3. CASE JoinFails \/ CheckBroker
  BY <1>3
     DEF JoinFails, CheckBroker, ConnectionTypes, wifiVars, dnsVars,
         monitorVars, clientVars
<1>4. CASE ResolveHost \/ Resolved
  BY <1>4
     DEF ResolveHost, Resolved, ConnectionTypes, wifiVars, dnsVars,
         monitorVars, clientVars
<1>5. CASE ConnectToBroker
  BY <1>5, ZenonT(30) DEF ConnectToBroker, ConnectionTypes, wifiVars, dnsVars
<1>6. CASE WaitForBroker \/ ReturnStatus
  BY <1>6
     DEF WaitForBroker, ReturnStatus, ConnectionTypes, wifiVars, dnsVars,
         monitorVars, clientVars
<1>7. CASE Subscribe
  <2>1. /\ pc = "subscribe"
        /\ UNCHANGED <<wifiVars, dnsVars, monitorVars, client, conn>>
    BY <1>7 DEF Subscribe
  <2>2. CASE toSubscribe = {}
    BY <1>7, <2>1, <2>2
       DEF Subscribe, ConnectionTypes, wifiVars, dnsVars, monitorVars
  <2>3. CASE toSubscribe # {}
    <3>1. PICK t \in toSubscribe :
            /\ toSubscribe' = toSubscribe \ {t}
            /\ subscribed' = IF /\ conn = "connected"
                                /\ Cardinality(subscribed) < MaxInFlight
                               THEN subscribed \cup {t}
                               ELSE subscribed
            /\ UNCHANGED pc
      BY <1>7, <2>3 DEF Subscribe
    <3>2. t \in Topics /\ subscribed \in SUBSET Topics
      BY DEF ConnectionTypes
    <3>3. subscribed' \cup toSubscribe' = Topics \/ conn # "connected"
      <4>1. CASE t \in subscribed
        BY <2>1, <3>1, <4>1
      <4>2. CASE t \notin subscribed
        <5>1. Cardinality(subscribed) < MaxInFlight
          BY <3>2, <4>2, RoomForTopic
        <5>2. QED
          BY <2>1, <3>1, <5>1
      <4>3. QED
        BY <4>1, <4>2
    <3>4. subscribed' \subseteq Topics /\ toSubscribe' \subseteq Topics
      BY <3>1, <3>2 DEF ConnectionTypes
    <3>5. QED
      BY <2>1, <3>1, <3>3, <3>4
         DEF ConnectionTypes, wifiVars, dnsVars, monitorVars
  <2>4. QED
    BY <2>2, <2>3
<1>8. CASE Publish \/ LinkChanges \/ ResolutionCallback
  <2>1. CASE Publish
    BY <2>1
       DEF Publish, ConnectionTypes, wifiVars, dnsVars, monitorVars, clientVars
  <2>2. CASE LinkChanges
    <3>1. wifi' \in BOOLEAN
      BY <2>2 DEF LinkChanges
    <3>2. QED
      BY <2>2, <3>1
         DEF LinkChanges, ConnectionTypes, coreVars, dnsVars, monitorVars, clientVars
  <2>3. CASE ResolutionCallback
    <3>1. /\ pending' \in BOOLEAN /\ resolved' \in BOOLEAN
          /\ resolution' \in {"ok", "arg", "inprogress", "other"}
      BY <2>3 DEF ResolutionCallback, ConnectionTypes
    <3>2. UNCHANGED <<coreVars, wifiVars, monitorVars, clientVars>>
      BY <2>3 DEF ResolutionCallback
    <3>3. QED
      BY <3>1, <3>2
         DEF ConnectionTypes, coreVars, wifiVars, monitorVars, clientVars
  <2>4. QED
    BY <1>8, <2>1, <2>2, <2>3
<1>9. CASE BrokerAnswers
  <2>1. /\ conn = "connecting" /\ pc = "connecting"
        /\ UNCHANGED <<coreVars, wifiVars, dnsVars, client>>
    BY <1>9 DEF BrokerAnswers
  <2>2. CASE conn' = "connected" /\ ConnectionCallback("accepted") /\ UNCHANGED subscribed
    BY <2>1, <2>2
       DEF ConnectionCallback, ConnectionTypes, coreVars, wifiVars, dnsVars
  <2>3. CASE EndConnection
    <3>1. ConnectionTypes'
      BY <2>1, <2>3, EndTypes DEF ConnectionTypes, coreVars, wifiVars, dnsVars
    <3>2. QED
      BY <2>1, <2>3, <3>1, EndKeepsInv
  <2>4. QED
    BY <1>9, <2>2, <2>3 DEF BrokerAnswers
<1>10. CASE LoseConnection
  <2>1. /\ conn = "connected" /\ EndConnection
        /\ UNCHANGED <<coreVars, wifiVars, dnsVars, client>>
    BY <1>10 DEF LoseConnection
  <2>2. ConnectionTypes'
    BY <2>1, EndTypes DEF ConnectionTypes, coreVars, wifiVars, dnsVars
  <2>3. QED
    BY <2>1, <2>2, EndKeepsInv
<1>11. ASSUME NEW length \in 0..PayloadLength + 1,
              PublishStart(length) \/ PublishData(length)
       PROVE  ConnectionInv'
  BY <1>11
     DEF PublishStart, PublishData, ConnectionTypes, coreVars, wifiVars,
         dnsVars, monitorVars, clientVars
<1>12. CASE UNCHANGED vars
  BY <1>12
     DEF vars, ConnectionTypes, coreVars, wifiVars, dnsVars, monitorVars, clientVars
<1>13. QED
  BY <1>1, <1>2, <1>3, <1>4, <1>5, <1>6, <1>7, <1>8, <1>9, <1>10, <1>11, <1>12
     DEF Next, Core0, Network

(* Whenever core 0 is back in its loop with a connection, every control    *)
(* topic has been subscribed to on it (core_0_executor.cpp:163-173).       *)
THEOREM ServedIsSubscribed == Spec => []ServedMeansSubscribed
<1>1. ConnectionInv => ServedMeansSubscribed
  BY DEF ConnectionInv
<1>2. QED
  BY <1>1, ConnectionInvInit, ConnectionInvStep, PTL DEF Spec

(* Only the end of an established connection writes to the monitor of a    *)
(* call that has returned (mqtt_controller.cpp:168-172).                   *)
THEOREM NoAttemptIsOutlived == Spec => StrayOnlyAtTheEnd
<1>1. ASSUME ConnectionInv, [Next]_vars, stray' # stray
      PROVE  conn = "connected"
  <2>1. \/ CheckNetwork /\ EndConnection
        \/ BrokerAnswers
        \/ LoseConnection
    BY <1>1
       DEF Next, Core0, Network, CheckNetwork, JoinWiFi, JoinFails, CheckBroker,
           ResolveHost, Resolved, ConnectToBroker, WaitForBroker, ReturnStatus,
           Subscribe, Publish, LinkChanges, ResolutionCallback, PublishStart,
           PublishData, monitorVars, vars
  <2>2. conn # "disconnected" /\ pc \notin {"connecting", "return"}
    BY <1>1, <2>1
       DEF BrokerAnswers, LoseConnection, EndConnection, ConnectionCallback, monitorVars
  <2>3. QED
    BY <1>1, <2>2 DEF ConnectionInv, ConnectionTypes
<1>2. QED
  BY <1>1, ConnectionInvInit, ConnectionInvStep, PTL DEF Spec, StrayOnlyAtTheEnd

----------------------------------------------------------------------------
(* The buffer.  While a message that fits arrives, the buffer has its      *)
(* topic and its size, and its first units up to the place where the next  *)
(* fragment goes; what the buffer was cleared of is not there.  While one  *)
(* arrives that does not fit, the buffer is empty and stays so.            *)
Fits ==
  /\ mMessage.topic = incoming.number
  /\ mPayloadSize = incoming.length
  /\ mBufferIndex = incoming.sent
  /\ \A u \in Units :
       /\ u <= incoming.sent => mMessage.payload[u] = incoming.number
       /\ incoming.sent < u /\ u <= ClearedLength => mMessage.payload[u] = 0

Refused == mMessage.topic = 0 /\ mPayloadSize = 0 /\ mBufferIndex = 0

Arriving ==
  /\ conn = "connected"
  /\ incoming.number # 0
  /\ incoming.length <= PayloadLength => Fits
  /\ incoming.length > PayloadLength => Refused

BufferInv ==
  /\ MessageTypes
  /\ incoming # Idle => Arriving
  /\ CommandsAreWhole

BufferState == <<bufferVars, publishVars>>

LEMMA BufferInvInit == Init => BufferInv
<1> SUFFICES ASSUME Init PROVE BufferInv
  OBVIOUS
<1>1. 0 \in Numbers /\ 0 \in 0..PayloadLength + 1
  BY Lengths DEF Numbers
<1>2. mMessage \in Message
  BY <1>1 DEF Init, Message
<1>3. incoming \in [number : Numbers, length : 0..PayloadLength + 1,
                    sent : 0..PayloadLength + 1]
  BY <1>1 DEF Init, Idle
<1>4. delivered \in [number : Numbers, length : 0..PayloadLength + 1,
                     topic : Numbers, payload : [Units -> Numbers]]
  BY <1>1 DEF Init, NoCommand
<1>5. mPayloadSize \in 0..PayloadLength /\ mBufferIndex \in 0..mPayloadSize
      /\ publishes \in Numbers
  BY <1>1, Lengths DEF Init
<1>6. incoming = Idle /\ delivered.number = 0
  BY DEF Init, NoCommand
<1>7. QED
  BY <1>2, <1>3, <1>4, <1>5, <1>6 DEF BufferInv, MessageTypes, CommandsAreWhole

LEMMA InitializeEffect ==
  ASSUME MessageTypes, NEW topic \in Numbers, NEW size \in 0..PayloadLength,
         Initialize(topic, size)
  PROVE  /\ mMessage' \in Message /\ mMessage'.topic = topic
         /\ \A u \in Units : u <= ClearedLength => mMessage'.payload[u] = 0
         /\ mPayloadSize' = size /\ mPayloadSize' \in 0..PayloadLength
         /\ mBufferIndex' = 0 /\ mBufferIndex' \in 0..mPayloadSize'
<1>1. 0 \in Numbers
  BY Lengths DEF Numbers
<1>2. QED
  BY <1>1, Lengths DEF Initialize, MessageTypes, Message

(* A fragment of a message that fits: the units up to its end are in the   *)
(* buffer, and with the last one the command is handed over.               *)
LEMMA FragmentFits ==
  ASSUME BufferInv, NEW length \in 0..PayloadLength + 1, PublishData(length),
         incoming.length <= PayloadLength
  PROVE  BufferInv'
<1> DEFINE n == incoming.number
           L == incoming.length
           s == incoming.sent
<1>1. /\ n \in Numbers /\ n # 0 /\ L \in 0..PayloadLength /\ s \in 0..PayloadLength
      /\ length \in Nat /\ s + length <= L
      /\ mMessage \in Message /\ mMessage.topic = n
      /\ mPayloadSize = L /\ mBufferIndex = s
      /\ \A u \in Units :
           /\ u <= s => mMessage.payload[u] = n
           /\ s < u /\ u <= ClearedLength => mMessage.payload[u] = 0
  <2>1. Arriving /\ Fits
    BY DEF BufferInv, PublishData, Arriving
  <2>2. incoming.sent + length <= incoming.length
    BY DEF PublishData
  <2>3. /\ n \in Numbers /\ L \in 0..PayloadLength + 1 /\ s \in 0..PayloadLength + 1
        /\ mMessage \in Message
    BY DEF BufferInv, MessageTypes
  <2>4. QED
    BY <2>1, <2>2, <2>3, Lengths DEF Arriving, Fits
<1>2. /\ mMessage' = [mMessage EXCEPT !.payload =
           [u \in Units |-> IF u \in s + 1..s + length THEN n ELSE mMessage.payload[u]]]
      /\ mBufferIndex' = s + length
      /\ mPayloadSize' = L
      /\ incoming' = IF s + length = L THEN Idle
                     ELSE [incoming EXCEPT !.sent = s + length]
      /\ IF s + length >= L THEN Deliver(mMessage') ELSE UNCHANGED delivered
      /\ conn' = conn /\ publishes' = publishes
  BY <1>1 DEF PublishData, clientVars
<1>3. /\ mMessage' \in Message /\ mMessage'.topic = n
      /\ \A u \in Units :
           /\ u <= s + length => mMessage'.payload[u] = n
           /\ s + length < u /\ u <= ClearedLength => mMessage'.payload[u] = 0
  <2>1. /\ mMessage'.topic = n
        /\ mMessage' \in Message
    BY <1>1, <1>2 DEF Message
  <2>2. \A u \in Units : mMessage'.payload[u] =
          IF u \in s + 1..s + length THEN n ELSE mMessage.payload[u]
    BY <1>1, <1>2 DEF Message
  <2>3. ASSUME NEW u \in Units
        PROVE  /\ u <= s + length => mMessage'.payload[u] = n
               /\ s + length < u /\ u <= ClearedLength => mMessage'.payload[u] = 0
    <3>1. u \in Nat \ {0} /\ s \in Nat /\ length \in Nat
      BY <1>1 DEF Units
    <3>2. CASE u <= s
      BY <1>1, <2>2, <3>1, <3>2
    <3>3. CASE s < u /\ u <= s + length
      BY <2>2, <3>1, <3>3
    <3>4. CASE s + length < u
      BY <1>1, <2>2, <3>1, <3>4
    <3>5. QED
      BY <3>1, <3>2, <3>3, <3>4
  <2>4. QED
    BY <2>1, <2>3
<1>4. mBufferIndex' \in 0..mPayloadSize' /\ mPayloadSize' \in 0..PayloadLength
  BY <1>1, <1>2
<1>5. CASE s + length = L
  <2>1. incoming' = Idle /\ Deliver(mMessage')
    BY <1>1, <1>2, <1>5
  <2>2. incoming' \in [number : Numbers, length : 0..PayloadLength + 1,
                       sent : 0..PayloadLength + 1]
    BY <2>1, Lengths DEF Idle, Numbers
  <2>3. CASE delivered' = delivered
    BY <1>2, <1>3, <1>4, <2>1, <2>2, <2>3
       DEF BufferInv, MessageTypes, CommandsAreWhole
  <2>4. CASE delivered' # delivered
    <3>1. delivered' = [number |-> n, length |-> L, topic |-> n,
                        payload |-> mMessage'.payload]
      BY <1>3, <2>1, <2>4 DEF Deliver
    <3>2. delivered' \in [number : Numbers, length : 0..PayloadLength + 1,
                          topic : Numbers, payload : [Units -> Numbers]]
      BY <1>1, <1>3, <3>1, Lengths DEF Message
    <3>3. CommandsAreWhole'
      <4>1. L < ClearedLength => L + 1 \in Units /\ L < L + 1 /\ L + 1 <= ClearedLength
        BY <1>1, Lengths DEF Units
      <4>2. QED
        BY <1>1, <1>3, <1>5, <3>1, <4>1 DEF CommandsAreWhole
    <3>4. QED
      BY <1>2, <1>3, <1>4, <2>1, <2>2, <3>2, <3>3 DEF BufferInv, MessageTypes
  <2>5. QED
    BY <2>3, <2>4
<1>6. CASE s + length # L
  <2>1. incoming' = [incoming EXCEPT !.sent = s + length] /\ delivered' = delivered
    BY <1>1, <1>2, <1>6
  <2>2. s + length \in 0..PayloadLength + 1
    BY <1>1, Lengths
  <2>3. /\ incoming' \in [number : Numbers, length : 0..PayloadLength + 1,
                          sent : 0..PayloadLength + 1]
        /\ incoming'.number = n /\ incoming'.length = L
        /\ incoming'.sent = s + length
    BY <2>1, <2>2 DEF BufferInv, MessageTypes
  <2>4. Fits'
    BY <1>2, <1>3, <2>3 DEF Fits
  <2>5. conn' = "connected"
    BY <1>2 DEF PublishData, BufferInv, Arriving
  <2>6. Arriving'
    BY <1>1, <2>3, <2>4, <2>5, Lengths DEF Arriving
  <2>7. QED
    BY <1>2, <1>3, <1>4, <2>1, <2>3, <2>6
       DEF BufferInv, MessageTypes, CommandsAreWhole
<1>7. QED
  BY <1>5, <1>6

(* A fragment of a message that does not fit changes nothing.              *)
LEMMA FragmentRefused ==
  ASSUME BufferInv, NEW length \in 0..PayloadLength + 1, PublishData(length),
         ~(incoming.length <= PayloadLength)
  PROVE  BufferInv'
<1>1. /\ conn = "connected" /\ conn' = conn
      /\ incoming.number # 0 /\ incoming.length \in 0..PayloadLength + 1
      /\ incoming.sent \in 0..PayloadLength + 1
      /\ incoming.length > PayloadLength
      /\ mMessage \in Message /\ mMessage.topic = 0
      /\ mPayloadSize = 0 /\ mBufferIndex = 0
      /\ length \in Nat
      /\ incoming.sent + length <= incoming.length
      /\ UNCHANGED <<mPayloadSize, publishes>>
  <2>1. Arriving
    BY DEF BufferInv, PublishData
  <2>2. incoming.length \in 0..PayloadLength + 1
    BY DEF BufferInv, MessageTypes
  <2>3. incoming.length > PayloadLength
    BY <2>2, Lengths
  <2>4. QED
    BY <2>1, <2>2, <2>3
       DEF Arriving, Refused, PublishData, clientVars, BufferInv, MessageTypes
<1>2. /\ mMessage' \in Message /\ mMessage'.topic = 0 /\ mBufferIndex' = 0
      /\ delivered' = delivered
  <2>1. CASE mBufferIndex + length <= mPayloadSize
    <3>1. length = 0
      BY <1>1, <2>1
    <3>2. /\ mMessage' = [mMessage EXCEPT !.payload =
               [u \in Units |-> IF u \in mBufferIndex + 1..mBufferIndex + length
                                THEN incoming.number ELSE mMessage.payload[u]]]
          /\ mBufferIndex' = mBufferIndex + length
          /\ IF mBufferIndex' >= mPayloadSize THEN Deliver(mMessage')
                                              ELSE UNCHANGED delivered
      BY <2>1 DEF PublishData
    <3>3. incoming.number \in Numbers
      BY DEF BufferInv, MessageTypes
    <3>4. mMessage' \in Message /\ mMessage'.topic = 0
      BY <1>1, <3>2, <3>3 DEF Message
    <3>5. mBufferIndex' = 0
      BY <1>1, <3>1, <3>2
    <3>6. QED
      BY <1>1, <3>2, <3>4, <3>5 DEF Deliver
  <2>2. CASE ~(mBufferIndex + length <= mPayloadSize)
    BY <1>1, <2>2 DEF PublishData
  <2>3. QED
    BY <2>1, <2>2
<1>3. incoming.sent + length \in 0..PayloadLength + 1
  BY <1>1, Lengths
<1>4. \/ incoming' = Idle
      \/ incoming' = [incoming EXCEPT !.sent = incoming.sent + length]
  BY DEF PublishData
<1>5. incoming' \in [number : Numbers, length : 0..PayloadLength + 1,
                     sent : 0..PayloadLength + 1]
  BY <1>3, <1>4, Lengths DEF Idle, Numbers, BufferInv, MessageTypes
<1>6. incoming' # Idle => Arriving'
  <2> SUFFICES ASSUME incoming' # Idle PROVE Arriving'
    OBVIOUS
  <2>1. incoming'.number = incoming.number /\ incoming'.length = incoming.length
    BY <1>4 DEF BufferInv, MessageTypes
  <2>2. QED
    BY <1>1, <1>2, <2>1, Lengths DEF Arriving, Refused
<1>7. QED
  BY <1>1, <1>2, <1>5, <1>6 DEF BufferInv, MessageTypes, CommandsAreWhole

LEMMA MessageBegins ==
  ASSUME BufferInv, NEW length \in 0..PayloadLength + 1, PublishStart(length)
  PROVE  BufferInv'
<1>1. /\ conn = "connected" /\ conn' = conn /\ delivered' = delivered
      /\ publishes' \in Numbers /\ publishes' # 0
      /\ incoming' = [number |-> publishes', length |-> length, sent |-> 0]
  <2>1. publishes \in 0..MaxPublishes
    BY DEF BufferInv, MessageTypes, Numbers
  <2>2. QED
    BY <2>1, Lengths DEF PublishStart, clientVars, Numbers
<1>2. incoming' \in [number : Numbers, length : 0..PayloadLength + 1,
                     sent : 0..PayloadLength + 1]
  BY <1>1, Lengths
<1>3. CASE length > PayloadLength
  <2>1. Initialize(0, 0) /\ 0 \in Numbers /\ 0 \in 0..PayloadLength
    BY <1>3, Lengths DEF PublishStart, Numbers
  <2>2. /\ mMessage' \in Message /\ mMessage'.topic = 0
        /\ mPayloadSize' = 0 /\ mPayloadSize' \in 0..PayloadLength
        /\ mBufferIndex' = 0 /\ mBufferIndex' \in 0..mPayloadSize'
    BY <2>1, InitializeEffect DEF BufferInv
  <2>3. Arriving'
    BY <1>1, <1>3, <2>2, Lengths DEF Arriving, Refused
  <2>4. QED
    BY <1>1, <1>2, <2>2, <2>3 DEF BufferInv, MessageTypes, CommandsAreWhole
<1>4. CASE ~(length > PayloadLength)
  <2>1. Initialize(publishes', length) /\ length \in 0..PayloadLength
    BY <1>4, Lengths DEF PublishStart
  <2>2. /\ mMessage' \in Message /\ mMessage'.topic = publishes'
        /\ \A u \in Units : u <= ClearedLength => mMessage'.payload[u] = 0
        /\ mPayloadSize' = length /\ mPayloadSize' \in 0..PayloadLength
        /\ mBufferIndex' = 0 /\ mBufferIndex' \in 0..mPayloadSize'
    BY <1>1, <2>1, InitializeEffect DEF BufferInv
  <2>3. Fits'
    BY <1>1, <2>2 DEF Fits, Units
  <2>4. Arriving'
    BY <1>1, <1>4, <2>3 DEF Arriving
  <2>5. QED
    BY <1>1, <1>2, <2>2, <2>4 DEF BufferInv, MessageTypes, CommandsAreWhole
<1>5. QED
  BY <1>3, <1>4

LEMMA BufferInvStep ==
  ASSUME ConnectionInv, BufferInv, [Next]_vars
  PROVE  BufferInv'
<1>1. ASSUME UNCHANGED BufferState, conn = "connected" => conn' = "connected"
      PROVE  BufferInv'
  <2>1. MessageTypes'
    BY <1>1 DEF BufferInv, MessageTypes, BufferState, bufferVars, publishVars
  <2>2. CommandsAreWhole'
    BY <1>1 DEF BufferInv, CommandsAreWhole, BufferState, publishVars
  <2>3. incoming' # Idle => Arriving'
    BY <1>1
       DEF BufferInv, Arriving, Fits, Refused, BufferState, bufferVars, publishVars
  <2>4. QED
    BY <2>1, <2>2, <2>3 DEF BufferInv
<1>2. ASSUME incoming' = Idle, UNCHANGED <<bufferVars, publishes, delivered>>
      PROVE  BufferInv'
  <2>1. incoming' \in [number : Numbers, length : 0..PayloadLength + 1,
                       sent : 0..PayloadLength + 1]
    BY <1>2, Lengths DEF Idle, Numbers
  <2>2. QED
    BY <1>2, <2>1 DEF BufferInv, MessageTypes, CommandsAreWhole, bufferVars
<1>3. CASE JoinWiFi
  <2>1. /\ conn = "disconnected" /\ Initialize(0, 0) /\ UNCHANGED publishVars
        /\ 0 \in Numbers /\ 0 \in 0..PayloadLength
    BY <1>3, Lengths DEF JoinWiFi, ConnectionInv, Numbers
  <2>2. incoming = Idle
    BY <2>1 DEF BufferInv, Arriving
  <2>3. /\ mMessage' \in Message
        /\ mPayloadSize' \in 0..PayloadLength
        /\ mBufferIndex' \in 0..mPayloadSize'
    BY <2>1, InitializeEffect DEF BufferInv
  <2>4. QED
    BY <2>1, <2>2, <2>3 DEF BufferInv, MessageTypes, CommandsAreWhole, publishVars
<1>4. CASE CheckNetwork
  <2>1. CASE wifi
    BY <1>1, <1>4, <2>1 DEF CheckNetwork, BufferState, publishVars
  <2>2. CASE ~wifi
    BY <1>2, <1>4, <2>2 DEF CheckNetwork, EndConnection
  <2>3. QED
    BY <2>1, <2>2
<1>5. CASE BrokerAnswers \/ LoseConnection
  <2>1. CASE EndConnection
    BY <1>2, <1>5, <2>1 DEF BrokerAnswers, LoseConnection, EndConnection
  <2>2. CASE ~EndConnection
    BY <1>1, <1>5, <2>2 DEF BrokerAnswers, LoseConnection, BufferState, publishVars
  <2>3. QED
    BY <2>1, <2>2
<1>6. CASE ConnectToBroker
  <2>1. conn = "disconnected" /\ UNCHANGED BufferState
    BY <1>6 DEF ConnectToBroker, ConnectionInv, BufferState
  <2>2. QED
    BY <1>1, <2>1
<1>7. ASSUME NEW length \in 0..PayloadLength + 1,
             PublishStart(length) \/ PublishData(length)
      PROVE  BufferInv'
  BY <1>7, MessageBegins, FragmentFits, FragmentRefused
<1>8. CASE \/ JoinFails \/ CheckBroker \/ ResolveHost \/ Resolved \/ WaitForBroker
           \/ ReturnStatus \/ Subscribe \/ Publish \/ LinkChanges
           \/ ResolutionCallback \/ UNCHANGED vars
  <2>1. UNCHANGED BufferState /\ conn' = conn
    BY <1>8
       DEF JoinFails, CheckBroker, ResolveHost, Resolved, WaitForBroker,
           ReturnStatus, Subscribe, Publish, LinkChanges, ResolutionCallback,
           vars, clientVars, BufferState
  <2>2. QED
    BY <1>1, <2>1
<1>9. QED
  BY <1>3, <1>4, <1>5, <1>6, <1>7, <1>8 DEF Next, Core0, Network

LEMMA Invariance == Spec => [](ConnectionInv /\ BufferInv)
BY ConnectionInvInit, BufferInvInit, ConnectionInvStep, BufferInvStep, PTL DEF Spec

(* Every variable stays in its type, and no fragment is written past the   *)
(* size of its message.                                                    *)
THEOREM TypeCorrect == Spec => []TypeOK
<1>1. ConnectionInv /\ BufferInv => TypeOK
  BY TypesAreTypes DEF ConnectionInv, BufferInv
<1>2. QED
  BY <1>1, Invariance, PTL

(* A command in the mailbox begins with the whole payload of the message   *)
(* that it has the topic of, and nothing of an earlier one follows a short *)
(* payload (mqtt_controller.cpp:22-27, 175-222).                           *)
THEOREM CommandsArriveWhole == Spec => []CommandsAreWhole
<1>1. ConnectionInv /\ BufferInv => CommandsAreWhole
  BY DEF BufferInv
<1>2. QED
  BY <1>1, Invariance, PTL

----------------------------------------------------------------------------
(* The driver of the SCD30: which calls are still to be made tells whether *)
(* there is a bus.                                                         *)

(* The calls that SCD30Sensor makes.                                       *)
Readers ==
  {await_data_ready, read_firmware_version,
   get_data_ready, read_measurement_data}

CallsThatSet ==
  {Call(command, <<word>>, 0) :
     command \in Settings, word \in SUBSET (0..15)}

Calls ==
  {Step(name) : name \in Steps} \cup Readers \cup CallsThatSet
    \cup {stop_periodic_measurement}

HalFree == Step("hal_free")
HalInit == Step("hal_init")
BounceStep == Step("bounce power")

(* What is left of a reset: its shutdown, and after that.                  *)
Freeing ==
  <<HalFree, BounceStep, HalInit, await_data_ready,
    read_firmware_version>>

Bouncing ==
  <<BounceStep, HalInit, await_data_ready,
    read_firmware_version>>

KeepsBus(calls) == \A i \in DOMAIN calls : calls[i].command # "hal_free"

Scheduled(calls) ==
  /\ calls \in Seq(Calls)
  /\ calls \in {Reset, Freeing} \/ KeepsBus(calls)

(* A bus is missing only before an initialization that is under way, and   *)
(* only a reset frees it, which leads to such an initialization.           *)
BusInv ==
  /\ Scheduled(todo)
  /\ bus \/ todo \in {Bouncing, doInitialization}
  /\ bus => i2c
  /\ written => todo # <<>> /\ Head(todo) \in Readers

(* Only a reader expects an answer, and every reader makes a transfer.     *)
LEMMA ReadersExpect ==
  ASSUME NEW call \in Calls
  PROVE  call.expected > 0 <=> call \in Readers
<1>1. ASSUME call \notin Readers
      PROVE  call.expected = 0
  BY <1>1 DEF Calls, CallsThatSet, stop_periodic_measurement,
              Step, Call
<1>2. ASSUME call \in Readers
      PROVE  call.expected = 2 \/ call.expected = 12
  <2>1. await_data_ready.expected = 2
    BY DEF await_data_ready, get_data_ready, Call
  <2>2. read_firmware_version.expected = 2
    BY DEF read_firmware_version, Call
  <2>3. get_data_ready.expected = 2
    BY DEF get_data_ready, Call
  <2>4. read_measurement_data.expected = 12
    BY DEF read_measurement_data, Call
  <2> QED
    BY <1>2, <2>1, <2>2, <2>3, <2>4 DEF Readers
<1> QED
  BY <1>1, <1>2

LEMMA ReadersTransfer ==
  ASSUME NEW call \in Readers
  PROVE  call.command \notin Steps
<1>1. call.command \in {"data ready", "firmware version", "measurement"}
  <2>1. await_data_ready.command = "data ready"
    BY DEF await_data_ready, get_data_ready, Call
  <2>2. read_firmware_version.command = "firmware version"
    BY DEF read_firmware_version, Call
  <2>3. get_data_ready.command = "data ready"
    BY DEF get_data_ready, Call
  <2>4. read_measurement_data.command = "measurement"
    BY DEF read_measurement_data, Call
  <2> QED
    BY <2>1, <2>2, <2>3, <2>4 DEF Readers
<1> QED
  BY <1>1 DEF Steps

(* Sequences that are written out.                                         *)
LEMMA ConcatTwo ==
  ASSUME NEW a, NEW b, NEW c, NEW d
  PROVE  <<a, b>> \o <<c, d>> = <<a, b, c, d>>
<1> DEFINE S == {a, b, c, d}
           s == <<a, b>>
           t == <<c, d>>
           u == <<a, b, c, d>>
<1>1. /\ s \in Seq(S) /\ t \in Seq(S) /\ u \in Seq(S)
      /\ Len(s) = 2 /\ Len(t) = 2 /\ Len(u) = 4
  OBVIOUS
<1>2. /\ s \o t \in Seq(S) /\ Len(s \o t) = Len(s) + Len(t)
      /\ \A i \in 1..Len(s) + Len(t) :
           (s \o t)[i] = IF i <= Len(s) THEN s[i] ELSE t[i - Len(s)]
  <2> HIDE DEF s, t
  <2> QED
    BY <1>1, ConcatProperties
<1>3. ASSUME NEW i \in 1..4
      PROVE  (s \o t)[i] = u[i]
  <2>1. (s \o t)[i] = IF i <= 2 THEN s[i] ELSE t[i - 2]
    <3> HIDE DEF s, t
    <3> QED
      BY <1>1, <1>2
  <2>2. (IF i <= 2 THEN s[i] ELSE t[i - 2]) = u[i]
    BY i = 1 \/ i = 2 \/ i = 3 \/ i = 4
  <2> QED
    BY <2>1, <2>2
<1>4. s \o t = u
  <2> HIDE DEF s, t, u
  <2> QED
    BY <1>1, <1>2, <1>3, SeqEqual
<1> QED
  BY <1>4

LEMMA ConcatThree ==
  ASSUME NEW a, NEW b, NEW c, NEW d, NEW e, NEW f
  PROVE  <<a, b, c>> \o <<d, e, f>> = <<a, b, c, d, e, f>>
<1> DEFINE S == {a, b, c, d, e, f}
           s == <<a, b, c>>
           t == <<d, e, f>>
           u == <<a, b, c, d, e, f>>
<1>1. /\ s \in Seq(S) /\ t \in Seq(S) /\ u \in Seq(S)
      /\ Len(s) = 3 /\ Len(t) = 3 /\ Len(u) = 6
  OBVIOUS
<1>2. /\ s \o t \in Seq(S) /\ Len(s \o t) = Len(s) + Len(t)
      /\ \A i \in 1..Len(s) + Len(t) :
           (s \o t)[i] = IF i <= Len(s) THEN s[i] ELSE t[i - Len(s)]
  <2> HIDE DEF s, t
  <2> QED
    BY <1>1, ConcatProperties
<1>3. ASSUME NEW i \in 1..6
      PROVE  (s \o t)[i] = u[i]
  <2>1. (s \o t)[i] = IF i <= 3 THEN s[i] ELSE t[i - 3]
    <3> HIDE DEF s, t
    <3> QED
      BY <1>1, <1>2
  <2>2. (IF i <= 3 THEN s[i] ELSE t[i - 3]) = u[i]
    BY i = 1 \/ i = 2 \/ i = 3 \/ i = 4 \/ i = 5 \/ i = 6
  <2> QED
    BY <2>1, <2>2
<1>4. s \o t = u
  <2> HIDE DEF s, t, u
  <2> QED
    BY <1>1, <1>2, <1>3, SeqEqual
<1> QED
  BY <1>4

LEMMA Tails ==
  /\ \A a, b, c : Tail(<<a, b, c>>) = <<b, c>>
  /\ \A a, b, c, d : Tail(<<a, b, c, d>>) = <<b, c, d>>
  /\ \A a, b, c, d, e : Tail(<<a, b, c, d, e>>) = <<b, c, d, e>>
  /\ \A a, b, c, d, e, f : Tail(<<a, b, c, d, e, f>>) = <<b, c, d, e, f>>
OBVIOUS

LEMMA LongLists ==
  ASSUME NEW S, NEW a \in S, NEW b \in S, NEW c \in S, NEW d \in S,
         NEW e \in S, NEW f \in S
  PROVE  /\ <<a, b, c, d, e>> \in Seq(S)
         /\ <<a, b, c, d, e, f>> \in Seq(S)
OBVIOUS

(* The calls that an initialization and a reset consist of, and what is    *)
(* left of them.                                                           *)
LEMMA InitializationList ==
  doInitialization =
    <<HalInit, await_data_ready, read_firmware_version>>
BY DEF doInitialization, HalInit

LEMMA ResetList ==
  Reset =
    <<stop_periodic_measurement, HalFree, BounceStep, HalInit,
      await_data_ready, read_firmware_version>>
<1>1. Reset =
        <<stop_periodic_measurement, HalFree, BounceStep>>
          \o <<HalInit, await_data_ready, read_firmware_version>>
  BY InitializationList DEF Reset, HalFree, BounceStep
<1> QED
  BY <1>1, ConcatThree

LEMMA ResetTails ==
  /\ Tail(Reset) = Freeing
  /\ Tail(Freeing) = Bouncing
  /\ Tail(Bouncing) = doInitialization
BY ResetList, InitializationList, Tails DEF Freeing, Bouncing

(* Lists of calls none of which frees the bus.                             *)
Kept == {call \in Calls : call.command # "hal_free"}

LEMMA KeptLists ==
  ASSUME NEW a \in Kept, NEW b \in Kept, NEW c \in Kept, NEW d \in Kept
  PROVE  /\ Scheduled(<<>>) /\ Scheduled(<<a>>) /\ Scheduled(<<a, b>>)
         /\ Scheduled(<<a, b, c>>) /\ Scheduled(<<a, b, c, d>>)
<1>1. KeepsBus(<<>>) /\ KeepsBus(<<a>>) /\ KeepsBus(<<a, b>>)
  BY DEF KeepsBus, Kept
<1>2. KeepsBus(<<a, b, c>>)
  BY DEF KeepsBus, Kept
<1>3. KeepsBus(<<a, b, c, d>>)
  BY DEF KeepsBus, Kept
<1> QED
  BY <1>1, <1>2, <1>3 DEF Scheduled, Kept

LEMMA StepsAreCalls ==
  /\ HalFree \in Calls /\ HalFree.command = "hal_free"
  /\ HalInit \in Kept /\ HalInit.command = "hal_init"
  /\ BounceStep \in Kept /\ BounceStep.command = "bounce power"
<1>1. /\ HalFree \in Calls /\ HalFree.command = "hal_free"
      /\ HalInit \in Calls /\ HalInit.command = "hal_init"
      /\ BounceStep \in Calls /\ BounceStep.command = "bounce power"
  BY DEF HalFree, HalInit, BounceStep, Calls, Step, Steps,
         Call
<1> QED
  BY <1>1 DEF Kept

LEMMA ReadersKeepBus == Readers \subseteq Kept
BY ReadersTransfer DEF Steps, Kept, Calls

LEMMA StopKeepsBus == stop_periodic_measurement \in Kept
BY DEF Kept, Calls, stop_periodic_measurement, Call

LEMMA SettersKeepBus ==
  ASSUME NEW command \in Settings, NEW word \in SUBSET (0..15)
  PROVE  Call(command, <<word>>, 0) \in Kept
<1>1. Call(command, <<word>>, 0) \in Calls
  BY DEF Calls, CallsThatSet
<1>2. Call(command, <<word>>, 0).command = command
  BY DEF Call
<1> QED
  BY <1>1, <1>2 DEF Settings, Kept

LEMMA ReadersInKept ==
  /\ await_data_ready \in Kept /\ read_firmware_version \in Kept
  /\ get_data_ready \in Kept /\ read_measurement_data \in Kept
BY ReadersKeepBus DEF Readers

(* The lists that methods of SCD30Sensor begin with, and the rest of them. *)
LEMMA ScheduledLists ==
  /\ Scheduled(<<>>)
  /\ Scheduled(<<get_data_ready>>)
  /\ Scheduled(<<read_measurement_data>>)
  /\ Scheduled(doInitialization) /\ Scheduled(Bouncing)
  /\ Scheduled(Freeing) /\ Scheduled(Reset)
<1>1. /\ Scheduled(<<>>)
      /\ Scheduled(<<get_data_ready>>)
      /\ Scheduled(<<read_measurement_data>>)
  BY KeptLists, ReadersInKept
<1>2. Scheduled(doInitialization) /\ Scheduled(Bouncing)
  BY KeptLists, ReadersInKept, StepsAreCalls, InitializationList DEF Bouncing
<1>3. Scheduled(Freeing) /\ Scheduled(Reset)
  <2>1. /\ HalFree \in Calls /\ BounceStep \in Calls /\ HalInit \in Calls
        /\ await_data_ready \in Calls
        /\ read_firmware_version \in Calls
        /\ stop_periodic_measurement \in Calls
    BY StepsAreCalls, ReadersInKept, StopKeepsBus DEF Kept
  <2>2. Freeing \in Seq(Calls) /\ Reset \in Seq(Calls)
    BY <2>1, LongLists, ResetList DEF Freeing
  <2> QED
    BY <2>2 DEF Scheduled
<1> QED
  BY <1>1, <1>2, <1>3

LEMMA WordBits == \A n : Word(n) \in SUBSET (0..15)
BY DEF Word

(* startReadings, and the calls of a calibration.                          *)
LEMMA ScheduledStart == Scheduled(startReadings)
<1>1. /\ set_measurement_interval(Word(2)) \in Kept
      /\ start_periodic_measurement({}) \in Kept
  BY SettersKeepBus, WordBits
  DEF set_measurement_interval, start_periodic_measurement,
      Settings
<1> QED
  BY <1>1, KeptLists DEF startReadings

LEMMA ScheduledCalibration ==
  ASSUME NEW command \in Calibrations, NEW word \in SUBSET (0..15)
  PROVE  Scheduled(Calibrate(command, word))
<1> DEFINE interval == set_measurement_interval(Word(2))
           start == start_periodic_measurement({})
           setting == IF command = "recalibration"
                        THEN force_recalibration(word)
                        ELSE set_temperature_offset(word)
<1>1. interval \in Kept /\ start \in Kept
  BY SettersKeepBus, WordBits
  DEF set_measurement_interval, start_periodic_measurement,
      Settings
<1>2. setting \in Kept
  BY SettersKeepBus
  DEF force_recalibration, set_temperature_offset,
      Settings
<1>3. Calibrate(command, word) =
        <<stop_periodic_measurement, setting>> \o <<interval, start>>
  BY DEF Calibrate, startReadings
<1> HIDE DEF interval, start, setting
<1>4. Calibrate(command, word) =
        <<stop_periodic_measurement, setting, interval, start>>
  BY <1>3, ConcatTwo
<1> QED
  BY <1>1, <1>2, <1>4, KeptLists, StopKeepsBus

LEMMA Heads ==
  /\ Head(Reset) = stop_periodic_measurement
  /\ Head(Freeing) = HalFree
  /\ Head(Bouncing) = BounceStep
  /\ Head(doInitialization) = HalInit
  /\ Bouncing # <<>> /\ doInitialization # <<>>
BY ResetList, InitializationList DEF Freeing, Bouncing

LEMMA FirstCall ==
  ASSUME NEW calls, Scheduled(calls), calls # <<>>
  PROVE  /\ Head(calls) \in Calls
         /\ KeepsBus(calls) => Head(calls).command # "hal_free"
<1>1. calls \in Seq(Calls)
  BY DEF Scheduled
<1>2. Head(calls) \in Calls /\ Head(calls) = calls[1] /\ 1 \in DOMAIN calls
  BY <1>1
<1> QED
  BY <1>2 DEF KeepsBus

LEMMA TailScheduled ==
  ASSUME NEW calls, Scheduled(calls), calls # <<>>,
         Head(calls).command # "hal_free"
  PROVE  Scheduled(Tail(calls))
<1>1. CASE calls = Reset
  BY <1>1, ResetTails, ScheduledLists
<1>2. CASE calls = Freeing
  BY <1>2, Heads, StepsAreCalls
<1>3. CASE KeepsBus(calls)
  <2>1. /\ calls \in Seq(Calls) /\ Tail(calls) \in Seq(Calls)
        /\ Len(Tail(calls)) = Len(calls) - 1
        /\ \A i \in 1..Len(Tail(calls)) : Tail(calls)[i] = calls[i + 1]
    BY HeadTailProperties DEF Scheduled
  <2>2. ASSUME NEW i \in DOMAIN Tail(calls)
        PROVE  Tail(calls)[i].command # "hal_free"
    <3>1. i \in 1..Len(Tail(calls)) /\ i + 1 \in DOMAIN calls
      BY <2>1
    <3>2. Tail(calls)[i] = calls[i + 1]
      BY <2>1, <3>1
    <3> QED
      BY <1>3, <3>1, <3>2 DEF KeepsBus
  <2> QED
    BY <2>1, <2>2 DEF Scheduled, KeepsBus
<1> QED
  BY <1>1, <1>2, <1>3 DEF Scheduled

(* Only the rest of a reset begins by freeing the bus.                     *)
LEMMA FreeingFirst ==
  ASSUME NEW calls, Scheduled(calls), calls # <<>>,
         Head(calls).command = "hal_free"
  PROVE  calls = Freeing
<1>1. calls # Reset
  BY Heads, StopKeepsBus DEF Kept
<1>2. ~KeepsBus(calls)
  BY FirstCall
<1> QED
  BY <1>1, <1>2 DEF Scheduled

(* A transfer is made with the bus.                                        *)
LEMMA BusForTransfers ==
  ASSUME BusInv, todo # <<>>,
         Head(todo).command \notin {"hal_init", "bounce power"}
  PROVE  bus /\ i2c
BY Heads, StepsAreCalls DEF BusInv

(* What may follow an answer: the call again, the next one or none, or     *)
(* what its caller does about it.                                          *)
LEMMA ReturnedTodo ==
  ASSUME NEW error, NEW value, BusInv, todo # <<>>, Head(todo) \in Readers,
         Returned(error, value)
  PROVE  Scheduled(todo')
<1>1. todo' \in {todo, Tail(todo), <<>>, startReadings, Reset,
                 <<read_measurement_data>>}
  BY DEF Returned, Readers, AfterDataReady,
         AfterMeasurement
<1>2. Scheduled(Tail(todo))
  BY TailScheduled, ReadersTransfer DEF BusInv, Steps
<1> QED
  BY <1>1, <1>2, ScheduledLists, ScheduledStart DEF BusInv

LEMMA BusInit == DriverInit => BusInv
BY ScheduledLists DEF DriverInit, BusInv

LEMMA BusStep ==
  ASSUME BusInv, [DriverNext]_driverVars
  PROVE  BusInv'
<1>1. CASE Command
  <2>1. todo = <<>> /\ UNCHANGED <<bus, i2c, written>>
    BY <1>1 DEF Command, driver
  <2>2. Scheduled(todo')
    <3>1. CASE todo' = todo
      BY <3>1 DEF BusInv
    <3>2. CASE todo' # todo
      <4>1. PICK command \in Calibrations, t \in Texts :
              \E word \in CalibrationWords(command,
                           CommandParams(t.text)) :
                todo' = Calibrate(command, word)
        BY <1>1, <3>2 DEF Command
      <4>2. CalibrationWords(command, CommandParams(t.text))
              \subseteq SUBSET (0..15)
        BY WordBits DEF CalibrationWords, OffsetWords
      <4> QED
        BY <4>1, <4>2, ScheduledCalibration
    <3> QED
      BY <3>1, <3>2
  <2> QED
    BY <2>1, <2>2, Heads DEF BusInv
<1>2. CASE Update
  <2>1. todo = <<>> /\ UNCHANGED <<bus, i2c, written>>
    BY <1>2 DEF Update, driver
  <2>2. todo' \in {<<get_data_ready>>, doInitialization}
    BY <1>2 DEF Update
  <2> QED
    BY <2>1, <2>2, Heads, ScheduledLists DEF BusInv
<1>3. ASSUME todo # <<>>, Head(todo).command \in Steps
      PROVE  ~written
  BY <1>3, ReadersTransfer DEF BusInv
<1>4. CASE hal_init
  <2>1. /\ todo # <<>> /\ Head(todo).command = "hal_init"
        /\ todo' = Tail(todo) /\ written' = written /\ bus' /\ i2c'
    BY <1>4 DEF hal_init, Calling, init_sensor_bus
  <2>2. ~written
    BY <1>3, <2>1 DEF Steps
  <2>3. Scheduled(Tail(todo))
    BY <2>1, TailScheduled DEF BusInv
  <2> QED
    BY <2>1, <2>2, <2>3 DEF BusInv
<1>5. CASE hal_free
  <2>1. /\ todo # <<>> /\ Head(todo).command = "hal_free"
        /\ todo' = Tail(todo) /\ written' = written /\ ~bus'
    BY <1>5 DEF hal_free, Calling
  <2>2. ~written
    BY <1>3, <2>1 DEF Steps
  <2>3. todo' = Bouncing
    BY <2>1, FreeingFirst, ResetTails DEF BusInv
  <2> QED
    BY <2>1, <2>2, <2>3, ScheduledLists DEF BusInv
<1>6. CASE BouncePower
  <2>1. /\ todo # <<>> /\ Head(todo).command = "bounce power"
        /\ todo' = Tail(todo) /\ UNCHANGED <<bus, i2c, written>>
    BY <1>6 DEF BouncePower, Calling, driver
  <2>2. ~written
    BY <1>3, <2>1 DEF Steps
  <2>3. Scheduled(Tail(todo))
    BY <2>1, TailScheduled DEF BusInv
  <2>4. bus \/ todo = Bouncing
    BY <2>1, Heads, StepsAreCalls DEF BusInv
  <2> QED
    BY <2>1, <2>2, <2>3, <2>4, ResetTails DEF BusInv
<1>7. CASE WriteCommand
  <2> DEFINE call == Head(todo)
  <2>1. /\ todo # <<>> /\ call.command \notin Steps
        /\ UNCHANGED <<bus, i2c>>
    BY <1>7 DEF WriteCommand
  <2>2. \/ call.expected > 0 /\ Returned(TRUE, <<>>) /\ ~written'
        \/ call.expected > 0 /\ todo' = todo
        \/ todo' = Tail(todo) /\ ~written'
    BY <1>7 DEF WriteCommand
  <2>3. bus /\ i2c
    BY <2>1, BusForTransfers DEF Steps
  <2>4. call.expected > 0 => call \in Readers
    BY <2>1, FirstCall, ReadersExpect DEF BusInv
  <2>5. CASE call.expected > 0 /\ Returned(TRUE, <<>>) /\ ~written'
    BY <2>1, <2>3, <2>4, <2>5, ReturnedTodo DEF BusInv
  <2>6. CASE call.expected > 0 /\ todo' = todo
    BY <2>1, <2>3, <2>4, <2>6 DEF BusInv
  <2>7. CASE todo' = Tail(todo) /\ ~written'
    BY <2>1, <2>3, <2>7, TailScheduled DEF BusInv, Steps
  <2> QED
    BY <2>2, <2>5, <2>6, <2>7
<1>8. CASE ReadAnswer
  <2>1. /\ written /\ written' = FALSE /\ UNCHANGED <<bus, i2c>>
        /\ \E error, value : Returned(error, value)
    BY <1>8 DEF ReadAnswer
  <2>2. todo # <<>> /\ Head(todo) \in Readers
    BY <2>1 DEF BusInv
  <2>3. Scheduled(todo')
    BY <2>1, <2>2, ReturnedTodo
  <2>4. bus /\ i2c
    BY <2>2, BusForTransfers, ReadersTransfer DEF Steps
  <2> QED
    BY <2>1, <2>3, <2>4 DEF BusInv
<1>9. CASE Measure \/ UNCHANGED driverVars
  BY <1>9 DEF Measure, driverVars, driver, BusInv
<1> QED
  BY <1>1, <1>2, <1>4, <1>5, <1>6, <1>7, <1>8, <1>9 DEF DriverNext

(* Every transfer, and the deinitialization, finds a bus, and one whose    *)
(* peripheral is initialized, whatever fails, for all texts, noise and     *)
(* measurements and any number of control messages (the assertions of      *)
(* sensirion_pico_i2c_hal.c:79, 96 and 115).                               *)
THEOREM TransfersFindABus == DriverSpec => []TransfersHaveABus
<1>1. BusInv => TransfersHaveABus
  BY BusForTransfers DEF BusInv, TransfersHaveABus
<1> QED
  BY BusInit, BusStep, <1>1, PTL DEF DriverSpec

----------------------------------------------------------------------------
Byte == SUBSET (0..7)

(* Exclusive or, as the bits that are in one of the two but not in both.   *)
LEMMA SymDiffBits ==
  \A a, b, x : x \in SymDiff(a, b) <=> ~(x \in a <=> x \in b)
BY DEF SymDiff

(* Exclusive or is commutative and associative, and undoes itself.         *)
LEMMA SymDiffLaws ==
  ASSUME NEW a, NEW b, NEW c
  PROVE  /\ SymDiff(a, b) = SymDiff(b, a)
         /\ SymDiff(a, SymDiff(b, c)) = SymDiff(SymDiff(a, b), c)
         /\ SymDiff(a, {}) = a /\ SymDiff({}, a) = a /\ SymDiff(a, a) = {}
BY DEF SymDiff

(* A round keeps to eight bits, and which of them it sets.                 *)
LEMMA RoundBits ==
  ASSUME NEW a \in Byte
  PROVE  /\ Round(a) \in Byte
         /\ \A x \in 0..7 :
              x \in Round(a) <=>
                ~((x # 0 /\ x - 1 \in a) <=> (7 \in a /\ x \in CRC8_POLYNOMIAL))
<1> DEFINE shifted == Shifted(a \ {7}, 1)
<1>1. \A x : x \in shifted <=> \E b \in a \ {7} : x = b + 1
  BY DEF Shifted
<1>2. shifted \in Byte
  BY <1>1 DEF Byte
<1>3. ASSUME NEW x \in 0..7
      PROVE  x \in shifted <=> x # 0 /\ x - 1 \in a
  BY <1>1 DEF Byte
<1> HIDE DEF shifted
<1>4. Round(a) = IF 7 \in a THEN SymDiff(shifted, CRC8_POLYNOMIAL) ELSE shifted
  BY DEF Round, shifted
<1>5. Round(a) \in Byte
  BY <1>2, <1>4 DEF Byte, SymDiff, CRC8_POLYNOMIAL
<1> QED
  BY <1>3, <1>4, <1>5, SymDiffBits

(* A round is linear.                                                      *)
LEMMA RoundIsLinear ==
  ASSUME NEW a \in Byte, NEW b \in Byte
  PROVE  /\ SymDiff(a, b) \in Byte
         /\ Round(SymDiff(a, b)) = SymDiff(Round(a), Round(b))
<1>1. SymDiff(a, b) \in Byte
  BY DEF Byte, SymDiff
<1>2. ASSUME NEW x \in 0..7
      PROVE  x \in Round(SymDiff(a, b)) <=> x \in SymDiff(Round(a), Round(b))
  BY <1>1, RoundBits, SymDiffBits
<1>3. Round(SymDiff(a, b)) \in Byte /\ SymDiff(Round(a), Round(b)) \in Byte
  BY <1>1, RoundBits DEF Byte, SymDiff
<1> QED
  BY <1>1, <1>2, <1>3 DEF Byte

(* So are eight rounds, one byte's share of the checksum.                  *)
LEMMA EightRoundsAreLinear ==
  ASSUME NEW a \in Byte, NEW b \in Byte
  PROVE  /\ EightRounds[a] \in Byte
         /\ EightRounds[SymDiff(a, b)] = SymDiff(EightRounds[a], EightRounds[b])
<1> DEFINE R(x) == Round(Round(x))
           Q(x) == R(R(x))
<1>1. ASSUME NEW x \in Byte, NEW y \in Byte
      PROVE  R(x) \in Byte /\ R(SymDiff(x, y)) = SymDiff(R(x), R(y))
  BY RoundBits, RoundIsLinear
<1>2. ASSUME NEW x \in Byte, NEW y \in Byte
      PROVE  Q(x) \in Byte /\ Q(SymDiff(x, y)) = SymDiff(Q(x), Q(y))
  <2> HIDE DEF R
  <2> QED
    BY <1>1
<1>3. ASSUME NEW x \in Byte
      PROVE  EightRounds[x] = Q(Q(x))
  BY DEF EightRounds, Byte
<1>4. SymDiff(a, b) \in Byte
  BY RoundIsLinear
<1> HIDE DEF Q
<1> QED
  BY <1>2, <1>3, <1>4

----------------------------------------------------------------------------
(* The checksum of the interface description: powers of x.                 *)
LEMMA ResidueEquation ==
  \A k \in 0..23 :
    Residue[k] = IF k < 8 THEN {k}
                 ELSE LET power == Shifted(Residue[k - 1], 1)
                      IN  IF 8 \in power THEN SymDiff(power \ {8}, {0, 4, 5})
                          ELSE power
<1> DEFINE Next1(v) == LET power == Shifted(v, 1)
                       IN  IF 8 \in power THEN SymDiff(power \ {8}, {0, 4, 5})
                           ELSE power
           V == SUBSET Int
           op == [p \in (1..23) \X V |-> IF p[1] < 8 THEN {p[1]} ELSE Next1(p[2])]
<1>1. \A v \in V : Next1(v) \in V
  BY DEF Shifted, SymDiff
<1>2. op \in [(1..23) \X V -> V] /\ {0} \in V
  <2> HIDE DEF Next1
  <2> QED
    BY <1>1
<1>3. PICK it \in [SUBSET (1..23) -> V] : StepsLeft(23, {0}, op, it)
  <2> HIDE DEF op, V
  <2>1. 23 \in Nat
    OBVIOUS
  <2> QED
    BY <1>2, <2>1, LeftFoldExists
<1> DEFINE g == [k \in 0..23 |-> it[1..k]]
           Eq(f) == f = [k \in 0..23 |-> IF k < 8 THEN {k} ELSE Next1(f[k - 1])]
<1>4. Eq(g)
  <2> HIDE DEF Next1
  <2>1. ASSUME NEW k \in 0..23
        PROVE  it[1..k] = IF k < 8 THEN {k} ELSE Next1(it[1..k-1])
    <3>1. CASE k = 0
      <4>1. it[1..0] = {0}
        BY <1>3 DEF StepsLeft
      <4> QED
        BY <3>1, <4>1
    <3>2. CASE k # 0
      <4>1. k \in 1..23 /\ 1..k-1 \in SUBSET (1..23)
        BY <3>2
      <4>2. it[1..k] = op[<<k, it[1..k-1]>>]
        BY <1>3, <4>1 DEF StepsLeft
      <4>3. <<k, it[1..k-1]>> \in (1..23) \X V
        BY <1>3, <4>1
      <4> QED
        BY <4>2, <4>3
    <3> QED
      BY <3>1, <3>2
  <2>2. ASSUME NEW k \in 0..23, ~(k < 8)
        PROVE  g[k - 1] = it[1..k-1]
    <3>1. k - 1 \in 0..23
      BY <2>2
    <3> QED
      BY <3>1
  <2> QED
    BY <2>1, <2>2
<1>5. Residue = CHOOSE f : Eq(f)
  BY DEF Residue
<1>6. Eq(Residue)
  <2> HIDE DEF Eq, g
  <2> QED
    BY <1>4, <1>5
<1> HIDE DEF Next1
<1>7. \A k \in 0..23 : Residue[k] = IF k < 8 THEN {k} ELSE Next1(Residue[k - 1])
  BY <1>6
<1> QED
  BY <1>7 DEF Next1

(* The next power of x is a round of the register away.                    *)
LEMMA ResidueSteps ==
  /\ \A k \in 0..23 : Residue[k] \in Byte
  /\ \A k \in 0..7 : Residue[k] = {k}
  /\ \A k \in 0..22 : Residue[k + 1] = Round(Residue[k])
<1>1. \A k \in 0..7 : Residue[k] = {k}
  BY ResidueEquation
<1>2. ASSUME NEW k \in 7..22, Residue[k] \in Byte
      PROVE  Residue[k + 1] = Round(Residue[k])
  <2> DEFINE v == Residue[k]
             power == Shifted(v, 1)
  <2>1. k + 1 \in 0..23 /\ ~(k + 1 < 8) /\ k + 1 - 1 = k
    OBVIOUS
  <2>2. Residue[k + 1] = IF 8 \in power THEN SymDiff(power \ {8}, {0, 4, 5}) ELSE power
    <3>1. PICK j \in 0..23 : j = k + 1 /\ ~(j < 8) /\ j - 1 = k
      BY <2>1
    <3>2. Residue[j] = IF j < 8 THEN {j}
                       ELSE LET w == Shifted(Residue[j - 1], 1)
                            IN  IF 8 \in w THEN SymDiff(w \ {8}, {0, 4, 5}) ELSE w
      BY ResidueEquation
    <3> QED
      BY <3>1, <3>2
  <2>3. v \in Byte
    BY <1>2
  <2> HIDE DEF v
  <2>4. 8 \in power <=> 7 \in v
    BY <2>3 DEF Shifted, Byte
  <2>5. Shifted(v \ {7}, 1) = power \ {8}
    BY <2>3 DEF Shifted, Byte
  <2>6. 8 \notin power => power \ {8} = power
    OBVIOUS
  <2> HIDE DEF power
  <2>7. Round(v) = IF 7 \in v THEN SymDiff(power \ {8}, {0, 4, 5}) ELSE power \ {8}
    BY <2>5 DEF Round, CRC8_POLYNOMIAL
  <2>8. Residue[k + 1] = Round(v)
    BY <2>2, <2>4, <2>6, <2>7
  <2> QED
    BY <2>8 DEF v
<1>3. ASSUME NEW k \in 0..6
      PROVE  Residue[k + 1] = Round(Residue[k])
  <2>1. Residue[k] = {k} /\ Residue[k + 1] = {k + 1}
    BY <1>1
  <2>2. Shifted({k} \ {7}, 1) = {k + 1} /\ 7 \notin {k}
    BY DEF Shifted
  <2> QED
    BY <2>1, <2>2 DEF Round
<1> DEFINE S == {k \in Nat : k <= 23 => Residue[k] \in Byte}
<1>4. 0 \in S
  BY <1>1 DEF Byte
<1>5. ASSUME NEW k \in Nat, k \in S
      PROVE  k + 1 \in S
  <2> SUFFICES ASSUME k + 1 <= 23
               PROVE  Residue[k + 1] \in Byte
    OBVIOUS
  <2>1. Residue[k] \in Byte
    BY <1>5
  <2>2. k \in 0..6 \/ k \in 7..22
    OBVIOUS
  <2>3. Residue[k + 1] = Round(Residue[k])
    BY <1>2, <1>3, <2>1, <2>2
  <2> QED
    BY <2>1, <2>3, RoundBits
<1>6. Nat \subseteq S
  <2> HIDE DEF S
  <2> QED
    BY <1>4, <1>5, Induction
<1>7. \A k \in 0..23 : Residue[k] \in Byte
  BY <1>6
<1>8. ASSUME NEW k \in 0..22
      PROVE  Residue[k + 1] = Round(Residue[k])
  <2>1. k \in 0..6 \/ (k \in 7..22 /\ k \in 0..23)
    OBVIOUS
  <2> QED
    BY <1>2, <1>3, <1>7, <2>1
<1> QED
  BY <1>1, <1>7, <1>8

(* Eight rounds multiply by x^8.                                           *)
LEMMA EightRoundsOfResidue ==
  ASSUME NEW k \in 0..15
  PROVE  EightRounds[Residue[k]] = Residue[k + 8]
<1>1. /\ Residue[k] \in Byte
      /\ Residue[k + 1] = Round(Residue[k])
      /\ Residue[k + 1 + 1] = Round(Residue[k + 1])
      /\ Residue[k + 2 + 1] = Round(Residue[k + 2])
      /\ Residue[k + 3 + 1] = Round(Residue[k + 3])
      /\ Residue[k + 4 + 1] = Round(Residue[k + 4])
      /\ Residue[k + 5 + 1] = Round(Residue[k + 5])
      /\ Residue[k + 6 + 1] = Round(Residue[k + 6])
      /\ Residue[k + 7 + 1] = Round(Residue[k + 7])
  <2>1. /\ k \in 0..22 /\ k + 1 \in 0..22 /\ k + 2 \in 0..22 /\ k + 3 \in 0..22
        /\ k + 4 \in 0..22 /\ k + 5 \in 0..22 /\ k + 6 \in 0..22 /\ k + 7 \in 0..22
    OBVIOUS
  <2> QED
    BY <2>1, ResidueSteps
<1>2. /\ k + 1 + 1 = k + 2 /\ k + 2 + 1 = k + 3 /\ k + 3 + 1 = k + 4
      /\ k + 4 + 1 = k + 5 /\ k + 5 + 1 = k + 6 /\ k + 6 + 1 = k + 7
      /\ k + 7 + 1 = k + 8
  OBVIOUS
<1> QED
  BY <1>1, <1>2 DEF EightRounds, Byte

(* generate_crc of a word, byte by byte.                                   *)
LEMMA CrcOfTwoBytes ==
  ASSUME NEW a \in Byte, NEW b \in Byte
  PROVE  generate_crc(<<a, b>>) = EightRounds[SymDiff(EightRounds[SymDiff(0..7, a)], b)]
<1> DEFINE seq == <<a, b>>
           D == 1..2
           Folded(c) ==
             c = [s \in SUBSET D |->
                    IF s = {} THEN 0..7
                    ELSE LET x == Max(s)
                         IN EightRounds[SymDiff(c[s \ {x}], seq[x])]]
           first == EightRounds[SymDiff(0..7, a)]
           second == EightRounds[SymDiff(first, b)]
           c2 == EightRounds[SymDiff(0..7, b)]
           g == [s \in SUBSET D |-> IF s = {} THEN 0..7
                                    ELSE IF s = {1} THEN first
                                    ELSE IF s = {2} THEN c2
                                    ELSE second]
<1>1. Max({1}) = 1 /\ Max({2}) = 2 /\ Max({1, 2}) = 2
  <2>1. ASSUME NEW S \in SUBSET D, S # {}
        PROVE  Max(S) \in S /\ \A y \in S : y <= Max(S)
    BY <2>1, 2 \in Nat, GreatestElement
  <2>2. {1} \in SUBSET D /\ {2} \in SUBSET D /\ {1, 2} \in SUBSET D
    OBVIOUS
  <2> QED
    BY <2>1, <2>2
<1>2. ASSUME NEW s \in SUBSET D
      PROVE  s = {} \/ s = {1} \/ s = {2} \/ s = {1, 2}
  <2>1. \A x \in s : x = 1 \/ x = 2
    OBVIOUS
  <2> HIDE DEF D
  <2> QED
    BY <2>1, Zenon
<1>3. Folded(g)
  <2>1. ASSUME NEW s \in SUBSET D
        PROVE  g[s] = IF s = {} THEN 0..7
                      ELSE LET x == Max(s)
                           IN EightRounds[SymDiff(g[s \ {x}], seq[x])]
    <3> HIDE DEF first, second, c2
    <3>1. {1} \ {1} = {} /\ {2} \ {2} = {} /\ {1, 2} \ {2} = {1}
      OBVIOUS
    <3>2. g[{}] = 0..7 /\ g[{1}] = first /\ g[{2}] = c2 /\ g[{1, 2}] = second
      OBVIOUS
    <3> HIDE DEF g
    <3>3. CASE s = {1}
      BY <1>1, <3>1, <3>2, <3>3 DEF first
    <3>4. CASE s = {2}
      BY <1>1, <3>1, <3>2, <3>4 DEF c2
    <3>5. CASE s = {1, 2}
      BY <1>1, <3>1, <3>2, <3>5 DEF second
    <3> QED
      BY <1>2, <3>2, <3>3, <3>4, <3>5
  <2>2. g = [s \in SUBSET D |-> g[s]]
    OBVIOUS
  <2> HIDE DEF g
  <2> QED
    BY <2>1, <2>2
<1> DEFINE c == CHOOSE c : Folded(c)
<1>4. Folded(c)
  <2> HIDE DEF Folded, g
  <2> QED
    BY <1>3
<1>5. generate_crc(<<a, b>>) = c[D]
  <2>1. DOMAIN seq = D
    OBVIOUS
  <2> QED
    BY <2>1 DEF generate_crc, FoldLeft, MapThenFoldSet
<1> HIDE DEF c
<1>6. c[{}] = 0..7
  BY <1>4
<1>7. c[{1}] = first
  <2>1. {1} \in SUBSET D /\ {1} # {} /\ {1} \ {1} = {} /\ seq[1] = a
    OBVIOUS
  <2>2. c[{1}] = EightRounds[SymDiff(c[{1} \ {1}], seq[1])]
    BY <1>1, <1>4, <2>1
  <2> QED
    BY <1>6, <2>1, <2>2
<1>8. c[{1, 2}] = second
  <2>1. {1, 2} \in SUBSET D /\ {1, 2} # {} /\ {1, 2} \ {2} = {1} /\ seq[2] = b
    OBVIOUS
  <2>2. c[{1, 2}] = EightRounds[SymDiff(c[{1, 2} \ {2}], seq[2])]
    BY <1>1, <1>4, <2>1
  <2> QED
    BY <1>7, <2>1, <2>2
<1>9. D = {1, 2}
  OBVIOUS
<1> QED
  BY <1>5, <1>8, <1>9

(* What the register holds after two bytes when it began with no bit set.  *)
Register(high, low) == EightRounds[SymDiff(EightRounds[high], low)]

(* The register is linear in the two bytes together.                       *)
LEMMA RegisterIsLinear ==
  ASSUME NEW a \in Byte, NEW b \in Byte, NEW c \in Byte, NEW d \in Byte
  PROVE  /\ Register(a, b) \in Byte
         /\ Register(SymDiff(a, c), SymDiff(b, d))
              = SymDiff(Register(a, b), Register(c, d))
<1> DEFINE ea == EightRounds[a]
           ec == EightRounds[c]
<1>1. /\ ea \in Byte /\ ec \in Byte /\ SymDiff(a, c) \in Byte /\ SymDiff(b, d) \in Byte
      /\ EightRounds[SymDiff(a, c)] = SymDiff(ea, ec)
  BY EightRoundsAreLinear, RoundIsLinear
<1> HIDE DEF ea, ec
<1>2. SymDiff(SymDiff(ea, ec), SymDiff(b, d)) = SymDiff(SymDiff(ea, b), SymDiff(ec, d))
  BY DEF SymDiff
<1>3. SymDiff(ea, b) \in Byte /\ SymDiff(ec, d) \in Byte
  BY <1>1, RoundIsLinear
<1>4. EightRounds[SymDiff(SymDiff(ea, b), SymDiff(ec, d))]
        = SymDiff(EightRounds[SymDiff(ea, b)], EightRounds[SymDiff(ec, d)])
  BY <1>3, EightRoundsAreLinear
<1>5. EightRounds[SymDiff(ea, b)] \in Byte
  BY <1>3, EightRoundsAreLinear
<1> QED
  BY <1>1, <1>2, <1>4, <1>5 DEF Register, ea, ec

(* The two bytes of a word, and the word that they make.                   *)
LEMMA HalvesOfWord ==
  ASSUME NEW word \in SUBSET (0..15)
  PROVE  /\ High(word) \in Byte /\ Low(word) \in Byte
         /\ \A x \in 0..7 : /\ x \in High(word) <=> x + 8 \in word
                            /\ x \in Low(word) <=> x \in word
         /\ Shifted(High(word), 8) \cup Low(word) = word
<1>1. High(word) \in Byte /\ Low(word) \in Byte
  BY DEF High, Low, Byte
<1>2. ASSUME NEW x \in 0..7
      PROVE  /\ x \in High(word) <=> x + 8 \in word
             /\ x \in Low(word) <=> x \in word
  <2>1. x + 8 \notin 0..7 /\ x + 8 - 8 = x
    OBVIOUS
  <2>2. x + 8 \in word => x \in High(word)
    BY <2>1 DEF High
  <2>3. ASSUME x \in High(word)
        PROVE  x + 8 \in word
    <3>1. PICK b \in word \ (0..7) : x = b - 8
      BY <2>3 DEF High
    <3>2. x + 8 = b
      BY <3>1
    <3> QED
      BY <3>1, <3>2
  <2> QED
    BY <2>2, <2>3 DEF Low
<1>3. Shifted(High(word), 8) \cup Low(word) = word
  <2>1. ASSUME NEW y \in Shifted(High(word), 8)
        PROVE  y \in word
    <3>1. PICK x \in High(word) : y = x + 8
      BY <2>1 DEF Shifted
    <3> QED
      BY <1>1, <1>2, <3>1 DEF Byte
  <2>2. ASSUME NEW y \in word, y \notin 0..7
        PROVE  y \in Shifted(High(word), 8)
    <3>1. y - 8 \in High(word) /\ (y - 8) + 8 = y
      BY <2>2 DEF High
    <3> QED
      BY <3>1 DEF Shifted
  <2> QED
    BY <2>1, <2>2 DEF Low
<1> QED
  BY <1>1, <1>2, <1>3

(* A bit of the word adds the power of x that stands for it.               *)
LEMMA RegisterWithBit ==
  ASSUME NEW word \in SUBSET (0..15), NEW bit \in word
  PROVE  Register(High(word), Low(word))
           = SymDiff(Residue[bit + 8],
                     Register(High(word \ {bit}), Low(word \ {bit})))
<1> DEFINE rest == word \ {bit}
<1>1. /\ rest \in SUBSET (0..15) /\ bit \in 0..15
      /\ High(rest) \in Byte /\ Low(rest) \in Byte
  BY HalvesOfWord
<1>2. {} \in Byte /\ EightRounds[{}] = {}
  <2>1. {} \in Byte /\ SymDiff({}, {}) = {}
    BY DEF Byte, SymDiff
  <2>2. EightRounds[{}] = SymDiff(EightRounds[{}], EightRounds[{}])
    BY <2>1, EightRoundsAreLinear
  <2> QED
    BY <2>1, <2>2 DEF SymDiff
<1>3. CASE bit <= 7
  <2>1. /\ {bit} \in Byte
        /\ EightRounds[{bit}] = Residue[bit + 8]
    <3>1. bit \in 0..7 /\ bit \in 0..15
      BY <1>1, <1>3
    <3>2. Residue[bit] = {bit} /\ EightRounds[Residue[bit]] = Residue[bit + 8]
      BY <3>1, ResidueSteps, EightRoundsOfResidue
    <3> QED
      BY <3>1, <3>2 DEF Byte
  <2>2. Low(word) = SymDiff({bit}, Low(rest))
    BY <1>1, <1>3 DEF Low, SymDiff
  <2>3. High(word) = High(rest)
    BY <1>1, <1>3 DEF High
  <2>4. SymDiff({}, High(rest)) = High(rest) /\ SymDiff({}, {bit}) = {bit}
    BY DEF SymDiff
  <2>5. Register({}, {bit}) = Residue[bit + 8]
    BY <1>2, <2>1, <2>4 DEF Register
  <2>6. Register(SymDiff({}, High(rest)), SymDiff({bit}, Low(rest)))
          = SymDiff(Register({}, {bit}), Register(High(rest), Low(rest)))
    BY <1>1, <1>2, <2>1, RegisterIsLinear
  <2> QED
    BY <2>2, <2>3, <2>4, <2>5, <2>6
<1>4. CASE bit > 7
  <2>1. /\ bit - 8 \in 0..7 /\ (bit - 8) + 8 = bit /\ bit \in 0..15
        /\ {bit - 8} \in Byte
        /\ Residue[bit - 8] = {bit - 8}
    BY <1>1, <1>4, ResidueSteps DEF Byte
  <2>2. EightRounds[{bit - 8}] = Residue[bit]
    <3>1. PICK k \in 0..15 : k = bit - 8 /\ k + 8 = bit
      BY <2>1
    <3>2. EightRounds[Residue[k]] = Residue[k + 8]
      BY EightRoundsOfResidue
    <3> QED
      BY <2>1, <3>1, <3>2
  <2>3. EightRounds[Residue[bit]] = Residue[bit + 8] /\ Residue[bit] \in Byte
    BY <2>1, ResidueSteps, EightRoundsOfResidue
  <2>4. High(word) = SymDiff({bit - 8}, High(rest))
    <3>1. \A x \in 0..7 : x + 8 = bit <=> x = bit - 8
      BY <2>1
    <3>2. ASSUME NEW x \in 0..7
          PROVE  x \in High(word) <=> ~(x \in {bit - 8} <=> x \in High(rest))
      BY <1>1, <3>1, HalvesOfWord
    <3>3. High(word) \in Byte /\ {bit - 8} \in Byte
      BY <2>1, HalvesOfWord
    <3> HIDE DEF rest
    <3> QED
      BY <1>1, <3>2, <3>3 DEF Byte, SymDiff
  <2>5. Low(word) = Low(rest)
    BY <1>1, <1>4 DEF Low
  <2>6. SymDiff({}, Low(rest)) = Low(rest) /\ SymDiff(Residue[bit], {}) = Residue[bit]
    BY DEF SymDiff
  <2>7. Register({bit - 8}, {}) = Residue[bit + 8]
    BY <2>2, <2>3, <2>6 DEF Register
  <2>8. Register(SymDiff({bit - 8}, High(rest)), SymDiff({}, Low(rest)))
          = SymDiff(Register({bit - 8}, {}), Register(High(rest), Low(rest)))
    BY <1>1, <1>2, <2>1, RegisterIsLinear
  <2> QED
    BY <2>4, <2>5, <2>6, <2>7, <2>8
<1> QED
  BY <1>1, <1>3, <1>4

(* The remainder that the interface description defines, bit by bit.       *)
LEMMA ChecksumOfWord ==
  ASSUME NEW word \in SUBSET (0..15)
  PROVE  Checksum(word) = Register(SymDiff(0..7, High(word)), Low(word))
<1> DEFINE D == SymDiff(word, 8..15)
           Folded(c) ==
             c = [s \in SUBSET D |->
                    IF s = {} THEN {}
                    ELSE LET x == CHOOSE x \in s : TRUE
                         IN SymDiff(Residue[x + 8], c[s \ {x}])]
           g == [s \in SUBSET D |-> Register(High(s), Low(s))]
<1>1. D \in SUBSET (0..15)
  BY DEF SymDiff
<1>2. Register(High({}), Low({})) = {}
  <2>1. High({}) = {} /\ Low({}) = {} /\ {} \in Byte
    BY DEF High, Low, Byte
  <2>2. SymDiff({}, {}) = {}
    BY DEF SymDiff
  <2>3. Register({}, {}) = SymDiff(Register({}, {}), Register({}, {}))
    <3>1. Register(SymDiff({}, {}), SymDiff({}, {}))
            = SymDiff(Register({}, {}), Register({}, {}))
      BY <2>1, RegisterIsLinear
    <3> QED
      BY <2>2, <3>1
  <2> QED
    BY <2>1, <2>3 DEF SymDiff
<1>3. Folded(g)
  <2>1. ASSUME NEW s \in SUBSET D, s # {}
        PROVE  g[s] = LET x == CHOOSE x \in s : TRUE
                      IN SymDiff(Residue[x + 8], g[s \ {x}])
    <3> DEFINE x == CHOOSE x \in s : TRUE
    <3>1. x \in s
      BY <2>1
    <3> HIDE DEF x
    <3>2. s \in SUBSET (0..15) /\ s \ {x} \in SUBSET D
      BY <1>1
    <3>3. Register(High(s), Low(s))
            = SymDiff(Residue[x + 8], Register(High(s \ {x}), Low(s \ {x})))
      BY <3>1, <3>2, RegisterWithBit
    <3>4. g[s] = SymDiff(Residue[x + 8], g[s \ {x}])
      <4> HIDE DEF D
      <4> QED
        BY <3>2, <3>3
    <3> HIDE DEF g
    <3> QED
      BY <3>4 DEF x
  <2>2. g[{}] = {}
    BY <1>2
  <2>3. g = [s \in SUBSET D |-> g[s]]
    OBVIOUS
  <2> HIDE DEF g, D
  <2> QED
    BY <2>1, <2>2, <2>3
<1> DEFINE c == CHOOSE c : Folded(c)
<1>4. Folded(c)
  <2> HIDE DEF Folded, g
  <2> QED
    BY <1>3
<1>5. Checksum(word) = c[D]
  BY DEF Checksum, FoldSet, MapThenFoldSet
<1> HIDE DEF c
<1> DEFINE S == {s \in SUBSET D : c[s] = Register(High(s), Low(s))}
<1>6. ASSUME NEW T \in SUBSET D, \A U \in SUBSET T : U # T => U \in S
      PROVE  T \in S
  <2>1. CASE T = {}
    <3>1. c[{}] = {}
      <4> HIDE DEF D
      <4> QED
        BY <1>4
    <3> QED
      BY <1>2, <2>1, <3>1
  <2>2. CASE T # {}
    <3> DEFINE x == CHOOSE x \in T : TRUE
    <3>1. x \in T /\ c[T] = SymDiff(Residue[x + 8], c[T \ {x}])
      <4> HIDE DEF D
      <4> QED
        BY <1>4, <2>2
    <3> HIDE DEF x
    <3>2. T \ {x} \in S
      BY <1>6, <3>1
    <3>3. T \in SUBSET (0..15)
      BY <1>1
    <3>4. Register(High(T), Low(T))
            = SymDiff(Residue[x + 8], Register(High(T \ {x}), Low(T \ {x})))
      BY <3>1, <3>3, RegisterWithBit
    <3> HIDE DEF D
    <3> QED
      BY <3>1, <3>2, <3>4
  <2> QED
    BY <2>1, <2>2
<1>7. D \in S
  <2>1. IsFiniteSet(D)
    <3>1. IsFiniteSet(0..15)
      BY 0 \in Int, 15 \in Int, FS_Interval
    <3> HIDE DEF D
    <3> QED
      BY <1>1, <3>1, FS_Subset
  <2> HIDE DEF S, D
  <2> QED
    BY <1>6, <2>1, SubsetInduction
<1>8. Low(D) = Low(word)
  BY DEF Low, SymDiff
<1>9. High(D) = SymDiff(0..7, High(word))
  <2>1. ASSUME NEW x \in 0..7
        PROVE  x \in High(D) <=> x \in SymDiff(0..7, High(word))
    <3>1. x + 8 \in 8..15
      OBVIOUS
    <3>2. x \in High(D) <=> x + 8 \in D
      <4> HIDE DEF D
      <4> QED
        BY <1>1, HalvesOfWord
    <3>3. x \in High(word) <=> x + 8 \in word
      BY HalvesOfWord
    <3> QED
      BY <3>1, <3>2, <3>3 DEF SymDiff
  <2>2. High(D) \in Byte /\ SymDiff(0..7, High(word)) \in Byte
    <3>1. High(D) \in Byte
      <4> HIDE DEF D
      <4> QED
        BY <1>1, HalvesOfWord
    <3>2. 0..7 \in Byte /\ High(word) \in Byte
      BY HalvesOfWord DEF Byte
    <3> QED
      BY <3>1, <3>2, RoundIsLinear
  <2> HIDE DEF D
  <2> QED
    BY <2>1, <2>2 DEF Byte
<1> HIDE DEF D
<1> QED
  BY <1>5, <1>7, <1>8, <1>9

(* The driver's shift register and the sensor's remainder are the same     *)
(* checksum: of every word, not of the words of an instance                *)
(* (sensirion_common.c:60-85).                                             *)
THEOREM ChecksumsAgree ==
  \A word \in SUBSET (0..15) :
    generate_crc(<<High(word), Low(word)>>) = Checksum(word)
<1> TAKE word \in SUBSET (0..15)
<1>1. High(word) \in Byte /\ Low(word) \in Byte
  BY HalvesOfWord
<1> QED
  BY <1>1, CrcOfTwoBytes, ChecksumOfWord DEF Register

(* The bits of a word and its checksum, the checksum's last; and what a    *)
(* change of them does to the comparison of the two.                       *)
WordPart(bits) == {b - 8 : b \in bits \ (0..7)}

Syndrome(bits) ==
  SymDiff(Register(High(WordPart(bits)), Low(WordPart(bits))), bits \cap (0..7))

(* What of a set of the 24 bits is in the word.                            *)
LEMMA WordPartBits ==
  ASSUME NEW bits \in SUBSET (0..23)
  PROVE  /\ WordPart(bits) \in SUBSET (0..15)
         /\ \A x \in 0..15 : x \in WordPart(bits) <=> x + 8 \in bits
         /\ bits \cap (0..7) \in Byte
         /\ Register(High(WordPart(bits)), Low(WordPart(bits))) \in Byte
         /\ Syndrome(bits) \in Byte
<1>1. WordPart(bits) \in SUBSET (0..15)
  BY DEF WordPart
<1>2. ASSUME NEW x \in 0..15
      PROVE  x \in WordPart(bits) <=> x + 8 \in bits
  <2>1. x + 8 \notin 0..7 /\ x + 8 - 8 = x
    OBVIOUS
  <2>2. x + 8 \in bits => x \in WordPart(bits)
    BY <2>1 DEF WordPart
  <2>3. ASSUME x \in WordPart(bits)
        PROVE  x + 8 \in bits
    <3>1. PICK b \in bits \ (0..7) : x = b - 8
      BY <2>3 DEF WordPart
    <3>2. x + 8 = b
      BY <3>1
    <3> QED
      BY <3>1, <3>2
  <2> QED
    BY <2>2, <2>3
<1>3. bits \cap (0..7) \in Byte
  BY DEF Byte
<1>4. Register(High(WordPart(bits)), Low(WordPart(bits))) \in Byte
  BY <1>1, HalvesOfWord, RegisterIsLinear
<1>5. Syndrome(bits) \in Byte
  BY <1>3, <1>4, RoundIsLinear DEF Syndrome
<1> QED
  BY <1>1, <1>2, <1>3, <1>4, <1>5

(* A further bit adds its own power of x to the syndrome.                  *)
LEMMA SyndromeWithBit ==
  ASSUME NEW bits \in SUBSET (0..23), NEW bit \in bits
  PROVE  Syndrome(bits) = SymDiff(Residue[bit], Syndrome(bits \ {bit}))
<1> DEFINE rest == bits \ {bit}
           w == WordPart(bits)
           v == WordPart(rest)
<1>1. rest \in SUBSET (0..23) /\ bit \in 0..23
      /\ w \in SUBSET (0..15) /\ v \in SUBSET (0..15)
  BY WordPartBits
<1>2. CASE bit <= 7
  <2>1. Residue[bit] = {bit}
    BY <1>1, <1>2, ResidueSteps
  <2>2. w = v
    BY <1>1, <1>2 DEF WordPart
  <2>3. bits \cap (0..7) = SymDiff({bit}, rest \cap (0..7))
    BY <1>1, <1>2 DEF SymDiff
  <2>4. \A a, b, c : SymDiff(a, SymDiff(b, c)) = SymDiff(b, SymDiff(a, c))
    BY DEF SymDiff
  <2> HIDE DEF rest, w, v
  <2> QED
    BY <2>1, <2>2, <2>3, <2>4 DEF Syndrome, w, v, rest
<1>3. CASE bit > 7
  <2>1. bit - 8 \in w /\ bit - 8 \in 0..15 /\ bit - 8 + 8 = bit
    BY <1>1, <1>3 DEF WordPart
  <2>2. v = w \ {bit - 8}
    <3>1. ASSUME NEW x \in 0..15
          PROVE  x \in v <=> x \in w \ {bit - 8}
      <4>1. x \in v <=> x + 8 \in rest
        <5> HIDE DEF rest
        <5> QED
          BY <1>1, WordPartBits
      <4>2. x \in w <=> x + 8 \in bits
        BY WordPartBits
      <4>3. x + 8 = bit <=> x = bit - 8
        BY <1>1
      <4> QED
        BY <4>1, <4>2, <4>3
    <3> HIDE DEF v, w
    <3> QED
      BY <1>1, <3>1
  <2>3. bits \cap (0..7) = rest \cap (0..7)
    BY <1>1, <1>3
  <2>4. Register(High(w), Low(w)) = SymDiff(Residue[bit], Register(High(v), Low(v)))
    <3>1. Register(High(w), Low(w))
            = SymDiff(Residue[bit - 8 + 8], Register(High(w \ {bit - 8}), Low(w \ {bit - 8})))
      <4>1. PICK k \in w : k = bit - 8
        BY <2>1
      <4> HIDE DEF w, v
      <4>2. Register(High(w), Low(w))
              = SymDiff(Residue[k + 8], Register(High(w \ {k}), Low(w \ {k})))
        BY <1>1, RegisterWithBit
      <4> QED
        BY <4>1, <4>2
    <3> QED
      BY <2>1, <2>2, <3>1
  <2>5. \A a, b, c : SymDiff(SymDiff(a, b), c) = SymDiff(a, SymDiff(b, c))
    BY DEF SymDiff
  <2> HIDE DEF rest, w, v
  <2> QED
    BY <2>3, <2>4, <2>5 DEF Syndrome, w, v, rest
<1> QED
  BY <1>1, <1>2, <1>3

LEMMA SyndromeOfNothing == Syndrome({}) = {}
<1>1. WordPart({}) = {} /\ High({}) = {} /\ Low({}) = {} /\ {} \in Byte
      /\ {} \cap (0..7) = {}
  BY DEF WordPart, High, Low, Byte
<1>2. SymDiff({}, {}) = {}
  BY DEF SymDiff
<1>3. Register(SymDiff({}, {}), SymDiff({}, {})) = SymDiff(Register({}, {}), Register({}, {}))
  BY <1>1, RegisterIsLinear
<1>4. Register({}, {}) = {}
  BY <1>2, <1>3 DEF SymDiff
<1> QED
  BY <1>1, <1>2, <1>4 DEF Syndrome

(* A burst one place further to the front makes one more round.            *)
LEMMA SyndromeOfShifted ==
  ASSUME NEW bits \in SUBSET (0..22)
  PROVE  Syndrome(Shifted(bits, 1)) = Round(Syndrome(bits))
<1> DEFINE D == 0..22
           S == {T \in SUBSET D : Syndrome(Shifted(T, 1)) = Round(Syndrome(T))}
<1>1. ASSUME NEW T \in SUBSET D, \A U \in SUBSET T : U # T => U \in S
      PROVE  T \in S
  <2>1. CASE T = {}
    <3>1. Shifted({}, 1) = {}
      BY DEF Shifted
    <3>2. Round({}) = {}
      <4>1. {} \in Byte /\ SymDiff({}, {}) = {}
        BY DEF Byte, SymDiff
      <4>2. Round(SymDiff({}, {})) = SymDiff(Round({}), Round({}))
        BY <4>1, RoundIsLinear
      <4> QED
        BY <4>1, <4>2 DEF SymDiff
    <3> QED
      BY <2>1, <3>1, <3>2, SyndromeOfNothing
  <2>2. CASE T # {}
    <3>1. PICK x \in T : TRUE
      BY <2>2
    <3> DEFINE rest == T \ {x}
    <3>2. /\ rest \in S /\ rest \in SUBSET (0..23) /\ T \in SUBSET (0..23) /\ x \in 0..22
      BY <1>1
    <3>3. /\ Shifted(T, 1) \in SUBSET (0..23) /\ x + 1 \in Shifted(T, 1)
          /\ Shifted(T, 1) \ {x + 1} = Shifted(rest, 1)
      BY DEF Shifted
    <3>4. Syndrome(T) = SymDiff(Residue[x], Syndrome(rest))
      BY <3>2, SyndromeWithBit
    <3>5. Syndrome(Shifted(T, 1)) = SymDiff(Residue[x + 1], Syndrome(Shifted(rest, 1)))
      BY <3>3, SyndromeWithBit
    <3>6. Residue[x] \in Byte /\ Residue[x + 1] = Round(Residue[x])
      BY <3>2, ResidueSteps
    <3>7. Syndrome(rest) \in Byte /\ Syndrome(Shifted(rest, 1)) = Round(Syndrome(rest))
      BY <3>2, WordPartBits
    <3>8. Round(SymDiff(Residue[x], Syndrome(rest)))
            = SymDiff(Round(Residue[x]), Round(Syndrome(rest)))
      BY <3>6, <3>7, RoundIsLinear
    <3> HIDE DEF rest
    <3> QED
      BY <3>4, <3>5, <3>6, <3>7, <3>8
  <2> QED
    BY <2>1, <2>2
<1>2. bits \in S
  <2>1. IsFiniteSet(D) /\ bits \in SUBSET D
    BY 0 \in Int, 22 \in Int, FS_Interval
  <2>2. SUBSET D \subseteq S
    <3> HIDE DEF S, D
    <3> QED
      BY <1>1, <2>1, SubsetInduction
  <2> HIDE DEF S, D
  <2> QED
    BY <2>1, <2>2
<1> QED
  BY <1>2

(* No round loses a bit.                                                   *)
LEMMA RoundKeepsBits ==
  ASSUME NEW a \in Byte, a # {}
  PROVE  Round(a) # {}
<1>1. CASE 7 \in a
  <2>1. 0 \in Round(a)
    BY <1>1, RoundBits DEF CRC8_POLYNOMIAL
  <2> QED
    BY <2>1
<1>2. CASE 7 \notin a
  <2>1. PICK x \in a : x \in 0..6
    <3>1. PICK y \in a : TRUE
      OBVIOUS
    <3>2. y \in 0..7 /\ y # 7
      BY <1>2, <3>1 DEF Byte
    <3> QED
      BY <3>2
  <2>2. x + 1 \in 0..7 /\ x + 1 - 1 = x /\ x + 1 # 0
    BY <2>1
  <2>3. x + 1 \in Round(a)
    <3>1. PICK y \in 0..7 : y = x + 1 /\ y # 0 /\ y - 1 \in a
      BY <2>1, <2>2
    <3>2. y \in Round(a)
      BY <1>2, <3>1, RoundBits
    <3> QED
      BY <3>1, <3>2
  <2> QED
    BY <2>3
<1> QED
  BY <1>1, <1>2

(* Therefore a burst of up to eight bits is always seen.                   *)
LEMMA BurstsAreSeen ==
  ASSUME NEW j \in 0..16, NEW bits, bits # {}, bits \subseteq j..j+7
  PROVE  Syndrome(bits) # {}
<1> DEFINE S == {k \in Nat : k <= 16 =>
                   \A B \in SUBSET (k..k+7) : B # {} => Syndrome(B) # {}}
<1>1. 0 \in S
  <2>1. ASSUME NEW B \in SUBSET (0..0+7), B # {}
        PROVE  Syndrome(B) # {}
    <3>1. WordPart(B) = {} /\ B \cap (0..7) = B
      <4>1. B \subseteq 0..7 /\ B \ (0..7) = {}
        OBVIOUS
      <4> QED
        BY <4>1 DEF WordPart
    <3>2. WordPart({}) = {} /\ {} \cap (0..7) = {}
      BY DEF WordPart
    <3>3. Syndrome({}) = SymDiff(Register(High({}), Low({})), {})
      BY <3>2 DEF Syndrome
    <3>4. Register(High({}), Low({})) = {}
      BY <3>3, SyndromeOfNothing DEF SymDiff
    <3>5. Syndrome(B) = SymDiff({}, B)
      BY <3>1, <3>4 DEF Syndrome
    <3> QED
      BY <2>1, <3>5 DEF SymDiff
  <2> QED
    BY <2>1
<1>2. ASSUME NEW k \in Nat, k \in S
      PROVE  k + 1 \in S
  <2> SUFFICES ASSUME k + 1 <= 16, NEW B \in SUBSET (k+1..k+1+7), B # {}
               PROVE  Syndrome(B) # {}
    OBVIOUS
  <2> DEFINE C == {b - 1 : b \in B}
  <2>1. C \in SUBSET (k..k+7) /\ C # {} /\ C \in SUBSET (0..22) /\ C \in SUBSET (0..23)
    <3>1. \A b \in B : b \in Int /\ b - 1 \in k..k+7 /\ b - 1 \in 0..22 /\ b - 1 \in 0..23
      OBVIOUS
    <3>2. \A c \in C : \E b \in B : c = b - 1
      OBVIOUS
    <3>3. C # {}
      OBVIOUS
    <3> HIDE DEF C
    <3> QED
      BY <3>1, <3>2, <3>3
  <2>2. Shifted(C, 1) = B
    <3>1. \A b \in B : b - 1 + 1 = b
      OBVIOUS
    <3>2. \A x : x \in Shifted(C, 1) <=> \E c \in C : x = c + 1
      BY DEF Shifted
    <3>3. \A c : c \in C <=> \E b \in B : c = b - 1
      OBVIOUS
    <3> HIDE DEF C
    <3>4. ASSUME NEW x \in B
          PROVE  x \in Shifted(C, 1)
      <4>1. x - 1 \in C /\ x - 1 + 1 = x
        BY <3>1, <3>3
      <4> QED
        BY <3>2, <4>1
    <3>5. ASSUME NEW x \in Shifted(C, 1)
          PROVE  x \in B
      <4>1. PICK c \in C : x = c + 1
        BY <3>2
      <4>2. PICK b \in B : c = b - 1
        BY <3>3
      <4>3. x = b
        BY <3>1, <4>1, <4>2
      <4> QED
        BY <4>3
    <3> QED
      BY <3>4, <3>5
  <2> HIDE DEF C
  <2>3. Syndrome(C) # {}
    BY <1>2, <2>1
  <2>4. Round(Syndrome(C)) # {}
    BY <2>1, <2>3, WordPartBits, RoundKeepsBits
  <2> QED
    BY <2>1, <2>2, <2>4, SyndromeOfShifted
<1>3. j \in S
  <2> HIDE DEF S
  <2> QED
    BY <1>1, <1>2, Induction
<1> QED
  BY <1>3

(* The bits of a byte that noise changes, and those of the 24 together.    *)
Flipped(i, noise) == {b \in 0..7 : 8 * (i - 1) + 7 - b \in noise}

FlippedBits(noise) == {23 - p : p \in noise}

LEMMA FlippedHalves ==
  ASSUME NEW noise \in SUBSET (0..23)
  PROVE  /\ FlippedBits(noise) \in SUBSET (0..23)
         /\ Flipped(1, noise) = High(WordPart(FlippedBits(noise)))
         /\ Flipped(2, noise) = Low(WordPart(FlippedBits(noise)))
         /\ Flipped(3, noise) = FlippedBits(noise) \cap (0..7)
         /\ \A i : Flipped(i, noise) \in Byte
<1> DEFINE bits == FlippedBits(noise)
           w == WordPart(bits)
<1>1. bits \in SUBSET (0..23)
  BY DEF FlippedBits
<1>2. ASSUME NEW x \in 0..23
      PROVE  x \in bits <=> 23 - x \in noise
  <2>1. 23 - (23 - x) = x
    OBVIOUS
  <2>2. ASSUME x \in bits
        PROVE  23 - x \in noise
    <3>1. PICK p \in noise : x = 23 - p
      BY <2>2 DEF FlippedBits
    <3>2. 23 - x = p
      BY <3>1
    <3> QED
      BY <3>1, <3>2
  <2> QED
    BY <2>1, <2>2 DEF FlippedBits
<1> HIDE DEF bits
<1>3. w \in SUBSET (0..15) /\ High(w) \in Byte /\ Low(w) \in Byte
  BY <1>1, WordPartBits, HalvesOfWord
<1>4. ASSUME NEW b \in 0..7
      PROVE  /\ b \in Flipped(1, noise) <=> b \in High(w)
             /\ b \in Flipped(2, noise) <=> b \in Low(w)
             /\ b \in Flipped(3, noise) <=> b \in bits
  <2>1. /\ b \in Flipped(1, noise) <=> 7 - b \in noise
        /\ b \in Flipped(2, noise) <=> 15 - b \in noise
        /\ b \in Flipped(3, noise) <=> 23 - b \in noise
    <3>1. /\ 8 * (1 - 1) + 7 - b = 7 - b /\ 8 * (2 - 1) + 7 - b = 15 - b
          /\ 8 * (3 - 1) + 7 - b = 23 - b
      OBVIOUS
    <3> QED
      BY <3>1 DEF Flipped
  <2>2. b \in High(w) <=> b + 8 \in w
    <3> HIDE DEF w
    <3> QED
      BY <1>3, HalvesOfWord
  <2>3. b \in Low(w) <=> b \in w
    <3> HIDE DEF w
    <3> QED
      BY <1>3, HalvesOfWord
  <2>4. b + 8 \in w <=> b + 8 + 8 \in bits
    <3>1. b + 8 \in 0..15
      OBVIOUS
    <3> QED
      BY <1>1, <3>1, WordPartBits
  <2>5. b \in w <=> b + 8 \in bits
    <3>1. b \in 0..15
      OBVIOUS
    <3> QED
      BY <1>1, <3>1, WordPartBits
  <2>6. /\ b + 8 + 8 \in 0..23 /\ 23 - (b + 8 + 8) = 7 - b
        /\ b + 8 \in 0..23 /\ 23 - (b + 8) = 15 - b
        /\ b \in 0..23
    OBVIOUS
  <2>7. /\ b + 8 + 8 \in bits <=> 7 - b \in noise
        /\ b + 8 \in bits <=> 15 - b \in noise
        /\ b \in bits <=> 23 - b \in noise
    <3>1. ASSUME NEW x \in 0..23, NEW y, 23 - x = y
          PROVE  x \in bits <=> y \in noise
      BY <1>2, <3>1
    <3> QED
      BY <2>6, <3>1
  <2> HIDE DEF w
  <2> QED
    BY <2>1, <2>2, <2>3, <2>4, <2>5, <2>7
<1>5. \A i : Flipped(i, noise) \in Byte
  BY DEF Flipped, Byte
<1>6. Flipped(3, noise) = bits \cap (0..7)
  BY <1>4, <1>5 DEF Byte
<1> HIDE DEF w
<1>7. Flipped(1, noise) = High(w) /\ Flipped(2, noise) = Low(w)
  BY <1>3, <1>4, <1>5 DEF Byte
<1> QED
  BY <1>1, <1>5, <1>6, <1>7 DEF w, bits

(* A word that noise changed does not have the checksum that follows it.   *)
LEMMA NoiseIsSeen ==
  ASSUME NEW noise \in {{}} \cup Noise
  PROVE  /\ noise \in SUBSET (0..23)
         /\ Register(Flipped(1, noise), Flipped(2, noise)) = Flipped(3, noise)
              <=> noise = {}
<1> DEFINE bits == FlippedBits(noise)
<1>1. noise \in SUBSET (0..23)
  <2>1. CASE noise = {}
    BY <2>1
  <2>2. CASE noise # {}
    <3>1. PICK k \in 0..16 : noise \subseteq k..k+7
      BY <2>2, SCD30DriverAssumption
    <3> QED
      BY <3>1
  <2> QED
    BY <2>1, <2>2
<1>2. Syndrome(bits) = {} <=> noise = {}
  <2>1. CASE noise = {}
    <3>1. bits = {}
      BY <2>1 DEF FlippedBits
    <3> QED
      BY <2>1, <3>1, SyndromeOfNothing
  <2>2. CASE noise # {}
    <3>1. PICK k \in 0..16 : noise \subseteq k..k+7
      BY <2>2, SCD30DriverAssumption
    <3>2. 16 - k \in 0..16 /\ bits # {}
      BY <2>2 DEF FlippedBits
    <3>3. ASSUME NEW x \in bits
          PROVE  x \in 16 - k .. 16 - k + 7
      <4>1. PICK p \in noise : x = 23 - p
        BY <3>3 DEF FlippedBits
      <4>2. p \in k..k+7
        BY <3>1
      <4> QED
        BY <4>1, <4>2
    <3>4. PICK j \in 0..16 : j = 16 - k
      BY <3>2
    <3>5. bits \subseteq j..j+7
      BY <3>3, <3>4
    <3> HIDE DEF bits
    <3> QED
      BY <2>2, <3>2, <3>5, BurstsAreSeen
  <2> QED
    BY <2>1, <2>2
<1>3. Syndrome(bits) = SymDiff(Register(Flipped(1, noise), Flipped(2, noise)), Flipped(3, noise))
  BY <1>1, FlippedHalves DEF Syndrome
<1>4. \A a, b : SymDiff(a, b) = {} <=> a = b
  BY DEF SymDiff
<1> QED
  BY <1>1, <1>2, <1>3, <1>4

(* A word with its checksum, as it is received.                            *)
Received(word, noise) == Garbled(Sent(word), noise)

(* A received word is three bytes, and its checksum is right only if no    *)
(* noise changed them: then the first two are the word.                    *)
LEMMA ReceivedWord ==
  ASSUME NEW word \in SUBSET (0..15), NEW noise \in {{}} \cup Noise
  PROVE  /\ Received(word, noise) \in Seq(Byte)
         /\ Len(Received(word, noise)) = 3
         /\ generate_crc(<<Received(word, noise)[1], Received(word, noise)[2]>>)
              = Received(word, noise)[3] <=> noise = {}
         /\ Received(word, {}) = Sent(word)
<1> DEFINE h == High(word)
           l == Low(word)
           c == Checksum(word)
           f == Received(word, noise)
<1>1. /\ h \in Byte /\ l \in Byte /\ 0..7 \in Byte
      /\ c = Register(SymDiff(0..7, h), l) /\ SymDiff(0..7, h) \in Byte
  BY HalvesOfWord, ChecksumOfWord, RoundIsLinear DEF Byte
<1>2. c \in Byte
  BY <1>1, RegisterIsLinear
<1>3. noise \in SUBSET (0..23) /\ \A i : Flipped(i, noise) \in Byte
  BY NoiseIsSeen, FlippedHalves
<1>4. Sent(word) = <<h, l, c>>
  BY DEF Sent
<1> HIDE DEF h, l, c
<1>5. f = [i \in 1..3 |-> SymDiff(<<h, l, c>>[i], Flipped(i, noise))]
  BY <1>4 DEF Received, Garbled, Flipped
<1>6. /\ f[1] = SymDiff(h, Flipped(1, noise)) /\ f[2] = SymDiff(l, Flipped(2, noise))
      /\ f[3] = SymDiff(c, Flipped(3, noise))
  BY <1>5
<1>7. f[1] \in Byte /\ f[2] \in Byte /\ f[3] \in Byte
  BY <1>1, <1>2, <1>3, <1>6, RoundIsLinear
<1>8. f \in Seq(Byte) /\ Len(f) = 3
  <2>1. f = [i \in 1..3 |-> f[i]] /\ \A i \in 1..3 : f[i] \in Byte
    BY <1>5, <1>7
  <2> HIDE DEF f
  <2> QED
    BY <2>1
<1>9. generate_crc(<<f[1], f[2]>>)
        = SymDiff(c, Register(Flipped(1, noise), Flipped(2, noise)))
  <2> HIDE DEF f
  <2>1. generate_crc(<<f[1], f[2]>>) = Register(SymDiff(0..7, f[1]), f[2])
    BY <1>7, CrcOfTwoBytes DEF Register
  <2>2. SymDiff(0..7, f[1]) = SymDiff(SymDiff(0..7, h), Flipped(1, noise))
    BY <1>6 DEF SymDiff
  <2>3. Register(SymDiff(SymDiff(0..7, h), Flipped(1, noise)), SymDiff(l, Flipped(2, noise)))
          = SymDiff(Register(SymDiff(0..7, h), l),
                    Register(Flipped(1, noise), Flipped(2, noise)))
    BY <1>1, <1>3, RegisterIsLinear
  <2> QED
    BY <1>1, <1>6, <2>1, <2>2, <2>3
<1>10. generate_crc(<<f[1], f[2]>>) = f[3] <=> noise = {}
  <2>1. \A a, b, d : SymDiff(a, b) = SymDiff(a, d) <=> b = d
    BY DEF SymDiff
  <2> HIDE DEF f
  <2> QED
    BY <1>6, <1>9, <2>1, NoiseIsSeen
<1>11. Received(word, {}) = Sent(word)
  <2>1. \A i : Flipped(i, {}) = {}
    BY DEF Flipped
  <2>2. \A a : SymDiff(a, {}) = a
    BY DEF SymDiff
  <2>3. Received(word, {}) = [i \in 1..3 |-> SymDiff(<<h, l, c>>[i], Flipped(i, {}))]
    BY <1>4 DEF Received, Garbled, Flipped
  <2>4. Received(word, {}) = [i \in 1..3 |-> <<h, l, c>>[i]]
    BY <2>1, <2>2, <2>3
  <2> QED
    BY <1>4, <2>4
<1> HIDE DEF f
<1> QED
  BY <1>8, <1>10, <1>11 DEF f

(* What read_data_inplace leaves: whether a checksum was wrong, and a      *)
(* buffer of unchanged length.                                             *)
Results(n) == [error : BOOLEAN, buffer : [1..3 * n -> Byte]]

(* A step of the loop that compacts the buffer keeps its type.             *)
LEMMA CopyKeepsType ==
  ASSUME NEW n \in Nat, NEW result \in Results(n), NEW i \in 1..n
  PROVE  CopyWord(result, i) \in Results(n)
<1>1. /\ 3 * i - 2 \in 1..3 * n /\ 3 * i - 1 \in 1..3 * n
      /\ 2 * i - 1 \in 1..3 * n /\ 2 * i \in 1..3 * n
  OBVIOUS
<1>2. PICK p, q, a, b \in 1..3 * n :
        p = 3 * i - 2 /\ q = 3 * i - 1 /\ a = 2 * i - 1 /\ b = 2 * i
  BY <1>1
<1>3. /\ result.buffer \in [1..3 * n -> Byte]
      /\ result = [error |-> result.error, buffer |-> result.buffer]
  BY DEF Results
<1> DEFINE hi == result.buffer[p]
           lo == result.buffer[q]
<1>4. hi \in Byte /\ lo \in Byte
  BY <1>3
<1> HIDE DEF hi, lo
<1>5. [result EXCEPT !.buffer[a] = hi, !.buffer[b] = lo] \in Results(n)
  <2>1. [result.buffer EXCEPT ![a] = hi] \in [1..3 * n -> Byte]
    BY <1>3, <1>4
  <2>2. [[result.buffer EXCEPT ![a] = hi] EXCEPT ![b] = lo] \in [1..3 * n -> Byte]
    BY <2>1, <1>4
  <2> QED
    BY <2>2, <1>3 DEF Results
<1>6. [result EXCEPT !.error = TRUE] \in Results(n)
  BY <1>3 DEF Results
<1> QED
  BY <1>2, <1>5, <1>6 DEF CopyWord, hi, lo

(* The loop, as what it has done after each of its steps.                  *)
LEMMA CopySteps ==
  ASSUME NEW n \in Nat, NEW bytes \in [1..3 * n -> Byte]
  PROVE  \E result \in [0..n -> Results(n)] :
           /\ result[0] = [error |-> FALSE, buffer |-> bytes]
           /\ \A k \in 1..n : result[k] = CopyWord(result[k-1], k)
           /\ read_data_inplace(bytes, 2 * n) = result[n]
<1> DEFINE V == Results(n)
           D == 1..n
           base == [error |-> FALSE, buffer |-> bytes]
           seq == [i \in 1..(2 * n) \div 2 |-> i]
           op == [p \in D \X V |-> CopyWord(p[2], p[1])]
           Folded(c) ==
             c = [s \in SUBSET D |->
                    IF s = {} THEN base
                    ELSE LET x == Max(s) IN CopyWord(c[s \ {x}], seq[x])]
<1>1. DOMAIN seq = D /\ \A i \in D : seq[i] = i
  OBVIOUS
<1>2. op \in [D \X V -> V]
  <2> HIDE DEF V
  <2> QED
    BY CopyKeepsType DEF V
<1>3. base \in V
  BY DEF Results
<1>4. PICK it \in [SUBSET D -> V] : IsLeftFold(n, base, op, it)
  <2> HIDE DEF op, V, base
  <2> QED
    BY <1>2, <1>3, LeftFoldExists
<1> HIDE DEF base
<1>5. Folded(it)
  <2>1. ASSUME NEW s \in SUBSET D, s # {}
        PROVE  op[<<Max(s), it[s \ {Max(s)}]>>]
                 = LET x == Max(s) IN CopyWord(it[s \ {x}], seq[x])
    <3> DEFINE x == Max(s)
    <3>1. x \in s
      BY <2>1, GreatestElement
    <3> HIDE DEF x
    <3>2. x \in D /\ s \ {x} \in SUBSET D
      BY <3>1
    <3>3. it[s \ {x}] \in V /\ seq[x] = x
      BY <3>2, <1>1
    <3> HIDE DEF V
    <3>4. op[<<x, it[s \ {x}]>>] = CopyWord(it[s \ {x}], x)
      <4> HIDE DEF D
      <4> QED
        BY <3>2, <3>3
    <3> HIDE DEF op, seq
    <3> QED
      BY <3>3, <3>4 DEF x
  <2>2. ASSUME NEW s \in SUBSET D
        PROVE  it[s] = IF s = {} THEN base ELSE op[<<Max(s), it[s \ {Max(s)}]>>]
    <3> HIDE DEF op
    <3> QED
      BY <1>4 DEF IsLeftFold, IsFold
  <2>3. it = [s \in SUBSET D |-> it[s]]
    OBVIOUS
  <2> HIDE DEF op, seq, D
  <2> QED
    BY <2>1, <2>2, <2>3
<1>6. \E c : Folded(c) /\ read_data_inplace(bytes, 2 * n) = c[D]
  <2> DEFINE c == CHOOSE c : Folded(c)
  <2>1. Folded(c)
    BY <1>5
  <2>2. read_data_inplace(bytes, 2 * n) = c[D]
    <3>1. read_data_inplace(bytes, 2 * n) = FoldLeft(CopyWord, base, seq)
      BY DEF read_data_inplace, base
    <3> HIDE DEF D, op, seq
    <3> QED
      BY <1>1, <3>1 DEF FoldLeft, MapThenFoldSet
  <2> HIDE DEF c
  <2> QED
    BY <2>1, <2>2
<1>7. PICK c : Folded(c) /\ read_data_inplace(bytes, 2 * n) = c[D]
  BY <1>6
<1> DEFINE result == [k \in 0..n |-> c[1..k]]
<1>8. c[{}] = base /\ \A k \in 1..n : c[1..k] = CopyWord(c[1..k-1], k)
  <2>1. c[{}] = base
    <3> HIDE DEF seq
    <3> QED
      BY <1>7
  <2>2. ASSUME NEW k \in 1..n
        PROVE  c[1..k] = CopyWord(c[1..k-1], k)
    <3>1. 1..k \in SUBSET D /\ 1..k # {} /\ (1..k) \ {k} = 1..k-1
      OBVIOUS
    <3>2. Max(1..k) \in 1..k /\ \A y \in 1..k : y <= Max(1..k)
      BY <3>1, GreatestElement
    <3>3. Max(1..k) = k
      BY <3>2
    <3>4. seq[k] = k
      BY <1>1
    <3> HIDE DEF seq, D
    <3> QED
      BY <1>7, <3>1, <3>3, <3>4
  <2> QED
    BY <2>1, <2>2
<1>9. /\ result[0] = base /\ \A k \in 1..n : result[k] = CopyWord(result[k-1], k)
      /\ read_data_inplace(bytes, 2 * n) = result[n]
  <2>1. 1..0 = {}
    OBVIOUS
  <2>2. \A k \in 1..n : k \in 0..n /\ k - 1 \in 0..n
    OBVIOUS
  <2>3. 0 \in 0..n /\ n \in 0..n
    OBVIOUS
  <2> HIDE DEF Folded
  <2> QED
    BY <1>7, <1>8, <2>1, <2>2, <2>3
<1> HIDE DEF result, Folded
<1>10. result \in [0..n -> V]
  <2> DEFINE S == {k \in Nat : k <= n => result[k] \in V}
  <2>1. 0 \in S
    BY <1>3, <1>9
  <2>2. ASSUME NEW k \in Nat, k \in S
        PROVE  k + 1 \in S
    <3>1. ASSUME k + 1 <= n
          PROVE  result[k + 1] \in V
      <4>1. PICK j \in 1..n : j = k + 1 /\ j - 1 = k
        BY <3>1
      <4>2. result[k] \in V
        BY <2>2, <3>1
      <4>3. result[j] = CopyWord(result[k], j)
        BY <1>9, <4>1
      <4> HIDE DEF V
      <4> QED
        BY <4>1, <4>2, <4>3, CopyKeepsType DEF V
    <3> QED
      BY <3>1
  <2> HIDE DEF S
  <2>3. Nat \subseteq S
    BY <2>1, <2>2, Induction
  <2>4. \A k \in 0..n : result[k] \in V
    BY <2>3 DEF S
  <2> QED
    BY <2>4 DEF result
<1> QED
  BY <1>9, <1>10 DEF base

(* The i-th word of the buffer does not have the checksum that follows it. *)
Wrong(bytes, i) ==
  generate_crc(<<bytes[3 * i - 2], bytes[3 * i - 1]>>) # bytes[3 * i]

(* After k rounds: an error is kept, what is still to be read is untouched *)
(* and the words so far are at the front.                                  *)
Compacted(bytes, result, k) ==
  /\ result.error <=> \E i \in 1..k : Wrong(bytes, i)
  /\ \A j \in DOMAIN bytes : j > 2 * k => result.buffer[j] = bytes[j]
  /\ ~result.error =>
       \A i \in 1..k : /\ result.buffer[2 * i - 1] = bytes[3 * i - 2]
                       /\ result.buffer[2 * i] = bytes[3 * i - 1]

(* Compacting in place loses nothing: what is overwritten was copied.      *)
LEMMA CopyCompacts ==
  ASSUME NEW n \in Nat, NEW bytes \in [1..3 * n -> Byte],
         NEW k \in Nat, k + 1 <= n,
         NEW result \in Results(n), Compacted(bytes, result, k)
  PROVE  Compacted(bytes, CopyWord(result, k + 1), k + 1)
<1> DEFINE next == CopyWord(result, k + 1)
           i == k + 1
<1>1. /\ 3 * i - 2 \in 1..3 * n /\ 3 * i - 1 \in 1..3 * n /\ 3 * i \in 1..3 * n
      /\ 2 * i - 1 \in 1..3 * n /\ 2 * i \in 1..3 * n
      /\ 3 * i - 2 > 2 * k /\ 3 * i - 1 > 2 * k /\ 3 * i > 2 * k
      /\ 2 * i - 1 > 2 * k /\ 2 * i > 2 * k
  OBVIOUS
<1>2. PICK p, q, r, a, b \in 1..3 * n :
        /\ p = 3 * i - 2 /\ q = 3 * i - 1 /\ r = 3 * i /\ a = 2 * i - 1 /\ b = 2 * i
        /\ p > 2 * k /\ q > 2 * k /\ r > 2 * k /\ a > 2 * k /\ b > 2 * k
  BY <1>1
<1>3. /\ result.buffer[p] = bytes[p] /\ result.buffer[q] = bytes[q]
      /\ result.buffer[r] = bytes[r]
  BY <1>2 DEF Compacted
<1>4. /\ result.buffer \in [1..3 * n -> Byte] /\ result.error \in BOOLEAN
      /\ result = [error |-> result.error, buffer |-> result.buffer]
  BY DEF Results
<1>5. Wrong(bytes, i) <=> generate_crc(<<bytes[p], bytes[q]>>) # bytes[r]
  BY <1>2 DEF Wrong
<1>6. next = IF result.error \/ Wrong(bytes, i)
               THEN [result EXCEPT !.error = TRUE]
               ELSE [result EXCEPT !.buffer[a] = bytes[p], !.buffer[b] = bytes[q]]
  <2> HIDE DEF i
  <2> QED
    BY <1>2, <1>3, <1>5 DEF CopyWord, i
<1>7. (\E j \in 1..i : Wrong(bytes, j)) <=> result.error \/ Wrong(bytes, i)
  <2>1. \A j \in 1..i : j \in 1..k \/ j = i
    OBVIOUS
  <2>2. \A j \in 1..k : j \in 1..i
    OBVIOUS
  <2>3. i \in 1..i
    OBVIOUS
  <2> HIDE DEF i
  <2> QED
    BY <2>1, <2>2, <2>3 DEF Compacted
<1> HIDE DEF i, next
<1>8. CASE result.error \/ Wrong(bytes, i)
  <2>1. next.error = TRUE /\ next.buffer = result.buffer
    BY <1>4, <1>6, <1>8
  <2>2. \A j \in DOMAIN bytes : j > 2 * i => next.buffer[j] = bytes[j]
    <3>1. \A j \in 1..3 * n : j > 2 * i => j > 2 * k
      BY DEF i
    <3> QED
      BY <2>1, <3>1 DEF Compacted
  <2> QED
    BY <1>7, <1>8, <2>1, <2>2 DEF Compacted, next, i
<1>9. CASE ~(result.error \/ Wrong(bytes, i))
  <2>1. /\ next.error = FALSE
        /\ next.buffer = [[result.buffer EXCEPT ![a] = bytes[p]] EXCEPT ![b] = bytes[q]]
    BY <1>4, <1>6, <1>9
  <2>2. a # b
    BY <1>2 DEF i
  <2>3. /\ next.buffer[a] = bytes[p] /\ next.buffer[b] = bytes[q]
        /\ \A j \in 1..3 * n : j # a /\ j # b => next.buffer[j] = result.buffer[j]
    BY <1>4, <2>1, <2>2
  <2>4. \A j \in DOMAIN bytes : j > 2 * i => next.buffer[j] = bytes[j]
    <3>1. \A j \in 1..3 * n : j > 2 * i => j > 2 * k /\ j # a /\ j # b
      BY <1>2 DEF i
    <3> QED
      BY <2>3, <3>1 DEF Compacted
  <2>5. ASSUME NEW m \in 1..i
        PROVE  /\ next.buffer[2 * m - 1] = bytes[3 * m - 2]
               /\ next.buffer[2 * m] = bytes[3 * m - 1]
    <3>1. CASE m = i
      BY <1>2, <2>3, <3>1
    <3>2. CASE m # i
      <4>1. m \in 1..k
        BY <3>2 DEF i
      <4>2. PICK c, d \in 1..3 * n : c = 2 * m - 1 /\ d = 2 * m
        BY <4>1
      <4>3. c # a /\ c # b /\ d # a /\ d # b
        BY <1>2, <4>1, <4>2 DEF i
      <4>4. /\ result.buffer[2 * m - 1] = bytes[3 * m - 2]
            /\ result.buffer[2 * m] = bytes[3 * m - 1]
        BY <1>9, <4>1 DEF Compacted
      <4> QED
        BY <2>3, <4>2, <4>3, <4>4
    <3> QED
      BY <3>1, <3>2
  <2> QED
    BY <1>7, <1>9, <2>1, <2>4, <2>5 DEF Compacted, next, i
<1> QED
  BY <1>8, <1>9

(* The loop fails if and only if a checksum is wrong, and leaves the words *)
(* at the front of the buffer otherwise.                                   *)
LEMMA ReadInPlace ==
  ASSUME NEW n \in Nat, NEW bytes \in [1..3 * n -> Byte]
  PROVE  /\ read_data_inplace(bytes, 2 * n) \in Results(n)
         /\ Compacted(bytes, read_data_inplace(bytes, 2 * n), n)
<1>1. PICK result \in [0..n -> Results(n)] :
           /\ result[0] = [error |-> FALSE, buffer |-> bytes]
           /\ \A k \in 1..n : result[k] = CopyWord(result[k-1], k)
           /\ read_data_inplace(bytes, 2 * n) = result[n]
  BY CopySteps
<1> DEFINE S == {k \in Nat : k <= n => Compacted(bytes, result[k], k)}
<1>2. 0 \in S
  BY <1>1 DEF Compacted
<1>3. ASSUME NEW k \in Nat, k \in S
      PROVE  k + 1 \in S
  <2>1. ASSUME k + 1 <= n
        PROVE  Compacted(bytes, result[k + 1], k + 1)
    <3>1. k \in 0..n /\ k + 1 \in 1..n /\ (k + 1) - 1 = k
      BY <2>1
    <3>2. result[k] \in Results(n) /\ result[k + 1] = CopyWord(result[k], k + 1)
      <4>1. PICK j \in 1..n : j = k + 1 /\ j - 1 = k
        BY <3>1
      <4> QED
        BY <1>1, <3>1, <4>1
    <3>3. Compacted(bytes, result[k], k)
      BY <1>3, <2>1
    <3> QED
      BY <2>1, <3>2, <3>3, CopyCompacts
  <2> QED
    BY <2>1
<1>4. Nat \subseteq S
  <2> HIDE DEF S
  <2> QED
    BY <1>2, <1>3, Induction
<1>5. Compacted(bytes, result[n], n) /\ result[n] \in Results(n)
  BY <1>4
<1> QED
  BY <1>1, <1>5

(* A function on 1..m is a sequence.                                       *)
LEMMA ListOfMembers ==
  ASSUME NEW S, NEW m \in Nat, NEW list, list = [i \in 1..m |-> list[i]],
         \A i \in 1..m : list[i] \in S
  PROVE  list \in Seq(S) /\ Len(list) = m
OBVIOUS

(* The words of an answer as they are received, of which noise garbles the *)
(* one at a place.                                                         *)
Transfer(words, at, noise) ==
  [[i \in DOMAIN words |-> Sent(words[i])] EXCEPT ![at] = Garbled(@, noise)]

(* Where the bytes of each word of a transfer lie.                         *)
LEMMA TransferBytes ==
  ASSUME NEW words \in Seq(SUBSET (0..15)), NEW at \in DOMAIN words,
         NEW noise \in {{}} \cup Noise
  PROVE  LET bytes == FlattenSeq(Transfer(words, at, noise))
         IN  /\ bytes \in [1..3 * Len(words) -> Byte]
             /\ \A i \in 1..Len(words) :
                  LET frame == Received(words[i], IF i = at THEN noise ELSE {})
                  IN  /\ bytes[3 * i - 2] = frame[1] /\ bytes[3 * i - 1] = frame[2]
                      /\ bytes[3 * i] = frame[3]
<1> DEFINE n == Len(words)
           frames == Transfer(words, at, noise)
           bytes == FlattenSeq(frames)
           noiseAt(i) == IF i = at THEN noise ELSE {}
<1>1. n \in Nat /\ DOMAIN words = 1..n /\ \A i \in 1..n : words[i] \in SUBSET (0..15)
  OBVIOUS
<1>2. DOMAIN frames = 1..n
      /\ \A i \in 1..n : frames[i] = Received(words[i], noiseAt(i))
  <2>1. DOMAIN frames = 1..n
    BY <1>1 DEF Transfer
  <2>2. frames[at] = Garbled(Sent(words[at]), noise)
    BY DEF Transfer
  <2>3. ASSUME NEW i \in 1..n, i # at
        PROVE  frames[i] = Sent(words[i]) /\ Received(words[i], {}) = Sent(words[i])
    <3>1. frames[i] = Sent(words[i])
      BY <1>1, <2>3 DEF Transfer
    <3> QED
      BY <1>1, <3>1, ReceivedWord
  <2> HIDE DEF frames
  <2> QED
    BY <2>1, <2>2, <2>3 DEF Received
<1> HIDE DEF n, frames
<1>3. \A i \in 1..n : noiseAt(i) \in {{}} \cup Noise
  OBVIOUS
<1> HIDE DEF noiseAt
<1>4. \A i \in 1..n : frames[i] \in Seq(Byte) /\ Len(frames[i]) = 3
  <2> TAKE i \in 1..n
  <2>1. noiseAt(i) \in {{}} \cup Noise /\ words[i] \in SUBSET (0..15)
    BY <1>1, <1>3
  <2>2. /\ Received(words[i], noiseAt(i)) \in Seq(Byte)
        /\ Len(Received(words[i], noiseAt(i))) = 3
    BY <2>1, ReceivedWord
  <2> QED
    BY <1>2, <2>2
<1>5. frames \in Seq(Seq(Byte)) /\ Len(frames) = n
  <2>1. frames = [i \in 1..n |-> frames[i]]
    BY <1>2 DEF Transfer, frames
  <2>2. \A i \in 1..n : frames[i] \in Seq(Byte)
    BY <1>4
  <2> QED
    BY <1>1, <2>1, <2>2, ListOfMembers
<1>6. bytes \in Seq(Byte) /\ \E place : Places(frames, place)
  BY <1>5, FlattenPlaces
<1>7. PICK place : Places(frames, place)
  BY <1>6
<1>8. ASSUME NEW k \in Nat, k <= n
      PROVE  place[k] = 3 * k
  <2> DEFINE S == {j \in Nat : j <= n => place[j] = 3 * j}
  <2>1. 0 \in S
    BY <1>7 DEF Places
  <2>2. ASSUME NEW j \in Nat, j \in S
        PROVE  j + 1 \in S
    <3>1. ASSUME j + 1 <= n
          PROVE  place[j + 1] = 3 * (j + 1)
      <4>1. PICK m \in 1..n : m = j + 1 /\ m - 1 = j
        BY <1>1, <3>1
      <4>2. place[j] = 3 * j
        BY <1>1, <2>2, <3>1
      <4>3. place[m] = place[m-1] + Len(frames[m])
        BY <1>5, <1>7, <4>1 DEF Places
      <4>4. Len(frames[m]) = 3
        BY <1>4
      <4> QED
        BY <4>1, <4>2, <4>3, <4>4
    <3> QED
      BY <3>1
  <2> HIDE DEF S
  <2>3. k \in S
    BY <2>1, <2>2, Induction
  <2> QED
    BY <1>8, <2>3 DEF S
<1>9. Len(bytes) = 3 * n
  <2>1. place[n] = Len(bytes)
    BY <1>5, <1>7 DEF Places
  <2> QED
    BY <1>1, <1>8, <2>1
<1>10. bytes \in [1..3 * n -> Byte]
  BY <1>6, <1>9
<1>11. ASSUME NEW i \in 1..n
       PROVE  /\ bytes[3 * i - 2] = frames[i][1] /\ bytes[3 * i - 1] = frames[i][2]
              /\ bytes[3 * i] = frames[i][3]
  <2>1. \A j \in 1..3 : bytes[place[i-1] + j] = frames[i][j]
    BY <1>4, <1>5, <1>7 DEF Places
  <2>2. i - 1 \in Nat /\ i - 1 <= n
    BY <1>1
  <2>3. place[i-1] = 3 * (i - 1)
    BY <1>8, <2>2
  <2>4. /\ 3 * (i - 1) + 1 = 3 * i - 2 /\ 3 * (i - 1) + 2 = 3 * i - 1
        /\ 3 * (i - 1) + 3 = 3 * i
    OBVIOUS
  <2>5. 1 \in 1..3 /\ 2 \in 1..3 /\ 3 \in 1..3
    OBVIOUS
  <2> QED
    BY <2>1, <2>3, <2>4, <2>5
<1> QED
  BY <1>2, <1>10, <1>11 DEF n, frames, noiseAt

(* What read_data_inplace makes of an answer: an error if and only if      *)
(* noise garbled a word, and the bytes of its words otherwise.             *)
LEMMA NoiseIsAnError ==
  ASSUME NEW words \in Seq(SUBSET (0..15)), NEW at \in DOMAIN words,
         NEW noise \in {{}} \cup Noise
  PROVE  LET result == read_data_inplace(FlattenSeq(Transfer(words, at, noise)),
                                         2 * Len(words))
         IN  /\ result.error \in BOOLEAN
             /\ result.error <=> noise # {}
             /\ noise = {} =>
                  \A i \in 1..Len(words) :
                    /\ result.buffer[2 * i - 1] = High(words[i])
                    /\ result.buffer[2 * i] = Low(words[i])
<1> DEFINE n == Len(words)
           bytes == FlattenSeq(Transfer(words, at, noise))
           result == read_data_inplace(bytes, 2 * n)
           frame(i) == Received(words[i], IF i = at THEN noise ELSE {})
<1>1. /\ bytes \in [1..3 * n -> Byte]
      /\ \A i \in 1..n : /\ bytes[3 * i - 2] = frame(i)[1]
                         /\ bytes[3 * i - 1] = frame(i)[2]
                         /\ bytes[3 * i] = frame(i)[3]
  BY TransferBytes
<1>2. n \in Nat /\ at \in 1..n /\ \A i \in 1..n : words[i] \in SUBSET (0..15)
  OBVIOUS
<1> HIDE DEF n, bytes
<1>3. result \in Results(n) /\ Compacted(bytes, result, n)
  BY <1>1, <1>2, ReadInPlace
<1>4. ASSUME NEW i \in 1..n
      PROVE  Wrong(bytes, i) <=> i = at /\ noise # {}
  <2> DEFINE m == IF i = at THEN noise ELSE {}
  <2>1. m \in {{}} \cup Noise
    OBVIOUS
  <2>2. m # {} <=> i = at /\ noise # {}
    OBVIOUS
  <2>3. frame(i) = Received(words[i], m)
    OBVIOUS
  <2> HIDE DEF m, frame
  <2>4. generate_crc(<<frame(i)[1], frame(i)[2]>>) = frame(i)[3] <=> m = {}
    BY <1>2, <2>1, <2>3, ReceivedWord
  <2> QED
    BY <1>1, <2>2, <2>4 DEF Wrong
<1>5. result.error <=> noise # {}
  <2> HIDE DEF result
  <2> QED
    BY <1>2, <1>3, <1>4 DEF Compacted
<1>6. ASSUME noise = {}, NEW i \in 1..n
      PROVE  result.buffer[2 * i - 1] = High(words[i]) /\ result.buffer[2 * i] = Low(words[i])
  <2>1. frame(i) = Sent(words[i])
    BY <1>2, <1>6, ReceivedWord
  <2>2. Sent(words[i])[1] = High(words[i]) /\ Sent(words[i])[2] = Low(words[i])
    BY DEF Sent
  <2> HIDE DEF result, frame
  <2>3. result.buffer[2 * i - 1] = bytes[3 * i - 2] /\ result.buffer[2 * i] = bytes[3 * i - 1]
    BY <1>3, <1>5, <1>6 DEF Compacted
  <2> QED
    BY <1>1, <2>1, <2>2, <2>3
<1>7. result.error \in BOOLEAN
  <2> HIDE DEF result
  <2> QED
    BY <1>3 DEF Results
<1> QED
  BY <1>5, <1>6, <1>7 DEF n, bytes

----------------------------------------------------------------------------
(* A float as two words.                                                   *)
Upper(value) == Shifted(value \ (0..15), -16)
Lower(value) == value \cap (0..15)

(* Four bytes make the float that they were taken from.                    *)
LEMMA FloatOfWords ==
  ASSUME NEW value \in SUBSET (0..31)
  PROVE  /\ Upper(value) \in SUBSET (0..15) /\ Lower(value) \in SUBSET (0..15)
         /\ Shifted(High(Upper(value)), 24) \cup Shifted(Low(Upper(value)), 16)
              \cup Shifted(High(Lower(value)), 8) \cup Low(Lower(value)) = value
<1> DEFINE u == Upper(value)
           l == Lower(value)
<1>1. \A x : x \in u <=> \E b \in value \ (0..15) : x = b - 16
  <2>1. \A b \in value : b + (-16) = b - 16
    OBVIOUS
  <2> QED
    BY <2>1 DEF Upper, Shifted
<1>2. u \in SUBSET (0..15)
  BY <1>1
<1>3. l \in SUBSET (0..15)
  BY DEF Lower
<1>4. ASSUME NEW x \in 0..31
      PROVE  x \in value <=> \/ x \in 16..31 /\ x - 16 \in u
                             \/ x \in 0..15 /\ x \in l
  <2>1. CASE x \in 0..15
    BY <2>1 DEF Lower
  <2>2. CASE x \in 16..31
    <3>1. x \in value <=> x - 16 \in u
      BY <1>1, <2>2
    <3>2. x \notin 0..15
      BY <2>2
    <3> HIDE DEF u
    <3> QED
      BY <2>2, <3>1, <3>2
  <2> QED
    BY <2>1, <2>2
<1> HIDE DEF u, l
<1>5. Shifted(High(u), 24) = {x \in 24..31 : x - 16 \in u}
  <2>1. \A x : x \in Shifted(High(u), 24) <=> \E b \in u \ (0..7) : x = b - 8 + 24
    BY DEF Shifted, High
  <2>2. ASSUME NEW x
        PROVE  x \in Shifted(High(u), 24) <=> x \in {y \in 24..31 : y - 16 \in u}
    <3>1. ASSUME NEW b \in u \ (0..7), x = b - 8 + 24
          PROVE  x \in 24..31 /\ x - 16 = b
      BY <1>2, <3>1
    <3>2. ASSUME x \in 24..31, x - 16 \in u
          PROVE  x - 16 \in u \ (0..7) /\ x = (x - 16) - 8 + 24
      BY <3>2
    <3> QED
      BY <2>1, <3>1, <3>2
  <2> QED
    BY <2>2
<1>6. Shifted(Low(u), 16) = {x \in 16..23 : x - 16 \in u}
  <2>1. \A x : x \in Shifted(Low(u), 16) <=> \E b \in u \cap (0..7) : x = b + 16
    BY DEF Shifted, Low
  <2>2. ASSUME NEW x
        PROVE  x \in Shifted(Low(u), 16) <=> x \in {y \in 16..23 : y - 16 \in u}
    <3>1. ASSUME NEW b \in u \cap (0..7), x = b + 16
          PROVE  x \in 16..23 /\ x - 16 = b
      BY <1>2, <3>1
    <3>2. ASSUME x \in 16..23, x - 16 \in u
          PROVE  x - 16 \in u \cap (0..7) /\ x = (x - 16) + 16
      BY <3>2
    <3> QED
      BY <2>1, <3>1, <3>2
  <2> QED
    BY <2>2
<1>7. Shifted(High(l), 8) \cup Low(l) = l
  BY <1>3, HalvesOfWord
<1>8. Shifted(High(u), 24) \cup Shifted(Low(u), 16) \cup l = value
  <2>1. ASSUME NEW x \in 0..31
        PROVE  x \in {y \in 24..31 : y - 16 \in u} \cup {y \in 16..23 : y - 16 \in u} \cup l
                 <=> x \in value
    BY <1>3, <1>4
  <2>2. {y \in 24..31 : y - 16 \in u} \cup {y \in 16..23 : y - 16 \in u} \cup l
          \subseteq 0..31
    <3>1. 0..15 \subseteq 0..31 /\ 24..31 \subseteq 0..31 /\ 16..23 \subseteq 0..31
      OBVIOUS
    <3> QED
      BY <1>3, <3>1, Zenon
  <2> QED
    BY <1>5, <1>6, <2>1, <2>2
<1>9. Shifted(High(u), 24) \cup Shifted(Low(u), 16) \cup Shifted(High(l), 8) \cup Low(l)
        = Shifted(High(u), 24) \cup Shifted(Low(u), 16) \cup (Shifted(High(l), 8) \cup Low(l))
  OBVIOUS
<1> QED
  BY <1>2, <1>3, <1>7, <1>8, <1>9 DEF u, l

(* The sensor sends each float as two words, the upper one first.          *)
LEMMA FloatWords ==
  ASSUME NEW values \in [1..3 -> SUBSET (0..31)]
  PROVE  /\ Floats(values) \in Seq(SUBSET (0..15)) /\ Len(Floats(values)) = 6
         /\ \A k \in 1..3 : /\ Floats(values)[2 * k - 1] = Upper(values[k])
                            /\ Floats(values)[2 * k] = Lower(values[k])
<1> DEFINE pairs == [i \in 1..3 |-> <<Upper(values[i]), Lower(values[i])>>]
           W == SUBSET (0..15)
<1>1. Floats(values) = FlattenSeq(pairs)
  BY DEF Floats, Upper, Lower
<1>2. \A i \in 1..3 : Upper(values[i]) \in W /\ Lower(values[i]) \in W
  BY FloatOfWords
<1>3. /\ \A i \in 1..3 : /\ pairs[i] \in Seq(W) /\ Len(pairs[i]) = 2
                         /\ pairs[i][1] = Upper(values[i]) /\ pairs[i][2] = Lower(values[i])
      /\ pairs \in Seq(Seq(W)) /\ Len(pairs) = 3
  <2> HIDE DEF W
  <2>1. \A i \in 1..3 : /\ pairs[i] \in Seq(W) /\ Len(pairs[i]) = 2
                        /\ pairs[i][1] = Upper(values[i]) /\ pairs[i][2] = Lower(values[i])
    BY <1>2
  <2> QED
    BY <2>1
<1> HIDE DEF pairs, W
<1>4. FlattenSeq(pairs) \in Seq(W) /\ \E place : Places(pairs, place)
  BY <1>3, FlattenPlaces
<1>5. PICK place : Places(pairs, place)
  BY <1>4
<1>6. /\ place[0] = 0 /\ place[1] = 2 /\ place[2] = 4 /\ place[3] = 6
      /\ Len(FlattenSeq(pairs)) = 6
  <2>1. ASSUME NEW k \in 1..3
        PROVE  place[k] = place[k-1] + 2
    BY <1>3, <1>5 DEF Places
  <2>2. place[1] = place[0] + 2 /\ place[2] = place[1] + 2 /\ place[3] = place[2] + 2
    BY <2>1
  <2>3. place[0] = 0 /\ place[3] = Len(FlattenSeq(pairs))
    BY <1>3, <1>5 DEF Places
  <2>4. place[1] = 2
    BY <2>2, <2>3
  <2>5. place[2] = 4
    BY <2>2, <2>4
  <2>6. place[3] = 6
    BY <2>2, <2>5
  <2> QED
    BY <2>3, <2>4, <2>5, <2>6
<1>7. ASSUME NEW k \in 1..3
      PROVE  /\ FlattenSeq(pairs)[2 * k - 1] = Upper(values[k])
             /\ FlattenSeq(pairs)[2 * k] = Lower(values[k])
  <2>1. place[k-1] = 2 * (k - 1)
    BY <1>6
  <2>2. \A j \in 1..2 : FlattenSeq(pairs)[place[k-1] + j] = pairs[k][j]
    BY <1>3, <1>5 DEF Places
  <2>3. 2 * (k - 1) + 1 = 2 * k - 1 /\ 2 * (k - 1) + 2 = 2 * k
    OBVIOUS
  <2>4. 1 \in 1..2 /\ 2 \in 1..2
    OBVIOUS
  <2> QED
    BY <1>3, <2>1, <2>2, <2>3, <2>4
<1> QED
  BY <1>1, <1>4, <1>6, <1>7 DEF W

(* The calls that read, by the command that they write.                    *)
LEMMA ReaderCommands ==
  ASSUME NEW call \in Readers
  PROVE  \/ call.command = "data ready" /\ call.expected = 2
         \/ call.command = "firmware version" /\ call.expected = 2
         \/ call.command = "measurement" /\ call.expected = 12
<1>1. await_data_ready.command = "data ready" /\ await_data_ready.expected = 2
  BY DEF await_data_ready, get_data_ready, Call
<1>2. read_firmware_version.command = "firmware version"
      /\ read_firmware_version.expected = 2
  BY DEF read_firmware_version, Call
<1>3. get_data_ready.command = "data ready" /\ get_data_ready.expected = 2
  BY DEF get_data_ready, Call
<1>4. read_measurement_data.command = "measurement"
      /\ read_measurement_data.expected = 12
  BY DEF read_measurement_data, Call
<1> QED
  BY <1>1, <1>2, <1>3, <1>4 DEF Readers

FirmwareWord == Shifted(FirmwareVersion[1], 8) \cup FirmwareVersion[2]

(* The two bytes of the firmware's version.                                *)
LEMMA FirmwareHalves ==
  /\ FirmwareWord \in SUBSET (0..15)
  /\ High(FirmwareWord) = FirmwareVersion[1] /\ Low(FirmwareWord) = FirmwareVersion[2]
<1>1. FirmwareVersion[1] = {0, 1} /\ FirmwareVersion[2] = {1, 6}
  BY DEF FirmwareVersion
<1>2. FirmwareWord = {8, 9, 1, 6}
  BY <1>1 DEF FirmwareWord, Shifted
<1>3. FirmwareWord \ (0..7) = {8, 9} /\ FirmwareWord \cap (0..7) = {1, 6}
  BY <1>2
<1>4. {b - 8 : b \in {8, 9}} = {0, 1}
  OBVIOUS
<1> QED
  BY <1>1, <1>2, <1>3, <1>4 DEF High, Low

(* As many words are sent as the call expects, and what is decoded from    *)
(* their bytes is what they were made of.                                  *)
LEMMA DecodedIsTold ==
  ASSUME NEW call \in Readers, received = call.command, data \in Measurements
  PROVE  /\ Words \in Seq(SUBSET (0..15)) /\ call.expected = 2 * Len(Words)
         /\ call.expected \div 2 = Len(Words)
         /\ \A buffer :
              (\A i \in 1..Len(Words) : /\ buffer[2 * i - 1] = High(Words[i])
                                        /\ buffer[2 * i] = Low(Words[i]))
                => Decoded(call.command, buffer) = Told
<1>1. CASE call.command = "data ready" /\ call.expected = 2
  <2> DEFINE w == IF ready THEN {0} ELSE {}
  <2>1. Words = <<w>> /\ Told = <<w>> /\ w \in SUBSET (0..15)
    <3>1. received = "data ready" /\ Told = <<w>>
      BY <1>1 DEF Told
    <3>2. Words = Told
      BY <3>1 DEF Words
    <3>3. 0 \in 0..15
      OBVIOUS
    <3> QED
      BY <3>1, <3>2, <3>3
  <2> HIDE DEF w
  <2>2. Words \in Seq(SUBSET (0..15)) /\ Len(Words) = 1 /\ Words[1] = w
    BY <2>1
  <2>3. ASSUME NEW buffer,
               \A i \in 1..Len(Words) : /\ buffer[2 * i - 1] = High(Words[i])
                                        /\ buffer[2 * i] = Low(Words[i])
        PROVE  Decoded("data ready", buffer) = <<w>>
    <3>1. Shifted(High(w), 8) \cup Low(w) = w
      BY <2>1, HalvesOfWord
    <3>2. buffer[1] = High(w) /\ buffer[2] = Low(w)
      <4>1. 1 \in 1..Len(Words) /\ 2 * 1 - 1 = 1 /\ 2 * 1 = 2
        BY <2>2
      <4> QED
        BY <2>2, <2>3, <4>1
    <3> QED
      BY <3>1, <3>2 DEF Decoded, bytes_to_uint16_t
  <2>4. call.expected = 2 * Len(Words) /\ call.expected \div 2 = Len(Words)
    <3>1. 2 \div 2 = 1 /\ 2 = 2 * 1
      OBVIOUS
    <3>2. Len(Words) = 1 /\ call.expected = 2
      BY <1>1, <2>2
    <3> QED
      BY <3>1, <3>2
  <2>5. ASSUME NEW buffer,
               \A i \in 1..Len(Words) : /\ buffer[2 * i - 1] = High(Words[i])
                                        /\ buffer[2 * i] = Low(Words[i])
        PROVE  Decoded(call.command, buffer) = Told
    <3>1. Decoded("data ready", buffer) = <<w>>
      BY <2>3, <2>5
    <3> QED
      BY <1>1, <2>1, <3>1
  <2> QED
    BY <2>2, <2>4, <2>5
<1>2. CASE call.command = "firmware version" /\ call.expected = 2
  <2>1. Words = <<FirmwareWord>> /\ Told = FirmwareVersion
    BY <1>2 DEF Words, Told, FirmwareWord
  <2>2. Words \in Seq(SUBSET (0..15)) /\ Len(Words) = 1 /\ Words[1] = FirmwareWord
    BY <2>1, FirmwareHalves
  <2>3. ASSUME NEW buffer,
               \A i \in 1..Len(Words) : /\ buffer[2 * i - 1] = High(Words[i])
                                        /\ buffer[2 * i] = Low(Words[i])
        PROVE  Decoded("firmware version", buffer) = FirmwareVersion
    <3>1. buffer[1] = FirmwareVersion[1] /\ buffer[2] = FirmwareVersion[2]
      <4>1. 1 \in 1..Len(Words) /\ 2 * 1 - 1 = 1 /\ 2 * 1 = 2
        BY <2>2
      <4> QED
        BY <2>2, <2>3, <4>1, FirmwareHalves
    <3> QED
      BY <3>1 DEF Decoded, FirmwareVersion
  <2>4. call.expected = 2 * Len(Words) /\ call.expected \div 2 = Len(Words)
    <3>1. 2 \div 2 = 1 /\ 2 = 2 * 1
      OBVIOUS
    <3>2. Len(Words) = 1 /\ call.expected = 2
      BY <1>2, <2>2
    <3> QED
      BY <3>1, <3>2
  <2>5. ASSUME NEW buffer,
               \A i \in 1..Len(Words) : /\ buffer[2 * i - 1] = High(Words[i])
                                        /\ buffer[2 * i] = Low(Words[i])
        PROVE  Decoded(call.command, buffer) = Told
    <3>1. Decoded("firmware version", buffer) = FirmwareVersion
      BY <2>3, <2>5
    <3> QED
      BY <1>2, <2>1, <3>1
  <2> QED
    BY <2>2, <2>4, <2>5
<1>3. CASE call.command = "measurement" /\ call.expected = 12
  <2>1. Words = Floats(data) /\ Told = data
    BY <1>3 DEF Words, Told
  <2>2. data \in [1..3 -> SUBSET (0..31)]
    BY SCD30DriverAssumption
  <2>3. /\ Floats(data) \in Seq(SUBSET (0..15)) /\ Len(Floats(data)) = 6
        /\ \A k \in 1..3 : /\ Floats(data)[2 * k - 1] = Upper(data[k])
                           /\ Floats(data)[2 * k] = Lower(data[k])
    BY <2>2, FloatWords
  <2>4. ASSUME NEW buffer,
               \A i \in 1..6 : /\ buffer[2 * i - 1] = High(Floats(data)[i])
                               /\ buffer[2 * i] = Low(Floats(data)[i])
        PROVE  Decoded("measurement", buffer) = data
    <3>1. ASSUME NEW k \in 1..3, NEW at, at = 4 * k - 3
          PROVE  bytes_to_float(buffer, at) = data[k]
      <4>1. PICK i, j \in 1..6 : i = 2 * k - 1 /\ j = 2 * k
        BY <3>1
      <4>2. /\ buffer[2 * i - 1] = High(Floats(data)[i]) /\ buffer[2 * i] = Low(Floats(data)[i])
            /\ buffer[2 * j - 1] = High(Floats(data)[j]) /\ buffer[2 * j] = Low(Floats(data)[j])
        BY <2>4, <4>1
      <4>3. Floats(data)[i] = Upper(data[k]) /\ Floats(data)[j] = Lower(data[k])
        BY <2>3, <4>1
      <4>4. /\ at = 2 * i - 1 /\ at + 1 = 2 * i
            /\ at + 2 = 2 * j - 1 /\ at + 3 = 2 * j
        BY <3>1, <4>1
      <4>5. data[k] \in SUBSET (0..31)
        BY <2>2
      <4> QED
        BY <4>2, <4>3, <4>4, <4>5, FloatOfWords DEF bytes_to_float
    <3>2. /\ bytes_to_float(buffer, 1) = data[1] /\ bytes_to_float(buffer, 5) = data[2]
          /\ bytes_to_float(buffer, 9) = data[3]
      <4>1. 1 = 4 * 1 - 3 /\ 5 = 4 * 2 - 3 /\ 9 = 4 * 3 - 3
        OBVIOUS
      <4>2. 1 \in 1..3 /\ 2 \in 1..3 /\ 3 \in 1..3
        OBVIOUS
      <4> QED
        BY <3>1, <4>1, <4>2
    <3>3. data = <<data[1], data[2], data[3]>>
      BY <2>2
    <3> QED
      BY <3>2, <3>3 DEF Decoded
  <2> QED
    BY <1>3, <2>1, <2>3, <2>4
<1> QED
  BY <1>1, <1>2, <1>3, ReaderCommands

----------------------------------------------------------------------------
(* A reader's answer is read right after its command was received.         *)
AnswerInv ==
  /\ BusInv
  /\ AnswersAreExact
  /\ data \in Measurements
  /\ written => received = Head(todo).command

LEMMA AnswerInit == DriverInit => AnswerInv
<1> SUFFICES ASSUME DriverInit
             PROVE  AnswerInv
  OBVIOUS
<1>1. BusInv /\ written = FALSE /\ data \in Measurements /\ answer = Nothing
  BY BusInit DEF DriverInit
<1>2. /\ Nothing.error = FALSE
      /\ Nothing.told = [command |-> Nothing.command, value |-> Nothing.value]
  BY DEF Nothing
<1> QED
  BY <1>1, <1>2 DEF AnswerInv, AnswersAreExact

(* An answer that was read is what the sensor meant, or is an error that   *)
(* the transfer explains.                                                  *)
LEMMA AnswerRead ==
  ASSUME AnswerInv, ReadAnswer
  PROVE  AnswersAreExact'
<1> DEFINE call == Head(todo)
           size == 3 * (call.expected \div 2)
           frames == [i \in DOMAIN Words |-> Sent(Words[i])]
<1>1. written /\ call \in Readers /\ received = call.command /\ data \in Measurements
  BY DEF ReadAnswer, AnswerInv, BusInv
<1>2. PICK response \in SDKResults(size), at \in DOMAIN frames,
           noise \in {{}} \cup Noise :
        LET frame == [frames EXCEPT ![at] = Garbled(@, noise)]
            result == read_data_inplace(FlattenSeq(frame), call.expected)
            error == hal_read(response) \/ result.error
            value == IF error THEN <<>> ELSE Decoded(call.command, result.buffer)
        IN  /\ answer' = [command |-> call.command, error |-> error,
                          value |-> value,
                          told |-> [command |-> received, value |-> Told]]
            /\ wire' = IF hal_read(response) \/ noise # {}
                         THEN "disturbed" ELSE "clean"
  BY DEF ReadAnswer
<1> DEFINE result == read_data_inplace(FlattenSeq(Transfer(Words, at, noise)),
                                       2 * Len(Words))
           error == hal_read(response) \/ result.error
           value == IF error THEN <<>> ELSE Decoded(call.command, result.buffer)
<1>3. /\ Words \in Seq(SUBSET (0..15)) /\ call.expected = 2 * Len(Words)
      /\ at \in DOMAIN Words
      /\ \A buffer :
           (\A i \in 1..Len(Words) : /\ buffer[2 * i - 1] = High(Words[i])
                                     /\ buffer[2 * i] = Low(Words[i]))
             => Decoded(call.command, buffer) = Told
  <2>1. DOMAIN frames = DOMAIN Words
    OBVIOUS
  <2> HIDE DEF call, frames
  <2> QED
    BY <1>1, <1>2, <2>1, DecodedIsTold
<1>4. /\ answer' = [command |-> call.command, error |-> error, value |-> value,
                    told |-> [command |-> received, value |-> Told]]
      /\ wire' = IF hal_read(response) \/ noise # {} THEN "disturbed" ELSE "clean"
  BY <1>2, <1>3 DEF Transfer
<1>5. /\ result.error <=> noise # {}
      /\ noise = {} =>
           \A i \in 1..Len(Words) : /\ result.buffer[2 * i - 1] = High(Words[i])
                                    /\ result.buffer[2 * i] = Low(Words[i])
  BY <1>3, NoiseIsAnError
<1> HIDE DEF result, call
<1>6. CASE error
  <2>1. answer'.error /\ wire' = "disturbed"
    BY <1>4, <1>5, <1>6
  <2> QED
    BY <2>1 DEF AnswersAreExact
<1>7. CASE ~error
  <2>1. noise = {}
    BY <1>5, <1>7
  <2>2. Decoded(call.command, result.buffer) = Told
    BY <1>3, <1>5, <2>1
  <2>3. value = Told /\ ~answer'.error /\ answer'.value = value
        /\ answer'.command = received
        /\ answer'.told = [command |-> received, value |-> Told]
    BY <1>1, <1>4, <1>7, <2>2
  <2> HIDE DEF value, error
  <2> QED
    BY <2>3 DEF AnswersAreExact
<1> QED
  BY <1>6, <1>7

(* Every step keeps the last answer exact, and a reader's answer its own.  *)
LEMMA AnswerStep ==
  ASSUME AnswerInv, [DriverNext]_driverVars
  PROVE  AnswerInv'
<1>1. BusInv'
  BY BusStep DEF AnswerInv
<1>2. data' \in Measurements
  BY DEF AnswerInv, DriverNext, Command, Update, hal_init, hal_free, BouncePower,
         WriteCommand, ReadAnswer, Measure, driverVars, device, Obey
<1>3. ASSUME UNCHANGED <<answer, wire>>
      PROVE  AnswersAreExact'
  BY <1>3 DEF AnswersAreExact, AnswerInv
<1>4. ASSUME todo # <<>>, Head(todo).command \in Steps
      PROVE  ~written
  BY <1>4, ReadersTransfer DEF AnswerInv, BusInv
<1>5. CASE Command \/ Update
  <2>1. todo = <<>> /\ UNCHANGED <<answer, wire, written>>
    BY <1>5 DEF Command, Update
  <2>2. ~written'
    BY <2>1 DEF AnswerInv, BusInv
  <2> QED
    BY <1>1, <1>2, <1>3, <2>1, <2>2 DEF AnswerInv
<1>6. CASE hal_init \/ hal_free \/ BouncePower
  <2>1. /\ todo # <<>> /\ Head(todo).command \in Steps
        /\ UNCHANGED <<answer, wire, written>>
    BY <1>6 DEF hal_init, hal_free, BouncePower, Calling, Steps
  <2> QED
    BY <1>1, <1>2, <1>3, <1>4, <2>1 DEF AnswerInv
<1>7. CASE WriteCommand
  <2> DEFINE call == Head(todo)
             length == 2 + Len(Buffer(call))
  <2>1. PICK response \in SDKResults(length), reached \in BOOLEAN,
             noise \in {{}} \cup IF length > 2 THEN Noise ELSE {} :
          LET error == hal_write(response, length)
          IN  /\ reached \/ error
              /\ wire' = IF error \/ noise # {} THEN "disturbed" ELSE "clean"
              /\ IF reached
                   THEN Obey(call.command, Garbled(Buffer(call), noise))
                   ELSE UNCHANGED device
              /\ IF call.expected > 0 /\ error
                   THEN /\ answer' = [Nothing EXCEPT !.command = call.command,
                                                     !.error = TRUE]
                   ELSE /\ answer' = Nothing
                        /\ todo' = IF call.expected > 0 THEN todo ELSE Tail(todo)
              /\ written' = (call.expected > 0 /\ ~error)
    BY <1>7 DEF WriteCommand
  <2> DEFINE error == hal_write(response, length)
  <2>2. AnswersAreExact'
    <3>1. CASE call.expected > 0 /\ error
      <4>1. answer'.error /\ wire' = "disturbed"
        BY <2>1, <3>1 DEF Nothing
      <4> QED
        BY <4>1 DEF AnswersAreExact
    <3>2. CASE ~(call.expected > 0 /\ error)
      <4>1. answer' = Nothing
        BY <2>1, <3>2
      <4>2. /\ Nothing.error = FALSE
            /\ Nothing.told = [command |-> Nothing.command, value |-> Nothing.value]
        BY DEF Nothing
      <4> QED
        BY <4>1, <4>2 DEF AnswersAreExact
    <3> QED
      BY <3>1, <3>2
  <2>3. written' => received' = Head(todo').command
    <3> SUFFICES ASSUME written'
                 PROVE  received' = Head(todo').command
      OBVIOUS
    <3>1. call.expected > 0 /\ ~error
      BY <2>1
    <3>2. reached /\ todo' = todo
      BY <2>1, <3>1
    <3>3. received' = call.command
      BY <2>1, <3>2 DEF Obey
    <3> QED
      BY <3>2, <3>3
  <2> QED
    BY <1>1, <1>2, <2>2, <2>3 DEF AnswerInv
<1>8. CASE ReadAnswer
  <2>1. AnswersAreExact' /\ ~written'
    BY <1>8, AnswerRead DEF ReadAnswer
  <2> QED
    BY <1>1, <1>2, <2>1 DEF AnswerInv
<1>9. CASE Measure \/ UNCHANGED driverVars
  <2>1. UNCHANGED <<answer, wire, written, received, todo>>
    BY <1>9 DEF Measure, driverVars, device
  <2> QED
    BY <1>1, <1>2, <1>3, <2>1 DEF AnswerInv
<1> QED
  BY <1>5, <1>6, <1>7, <1>8, <1>9 DEF DriverNext

(* What a function of the driver returns as read is, bit for bit, what the *)
(* sensor answered to that very command, and it fails only if the transfer *)
(* did: for all measurements, texts and numbers of commands, and all noise *)
(* that is a burst of up to eight bits, the length of the checksum, in any *)
(* word (sensirion_i2c.c:37-60, 266-294, scd30_i2c.c:151-194, 349-369).    *)
THEOREM AnswersSurviveNoise == DriverSpec => []AnswersAreExact
<1>1. AnswerInv => AnswersAreExact
  BY DEF AnswerInv
<1> QED
  BY AnswerInit, AnswerStep, <1>1, PTL DEF DriverSpec

----------------------------------------------------------------------------

(* The call is for the calibration that was typed last, with a word that   *)
(* its text comes to.                                                      *)
IsAsTyped(call) ==
  /\ typed.command = call.command
  /\ Converts(typed.command, CommandParams(typed.text))
  /\ \E t \in Texts : typed.text = t.text /\ typed.meaning = t.meaning
  /\ \E word \in CalibrationWords(typed.command, CommandParams(typed.text)) :
       call.words = <<word>>

AsTyped(calls) ==
  \A i \in DOMAIN calls : calls[i].command \in Calibrations => IsAsTyped(calls[i])

(* The calls still to make are those of the control message typed last,    *)
(* and of no other one.                                                    *)
CalibrationInv ==
  /\ BusInv
  /\ settings \in [Settings -> SUBSET (0..15)]
  /\ AsTyped(todo)

(* The commands that calibrate are none of the commands that read, or that *)
(* start and stop the measurements.                                        *)
LEMMA CalibrationsAreSettings ==
  /\ Calibrations \subseteq Settings
  /\ "recalibration" # "temperature offset"
  /\ \A command \in Calibrations :
       command \notin {"start", "stop", "measurement interval", "data ready",
                       "measurement", "firmware version"} \cup Steps
BY DEF Calibrations, Settings, Steps

(* The calls that are not calibrations.                                    *)
LEMMA OtherCalls ==
  /\ \A call \in Readers \cup {HalInit, HalFree, BounceStep, stop_periodic_measurement} :
       call.command \notin Calibrations
  /\ \A word : /\ set_measurement_interval(word).command \notin Calibrations
               /\ start_periodic_measurement(word).command \notin Calibrations
<1>1. /\ await_data_ready.command = "data ready"
      /\ get_data_ready.command = "data ready"
  BY DEF await_data_ready, get_data_ready, Call
<1>2. /\ read_firmware_version.command = "firmware version"
      /\ read_measurement_data.command = "measurement"
      /\ stop_periodic_measurement.command = "stop"
  BY DEF read_firmware_version, read_measurement_data,
         stop_periodic_measurement, Call
<1>3. /\ HalInit.command = "hal_init" /\ HalFree.command = "hal_free"
      /\ BounceStep.command = "bounce power"
  BY DEF HalInit, HalFree, BounceStep, Step, Call
<1>4. \A word : /\ set_measurement_interval(word).command = "measurement interval"
                /\ start_periodic_measurement(word).command = "start"
  BY DEF set_measurement_interval, start_periodic_measurement, Call
<1>5. \A call \in Readers \cup {HalInit, HalFree, BounceStep, stop_periodic_measurement} :
        call.command \in {"stop", "data ready", "measurement", "firmware version"} \cup Steps
  BY <1>1, <1>2, <1>3 DEF Readers, Steps
<1> QED
  BY <1>4, <1>5, CalibrationsAreSettings

(* The lists of calls that no control message begins.                      *)
LEMMA OtherLists ==
  /\ AsTyped(<<>>) /\ AsTyped(<<get_data_ready>>)
  /\ AsTyped(<<read_measurement_data>>)
  /\ AsTyped(doInitialization) /\ AsTyped(startReadings) /\ AsTyped(Reset)
<1>1. AsTyped(<<>>)
  BY DEF AsTyped
<1>2. AsTyped(<<get_data_ready>>) /\ AsTyped(<<read_measurement_data>>)
  BY OtherCalls DEF AsTyped, Readers
<1>3. AsTyped(startReadings)
  BY OtherCalls DEF AsTyped, startReadings
<1>4. AsTyped(doInitialization)
  <2>1. \A i \in 1..3 : <<HalInit, await_data_ready, read_firmware_version>>[i]
          \in Readers \cup {HalInit}
    BY DEF Readers
  <2> QED
    BY <2>1, OtherCalls, InitializationList DEF AsTyped
<1>5. AsTyped(Reset)
  <2>1. \A i \in 1..6 :
          <<stop_periodic_measurement, HalFree, BounceStep, HalInit,
            await_data_ready, read_firmware_version>>[i]
          \in Readers \cup {HalInit, HalFree, BounceStep, stop_periodic_measurement}
    BY DEF Readers
  <2>2. DOMAIN <<stop_periodic_measurement, HalFree, BounceStep, HalInit,
            await_data_ready, read_firmware_version>> = 1..6
    OBVIOUS
  <2> QED
    BY <2>1, <2>2, OtherCalls, ResetList DEF AsTyped
<1> QED
  BY <1>1, <1>2, <1>3, <1>4, <1>5

(* A list without its first element is another list.                       *)
LEMMA TailIsShorter ==
  ASSUME NEW S, NEW seq \in Seq(S), seq # <<>>
  PROVE  Tail(seq) # seq /\ 1 \in DOMAIN seq
<1>1. PICK n \in Nat \ {0} : n = Len(seq)
  BY EmptySeq
<1>2. Len(Tail(seq)) = n - 1
  BY <1>1, HeadTailProperties
<1>3. n - 1 # n
  BY <1>1
<1> QED
  BY <1>1, <1>2, <1>3

(* When the first call is made, those that remain are as typed.            *)
LEMMA TailAsTyped ==
  ASSUME NEW calls, Scheduled(calls), calls # <<>>, AsTyped(calls)
  PROVE  /\ AsTyped(Tail(calls)) /\ Tail(calls) # calls
         /\ Head(calls).command \in Calibrations => IsAsTyped(Head(calls))
<1>1. /\ calls \in Seq(Calls) /\ Tail(calls) \in Seq(Calls)
      /\ Len(Tail(calls)) = Len(calls) - 1
      /\ \A i \in 1..Len(Tail(calls)) : Tail(calls)[i] = calls[i + 1]
      /\ Head(calls) = calls[1]
  BY HeadTailProperties DEF Scheduled
<1>2. ASSUME NEW i \in DOMAIN Tail(calls), Tail(calls)[i].command \in Calibrations
      PROVE  IsAsTyped(Tail(calls)[i])
  <2>1. i \in 1..Len(Tail(calls)) /\ i + 1 \in DOMAIN calls
    BY <1>1
  <2> QED
    BY <1>1, <1>2, <2>1 DEF AsTyped
<1>3. 1 \in DOMAIN calls /\ Tail(calls) # calls
  BY <1>1, TailIsShorter
<1>4. AsTyped(Tail(calls))
  BY <1>2 DEF AsTyped
<1>5. Head(calls).command \in Calibrations => IsAsTyped(Head(calls))
  BY <1>1, <1>3 DEF AsTyped
<1> QED
  BY <1>3, <1>4, <1>5

(* What is left of the calls of a control message, while it stays.         *)
LEMMA AsTypedStays ==
  ASSUME NEW calls, AsTyped(calls), UNCHANGED message
  PROVE  AsTyped(calls)'
BY DEF AsTyped, IsAsTyped, message

(* A call that sets something has a word, and expects no answer.           *)
LEMMA CallThatSets ==
  ASSUME NEW call \in Calls, call.command \in Settings
  PROVE  /\ call.expected = 0
         /\ \E word \in SUBSET (0..15) : call.words = <<word>>
<1>1. call \notin {Step(name) : name \in Steps}
  <2>1. ASSUME NEW name \in Steps
        PROVE  Step(name).command = name /\ name \notin Settings
    BY DEF Step, Call, Steps, Settings
  <2> QED
    BY <2>1
<1>2. call \notin Readers
  <2>1. /\ await_data_ready.command = "data ready"
        /\ get_data_ready.command = "data ready"
        /\ read_firmware_version.command = "firmware version"
        /\ read_measurement_data.command = "measurement"
    BY DEF await_data_ready, get_data_ready, read_firmware_version,
           read_measurement_data, Call
  <2> QED
    BY <2>1 DEF Readers, Settings
<1>3. call # stop_periodic_measurement
  <2>1. stop_periodic_measurement.command = "stop"
    BY DEF stop_periodic_measurement, Call
  <2> QED
    BY <2>1 DEF Settings
<1>4. call \in CallsThatSet
  BY <1>1, <1>2, <1>3 DEF Calls
<1>5. PICK command \in Settings, word \in SUBSET (0..15) :
        call = Call(command, <<word>>, 0)
  BY <1>4 DEF CallsThatSet
<1> QED
  BY <1>5 DEF Call

(* The word that two bytes make has them as its halves.                    *)
LEMMA WordOfBytes ==
  ASSUME NEW high \in Byte, NEW low \in Byte
  PROVE  /\ Shifted(high, 8) \cup low \in SUBSET (0..15)
         /\ High(Shifted(high, 8) \cup low) = high
         /\ Low(Shifted(high, 8) \cup low) = low
<1> DEFINE up == Shifted(high, 8)
<1>1. \A x : x \in up <=> \E b \in high : x = b + 8
  BY DEF Shifted
<1>2. \A b \in high \cup low : b \in 0..7
  BY DEF Byte
<1> HIDE DEF up
<1>3. up \cup low \in SUBSET (0..15)
  BY <1>1, <1>2
<1>4. (up \cup low) \ (0..7) = up
  BY <1>1, <1>2
<1>5. {b - 8 : b \in up} = high
  <2>1. ASSUME NEW x \in high
        PROVE  x + 8 \in up /\ x = (x + 8) - 8
    BY <1>1, <1>2
  <2>2. ASSUME NEW b \in up
        PROVE  b - 8 \in high
    <3>1. PICK a \in high : b = a + 8
      BY <1>1
    <3>2. b - 8 = a
      BY <1>2, <3>1
    <3> QED
      BY <3>2
  <2>3. \A x \in high : x \in {b - 8 : b \in up}
    BY <2>1
  <2>4. \A x \in {b - 8 : b \in up} : x \in high
    BY <2>2
  <2> QED
    BY <2>3, <2>4
<1>6. High(up \cup low) = high
  BY <1>4, <1>5 DEF High
<1>7. Low(up \cup low) = low
  BY <1>1, <1>2 DEF Low
<1> QED
  BY <1>3, <1>6, <1>7 DEF up

(* What the driver sends with a command is what the sensor would, and its  *)
(* word is taken if noise did not change it, and never otherwise.          *)
LEMMA WordArrives ==
  ASSUME NEW call, NEW word \in SUBSET (0..15), call.words = <<word>>,
         NEW noise \in {{}} \cup Noise
  PROVE  LET bytes == Garbled(Buffer(call), noise)
             arrived == Shifted(bytes[1], 8) \cup bytes[2]
         IN  /\ arrived \in SUBSET (0..15)
             /\ bytes[3] = Checksum(arrived) <=> noise = {}
             /\ noise = {} => arrived = word
<1> DEFINE bytes == Garbled(Buffer(call), noise)
           arrived == Shifted(bytes[1], 8) \cup bytes[2]
<1>1. Buffer(call) = add_uint16_t_to_buffer(word)
  BY DEF Buffer
<1>2. Buffer(call) = Sent(word)
  BY <1>1, ChecksumsAgree DEF add_uint16_t_to_buffer, Sent
<1>3. bytes = Received(word, noise)
  BY <1>2 DEF Received
<1>4. /\ bytes \in Seq(Byte) /\ Len(bytes) = 3
      /\ generate_crc(<<bytes[1], bytes[2]>>) = bytes[3] <=> noise = {}
  BY <1>3, ReceivedWord
<1> HIDE DEF bytes
<1>5. bytes[1] \in Byte /\ bytes[2] \in Byte
  BY <1>4
<1>6. /\ arrived \in SUBSET (0..15)
      /\ High(arrived) = bytes[1] /\ Low(arrived) = bytes[2]
  BY <1>5, WordOfBytes
<1>7. generate_crc(<<bytes[1], bytes[2]>>) = Checksum(arrived)
  BY <1>6, ChecksumsAgree
<1>8. ASSUME noise = {}
      PROVE  arrived = word
  <2>1. bytes = Sent(word)
    BY <1>3, <1>8, ReceivedWord
  <2> QED
    BY <2>1, HalvesOfWord DEF Sent
<1> QED
  BY <1>4, <1>6, <1>7, <1>8 DEF bytes

(* At power on there is no call to make.                                   *)
LEMMA CalibrationInit == DriverInit => CalibrationInv
BY BusInit, OtherLists DEF DriverInit, CalibrationInv

(* What may be left of the calls behind a transfer.                        *)
LEMMA ReturnedAsTyped ==
  ASSUME NEW error, NEW value, CalibrationInv, todo # <<>>, Head(todo) \in Readers,
         Returned(error, value), UNCHANGED message
  PROVE  AsTyped(todo)'
<1>1. todo' \in {todo, Tail(todo), <<>>, startReadings, Reset,
                 <<read_measurement_data>>}
  BY DEF Returned, Readers, AfterDataReady, AfterMeasurement
<1>2. Scheduled(todo) /\ AsTyped(todo)
  BY DEF CalibrationInv, BusInv
<1>3. AsTyped(Tail(todo))
  BY <1>2, TailAsTyped
<1>4. ASSUME NEW calls, AsTyped(calls), todo' = calls
      PROVE  AsTyped(todo)'
  BY <1>4, AsTypedStays DEF AsTyped, IsAsTyped, message
<1> QED
  BY <1>1, <1>2, <1>3, <1>4, OtherLists

(* The two ways that a command goes: it reaches the sensor or not.         *)
LEMMA CommandArrives ==
  ASSUME CalibrationInv, WriteCommand
  PROVE  /\ settings' \in [Settings -> SUBSET (0..15)]
         /\ \A command \in Calibrations :
              settings'[command] # settings[command] => Calling(command)
         /\ \A command \in Calibrations :
              Calling(command) =>
                \/ /\ Head(todo).words = <<settings'[command]>>
                \/ wire' = "disturbed" /\ UNCHANGED settings
<1> DEFINE call == Head(todo)
           length == 2 + Len(Buffer(call))
<1>1. todo # <<>> /\ call \in Calls
  BY FirstCall DEF WriteCommand, CalibrationInv, BusInv
<1>2. PICK response \in SDKResults(length), reached \in BOOLEAN,
           noise \in {{}} \cup IF length > 2 THEN Noise ELSE {} :
        LET error == hal_write(response, length)
        IN  /\ reached \/ error
            /\ wire' = IF error \/ noise # {} THEN "disturbed" ELSE "clean"
            /\ IF reached
                 THEN Obey(call.command, Garbled(Buffer(call), noise))
                 ELSE UNCHANGED device
  BY DEF WriteCommand
<1> DEFINE bytes == Garbled(Buffer(call), noise)
           arrived == Shifted(bytes[1], 8) \cup bytes[2]
<1>3. settings \in [Settings -> SUBSET (0..15)] /\ Calibrations \subseteq Settings
  BY CalibrationsAreSettings DEF CalibrationInv
<1>4. noise \in {{}} \cup Noise
  BY <1>2
<1> HIDE DEF call, length
<1>5. CASE ~reached
  <2>1. wire' = "disturbed" /\ UNCHANGED settings
    BY <1>2, <1>5 DEF device
  <2> QED
    BY <1>3, <2>1
<1>6. CASE reached /\ call.command \notin Settings
  <2>1. UNCHANGED settings
    BY <1>2, <1>6 DEF Obey
  <2>2. \A command \in Calibrations : ~Calling(command)
    BY <1>3, <1>6 DEF Calling, call
  <2> QED
    BY <1>3, <2>1, <2>2
<1>7. CASE reached /\ call.command \in Settings
  <2>1. PICK word \in SUBSET (0..15) : call.words = <<word>>
    BY <1>1, <1>7, CallThatSets
  <2>2. /\ arrived \in SUBSET (0..15)
        /\ bytes[3] = Checksum(arrived) <=> noise = {}
        /\ noise = {} => arrived = word
    BY <1>4, <2>1, WordArrives
  <2>3. settings' = IF bytes[3] = Checksum(arrived)
                      THEN [settings EXCEPT ![call.command] = arrived]
                      ELSE settings
    BY <1>2, <1>7 DEF Obey
  <2> HIDE DEF bytes, arrived
  <2>4. CASE noise = {}
    <3>1. settings' = [settings EXCEPT ![call.command] = word]
      BY <2>2, <2>3, <2>4
    <3>2. settings' \in [Settings -> SUBSET (0..15)]
      BY <1>3, <1>7, <3>1
    <3>3. ASSUME NEW command \in Calibrations, settings'[command] # settings[command]
          PROVE  call.command = command
      BY <1>3, <1>7, <3>1, <3>3
    <3>4. settings'[call.command] = word
      BY <1>3, <1>7, <3>1
    <3> QED
      BY <1>1, <2>1, <3>2, <3>3, <3>4 DEF Calling, call
  <2>5. CASE noise # {}
    <3>1. wire' = "disturbed" /\ UNCHANGED settings
      BY <1>2, <2>2, <2>3, <2>5
    <3> QED
      BY <1>3, <3>1
  <2> QED
    BY <2>4, <2>5
<1> QED
  BY <1>5, <1>6, <1>7 DEF call

(* Every step but the receipt of a control message leaves the calls of the *)
(* last one as they were typed.                                            *)
LEMMA CalibrationStep ==
  ASSUME CalibrationInv, [DriverNext]_driverVars
  PROVE  CalibrationInv'
<1>1. BusInv'
  BY BusStep DEF CalibrationInv
<1>2. settings \in [Settings -> SUBSET (0..15)] /\ AsTyped(todo) /\ Scheduled(todo)
  BY DEF CalibrationInv, BusInv
<1>3. ASSUME NEW calls, AsTyped(calls), todo' = calls, UNCHANGED message
      PROVE  AsTyped(todo)'
  BY <1>3, AsTypedStays DEF AsTyped, IsAsTyped, message
<1>4. CASE Command
  <2>1. todo = <<>> /\ UNCHANGED settings
    BY <1>4 DEF Command, device
  <2>2. PICK command \in Calibrations, t \in Texts :
          /\ typed' = [command |-> command, text |-> t.text, meaning |-> t.meaning]
          /\ IF mActive /\ Converts(command, CommandParams(t.text))
               THEN \E word \in CalibrationWords(command, CommandParams(t.text)) :
                      todo' = Calibrate(command, word)
               ELSE UNCHANGED todo
    BY <1>4 DEF Command
  <2>3. CASE todo' = todo
    <3>1. DOMAIN todo' = {}
      BY <2>1, <2>3
    <3> QED
      BY <1>1, <1>2, <2>1, <3>1 DEF CalibrationInv, AsTyped
  <2>4. CASE todo' # todo
    <3>1. PICK word \in CalibrationWords(command, CommandParams(t.text)) :
            todo' = Calibrate(command, word)
      BY <2>2, <2>4
    <3>2. Converts(command, CommandParams(t.text))
      BY <2>2, <2>4
    <3> DEFINE setting == Call(command, <<word>>, 0)
    <3>3. todo' = <<stop_periodic_measurement, setting>> \o startReadings
      <4>1. CASE command = "recalibration"
        BY <3>1, <4>1 DEF Calibrate, force_recalibration
      <4>2. CASE command = "temperature offset"
        BY <3>1, <4>2 DEF Calibrate, set_temperature_offset
      <4> QED
        BY <4>1, <4>2 DEF Calibrations
    <3>4. todo' = <<stop_periodic_measurement, setting,
                    set_measurement_interval(Word(2)), start_periodic_measurement({})>>
      BY <3>3, ConcatTwo DEF startReadings
    <3>5. setting.command = command /\ setting.words = <<word>>
      BY DEF Call
    <3>6. IsAsTyped(setting)'
      BY <2>2, <3>1, <3>2, <3>5 DEF IsAsTyped
    <3> HIDE DEF setting
    <3>7. ASSUME NEW i \in DOMAIN todo', todo'[i].command \in Calibrations
          PROVE  todo'[i] = setting
      <4>1. i \in {1, 2, 3, 4}
        BY <3>4, <3>7
      <4> QED
        BY <3>4, <3>7, <4>1, OtherCalls
    <3>8. ASSUME NEW i \in DOMAIN todo', todo'[i].command \in Calibrations
          PROVE  IsAsTyped(todo[i])'
      <4>1. todo'[i] = setting
        BY <3>7, <3>8
      <4> QED
        BY <3>6, <4>1 DEF IsAsTyped
    <3> QED
      BY <1>1, <1>2, <2>1, <3>8 DEF CalibrationInv, AsTyped
  <2> QED
    BY <2>3, <2>4
<1>5. CASE Update
  <2>1. UNCHANGED <<message, settings>> /\ todo' \in {<<get_data_ready>>, doInitialization}
    BY <1>5 DEF Update, device
  <2> QED
    BY <1>1, <1>2, <1>3, <2>1, OtherLists DEF CalibrationInv
<1>6. CASE hal_init \/ hal_free \/ BouncePower
  <2>1. UNCHANGED <<message, settings>> /\ todo' = Tail(todo) /\ todo # <<>>
    BY <1>6 DEF hal_init, hal_free, BouncePower, Calling, device
  <2>2. AsTyped(Tail(todo))
    BY <1>2, <2>1, TailAsTyped
  <2> QED
    BY <1>1, <1>2, <1>3, <2>1, <2>2 DEF CalibrationInv
<1>7. CASE WriteCommand
  <2> DEFINE call == Head(todo)
  <2>1. todo # <<>> /\ UNCHANGED message
    BY <1>7 DEF WriteCommand
  <2>2. \/ call.expected > 0 /\ Returned(TRUE, <<>>)
        \/ todo' = todo
        \/ todo' = Tail(todo)
    BY <1>7 DEF WriteCommand
  <2>3. call.expected > 0 => call \in Readers
    BY <1>2, <2>1, FirstCall, ReadersExpect
  <2>4. AsTyped(Tail(todo))
    BY <1>2, <2>1, TailAsTyped
  <2>5. AsTyped(todo)'
    BY <1>2, <1>3, <2>1, <2>2, <2>3, <2>4, ReturnedAsTyped
  <2> QED
    BY <1>1, <1>7, <2>5, CommandArrives DEF CalibrationInv
<1>8. CASE ReadAnswer
  <2>1. /\ written /\ UNCHANGED <<message, settings>>
        /\ \E error, value : Returned(error, value)
    BY <1>8 DEF ReadAnswer
  <2>2. todo # <<>> /\ Head(todo) \in Readers
    BY <2>1 DEF CalibrationInv, BusInv
  <2>3. AsTyped(todo)'
    BY <2>1, <2>2, ReturnedAsTyped
  <2> QED
    BY <1>1, <1>2, <2>1, <2>3 DEF CalibrationInv
<1>9. CASE Measure \/ UNCHANGED driverVars
  <2>1. UNCHANGED <<message, settings, todo>>
    BY <1>9 DEF Measure, driverVars, device
  <2> QED
    BY <1>1, <1>2, <1>3, <2>1 DEF CalibrationInv
<1> QED
  BY <1>4, <1>5, <1>6, <1>7, <1>8, <1>9 DEF DriverNext

(* A calibration changes in no step but the transfer of its command, and   *)
(* what a clean transfer sets is what the text comes to.                   *)
LEMMA CalibrationChanges ==
  ASSUME CalibrationInv, [DriverNext]_driverVars, NEW command \in Calibrations
  PROVE  LET sent == Calling(command) /\ todo' = Tail(todo)
         IN  /\ settings'[command] # settings[command] => sent /\ IsAsTyped(Head(todo))
             /\ sent => /\ IsAsTyped(Head(todo)) /\ UNCHANGED message
                        /\ \/ Head(todo).words = <<settings'[command]>>
                           \/ wire' = "disturbed" /\ UNCHANGED settings
<1> DEFINE sent == Calling(command) /\ todo' = Tail(todo)
<1>1. AsTyped(todo) /\ Scheduled(todo)
  BY DEF CalibrationInv, BusInv
<1>2. Calling(command) => IsAsTyped(Head(todo)) /\ Tail(todo) # todo
  BY <1>1, TailAsTyped DEF Calling
<1>3. CASE WriteCommand
  <2>1. UNCHANGED message
    BY <1>3 DEF WriteCommand
  <2>2. Calling(command) => todo' = Tail(todo)
    <3> SUFFICES ASSUME Calling(command)
                 PROVE  todo' = Tail(todo)
      OBVIOUS
    <3>1. Head(todo) \in Calls /\ Head(todo).command = command
      BY <1>1, FirstCall DEF Calling
    <3>2. Head(todo).expected = 0
      BY <3>1, CallThatSets, CalibrationsAreSettings
    <3>3. Head(todo).expected > 0
            \/ todo' = IF Head(todo).expected > 0 THEN todo ELSE Tail(todo)
      BY <1>3 DEF WriteCommand
    <3> QED
      BY <3>2, <3>3
  <2> QED
    BY <1>2, <1>3, <2>1, <2>2, CommandArrives
<1>4. CASE Command \/ Update
  BY <1>4 DEF Command, Update, device, Calling
<1>5. CASE hal_init \/ hal_free \/ BouncePower
  <2>1. UNCHANGED settings
    BY <1>5 DEF hal_init, hal_free, BouncePower, device
  <2>2. Head(todo).command \in Steps
    BY <1>5 DEF hal_init, hal_free, BouncePower, Calling, Steps
  <2> QED
    BY <2>1, <2>2, CalibrationsAreSettings DEF Calling
<1>6. CASE ReadAnswer
  <2>1. written /\ UNCHANGED settings
    BY <1>6 DEF ReadAnswer
  <2>2. Head(todo).command \notin Calibrations
    BY <2>1, OtherCalls DEF CalibrationInv, BusInv
  <2> QED
    BY <2>1, <2>2 DEF Calling
<1>7. CASE Measure \/ UNCHANGED driverVars
  <2>1. UNCHANGED <<settings, todo>>
    BY <1>7 DEF Measure, driverVars, device
  <2> QED
    BY <1>2, <2>1
<1> QED
  BY <1>3, <1>4, <1>5, <1>6, <1>7 DEF DriverNext

(* A calibration of the sensor changes in the transfer of the command of   *)
(* the last control message and in no other step, to the number that the   *)
(* message asks for, and does so unless that transfer is disturbed: for    *)
(* all measurements, bursts of noise, failed transfers and numbers of      *)
(* messages, and all texts of which strtol and strtod make what they mean, *)
(* which is a hypothesis on the constant Texts that those of the run meet  *)
(* (sensor_control_message.cpp:24-33, scd30_sensor.cpp:99-133, 226-262).   *)
THEOREM CalibrationsArrive ==
  TextsMeanNumbers => (DriverSpec => CalibrationIsWhatWasSent)
<1> SUFFICES ASSUME TextsMeanNumbers
             PROVE  DriverSpec => CalibrationIsWhatWasSent
  OBVIOUS
<1> DEFINE Changes(command) ==
             LET sent == Calling(command) /\ todo' = Tail(todo)
             IN  /\ settings'[command] # settings[command] =>
                      sent /\ typed.command = command /\ typed.meaning # NotANumber
                 /\ sent /\ Expressible =>
                      \/ settings'[command] \in AskedWords
                      \/ wire' = "disturbed" /\ UNCHANGED settings
<1>1. ASSUME NEW call, NEW command \in Calibrations,
             call.command = command, IsAsTyped(call)
      PROVE  /\ typed.command = command /\ typed.meaning # NotANumber
             /\ \A word : call.words = <<word>> /\ Expressible => word \in AskedWords
  <2>1. PICK t \in Texts : typed.text = t.text /\ typed.meaning = t.meaning
    BY <1>1 DEF IsAsTyped
  <2>2. typed.command = command /\ Converts(command, CommandParams(t.text))
    BY <1>1, <2>1 DEF IsAsTyped
  <2>3. PICK word \in CalibrationWords(command, CommandParams(t.text)) :
          call.words = <<word>>
    BY <1>1, <2>1, <2>2 DEF IsAsTyped
  <2>4. typed.meaning # NotANumber
    BY <2>1, <2>2 DEF TextsMeanNumbers
  <2>5. Expressible =>
          CalibrationWords(command, CommandParams(t.text)) \subseteq AskedWords
    <3> DEFINE asked == IF command = "recalibration" THEN t.meaning \div 100 ELSE t.meaning
               numbers == {Word(asked)} \cup
                            IF command = "temperature offset" /\ asked % 25 # 0
                              THEN {Word(asked - 1)} ELSE {}
    <3>1. Len(t.text) <= MAX_COMPONENT_LENGTH /\ asked < 2^16 =>
            CalibrationWords(command, CommandParams(t.text)) \subseteq numbers
      BY <2>2 DEF TextsMeanNumbers
    <3>2. AskedFor = asked /\ AskedWords = numbers
      BY <2>1, <2>2 DEF AskedWords, AskedFor
    <3> HIDE DEF asked, numbers
    <3> QED
      BY <2>1, <3>1, <3>2 DEF Expressible
  <2>6. \A other : call.words = <<other>> => other = word
    BY <2>3
  <2> QED
    BY <2>2, <2>3, <2>4, <2>5, <2>6
<1>2. ASSUME CalibrationInv, [DriverNext]_driverVars, NEW command \in Calibrations
      PROVE  Changes(command)
  BY <1>1, <1>2, CalibrationChanges DEF Calling
<1>3. CalibrationInv /\ [DriverNext]_driverVars => \A command \in Calibrations : Changes(command)
  BY <1>2
<1>4. CalibrationInv /\ [DriverNext]_driverVars =>
        [\A command \in Calibrations : Changes(command)]_driverVars
  BY <1>3
<1> QED
  BY <1>4, CalibrationInit, CalibrationStep, PTL
  DEF DriverSpec, CalibrationIsWhatWasSent

============================================================================
