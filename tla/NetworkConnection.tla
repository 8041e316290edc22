------------------------- MODULE NetworkConnection -------------------------
(***************************************************************************)
(* The way of core 0 to the broker: WiFi, name look-up, MQTT connection    *)
(* and subscriptions (cores/core_0_executor.cpp, network/), and the way of *)
(* a control command from the broker into the mailbox through the one      *)
(* message buffer of MQTTController (network/mqtt_controller.cpp).         *)
(*                                                                         *)
(* The network stack runs in interrupts of core 0, between any two steps   *)
(* of core 0's loop that do not hold its lock.  The stack itself is        *)
(* external: it answers each request that it accepted, once, may refuse    *)
(* one at once, and reports each change of a connection to the callback    *)
(* given with it.  The settings of WiFi and broker are taken to be stored. *)
(***************************************************************************)
EXTENDS Naturals, FiniteSetsExt

CONSTANTS
  Topics,         \* the control topics of the sensor groups
  MaxInFlight,    \* MQTT_REQ_MAX_IN_FLIGHT
  PayloadLength,  \* MQTT_MAX_PAYLOAD_LENGTH, in units of 64 bytes
  ClearedLength,  \* the part of it that initialize clears, in those units
  MaxPublishes    \* bound on the number of control messages of the broker

ASSUME NetworkAssumption ==
  /\ IsFiniteSet(Topics)
  /\ MaxInFlight \in Nat
  /\ Cardinality(Topics) <= MaxInFlight
  /\ {PayloadLength, ClearedLength} \subseteq Nat \ {0}
  /\ ClearedLength <= PayloadLength
  /\ MaxPublishes \in Nat

VARIABLES
  pc,                    \* core 0: the stage of its loop
  stack,                 \* cyw43_arch_async_context() is there
  wifi,                  \* NetworkController::isConnected()
  client,                \* mMQTTClient is there
  conn,                  \* state of the client's connection
  subscribed,            \* topics requested on the present connection
  toSubscribe,           \* core 0: topics still to be requested
  resolution,            \* DNSRequest::mStatus
  resolved,              \* DNSRequest::mResolvedAddress is not 0
  pending,               \* the stack will call on_resolution_completed
  mConnectionCompleted, mStatus,  \* the ConnectionMonitor of the last call
  stray,                 \* history: a callback wrote to a monitor of the past
  mMessage, mPayloadSize, mBufferIndex,  \* mIncomingMessageBuffer
  incoming,              \* the message that the broker is sending
  publishes,             \* number of the broker's last message
  delivered              \* history: the last command put in the mailbox

coreVars     == <<pc, toSubscribe>>
wifiVars     == <<stack, wifi>>
dnsVars      == <<resolution, resolved, pending>>
monitorVars  == <<mConnectionCompleted, mStatus, stray>>
clientVars   == <<client, conn, subscribed>>
bufferVars   == <<mMessage, mPayloadSize, mBufferIndex>>
publishVars  == <<incoming, publishes, delivered>>

vars == <<coreVars, wifiVars, dnsVars, monitorVars, clientVars, bufferVars,
          publishVars>>

(* A message is known by its number, which stands for its topic and for    *)
(* each unit of its payload; 0 is no topic and a cleared unit.             *)
Units == 1..PayloadLength

Idle == [number |-> 0, length |-> 0, sent |-> 0]

NoCommand == [number |-> 0, length |-> 0, topic |-> 0,
              payload |-> [u \in Units |-> 0]]

Init ==
  /\ pc = "check"
  /\ toSubscribe = {}
  /\ stack = FALSE
  /\ wifi = FALSE
  /\ client = FALSE
  /\ conn = "disconnected"
  /\ subscribed = {}
  /\ resolution = "ok"
  /\ resolved = FALSE
  /\ pending = FALSE
  /\ mConnectionCompleted = FALSE
  /\ mStatus = "unset"
  /\ stray = FALSE
  /\ mMessage = [topic |-> 0, payload |-> [u \in Units |-> 0]]
  /\ mPayloadSize = 0
  /\ mBufferIndex = 0
  /\ incoming = Idle
  /\ publishes = 0
  /\ delivered = NoCommand

----------------------------------------------------------------------------
(* MQTTMessageBuffer::initialize and setMessageTopic.  Only the first part *)
(* of the payload is cleared.                                              *)
Initialize(topic, size) ==
  /\ mMessage' = [topic |-> topic,
                  payload |-> [u \in Units |->
                    IF u <= ClearedLength THEN 0 ELSE mMessage.payload[u]]]
  /\ mPayloadSize' = size
  /\ mBufferIndex' = 0

(* mqtt_connection_callback.  The monitor lives in the frame of            *)
(* connectToBrokerBlocking.                                                *)
ConnectionCallback(status) ==
  IF pc \in {"connecting", "return"}
    THEN /\ mStatus' = status
         /\ mConnectionCompleted' = TRUE
         /\ UNCHANGED stray
    ELSE /\ stray' = TRUE
         /\ UNCHANGED <<mStatus, mConnectionCompleted>>

(* The end of the client's connection, if it has one, by whatever cause.   *)
EndConnection ==
  /\ conn' = "disconnected"
  /\ subscribed' = {}
  /\ incoming' = Idle
  /\ IF conn # "disconnected" THEN ConnectionCallback("refused")
                              ELSE UNCHANGED monitorVars

----------------------------------------------------------------------------
(* checkNetworkConnection, up to the wait of init_wifi: a stack that is    *)
(* there is shut down, and with it the connections in it.  The new one may *)
(* fail to start.                                                          *)
CheckNetwork ==
  /\ pc = "check"
  /\ IF wifi
       THEN /\ pc' = "broker"
            /\ UNCHANGED <<stack, conn, subscribed, incoming, monitorVars>>
       ELSE /\ stack' \in BOOLEAN
            /\ pc' = IF stack' THEN "joining" ELSE "broker"
            /\ EndConnection
  /\ UNCHANGED <<wifi, toSubscribe, dnsVars, client, bufferVars, publishes,
                 delivered>>

(* The join succeeds: initMQTTClient replaces the client.                  *)
JoinWiFi ==
  /\ pc = "joining"
  /\ wifi' = TRUE
  /\ client' = TRUE
  /\ conn' = "disconnected"
  /\ subscribed' = {}
  /\ Initialize(0, 0)
  /\ pc' = "broker"
  /\ UNCHANGED <<stack, toSubscribe, dnsVars, monitorVars, publishVars>>

(* cyw43_arch_wifi_connect_timeout_ms gives up; the radio does not.        *)
JoinFails ==
  /\ pc = "joining"
  /\ pc' = "broker"
  /\ UNCHANGED <<wifiVars, toSubscribe, dnsVars, monitorVars, clientVars,
                 bufferVars, publishVars>>

(* Is there WiFi, and does createMQTTConnection have anything to do?       *)
CheckBroker ==
  /\ pc = "broker"
  /\ pc' = IF ~wifi THEN "check"
           ELSE IF client /\ conn = "connected" THEN "publish"
           ELSE "resolve"
  /\ UNCHANGED <<toSubscribe, wifiVars, dnsVars, monitorVars, clientVars,
                 bufferVars, publishVars>>

(* A mutant of ResolveHost: without the lock, the callback may come before *)
(* mStatus is assigned.                                                    *)
ResolveHostUnlocked ==
  /\ pc = "resolve"
  /\ resolution' \in {"ok", "arg", "inprogress", "other"}
  /\ resolved' \in BOOLEAN
  /\ resolution' = "ok" => resolved'
  /\ pending' = (resolution' = "inprogress" /\ ~resolved')
  /\ pc' = IF resolution' \in {"ok", "arg"} THEN "resolved" ELSE "resolving"
  /\ UNCHANGED <<toSubscribe, wifiVars, monitorVars, clientVars, bufferVars,
                 publishVars>>

(* resolveHost: the call and the assignment of its result to mStatus are   *)
(* under the lock of the stack.  "other" stands for the errors that        *)
(* neither of the two tests names.                                         *)
ResolveHost ==
  /\ pc = "resolve"
  /\ resolution' \in {"ok", "arg", "inprogress", "other"}
  /\ resolved' = (resolution' = "ok")
  /\ pending' = (resolution' = "inprogress")
  /\ pc' = IF resolution' \in {"ok", "arg"} THEN "resolved" ELSE "resolving"
  /\ UNCHANGED <<toSubscribe, wifiVars, monitorVars, clientVars, bufferVars,
                 publishVars>>

(* on_resolution_completed, in an interrupt.                               *)
ResolutionCallback ==
  /\ pending
  /\ pending' = FALSE
  /\ \/ resolution' = "ok" /\ resolved' = TRUE
     \/ resolution' = "arg" /\ UNCHANGED resolved
  /\ UNCHANGED <<coreVars, wifiVars, monitorVars, clientVars, bufferVars,
                 publishVars>>

(* The end of resolveHost's wait.                                          *)
Resolved ==
  /\ pc = "resolving"
  /\ resolution \in {"ok", "arg"}
  /\ pc' = "resolved"
  /\ UNCHANGED <<toSubscribe, wifiVars, dnsVars, monitorVars, clientVars,
                 bufferVars, publishVars>>

(* connectToBrokerBlocking, up to its wait.  mqtt_client_connect asserts   *)
(* that there is a client; an error it returns is ignored.                 *)
ConnectToBroker ==
  /\ pc = "resolved"
  /\ IF ~resolved
       THEN pc' = "publish" /\ UNCHANGED <<conn, mConnectionCompleted, mStatus>>
       ELSE IF ~client
       THEN pc' = "halted" /\ UNCHANGED <<conn, mConnectionCompleted, mStatus>>
       ELSE /\ pc' = "connecting"
            /\ mConnectionCompleted' = FALSE
            /\ mStatus' = "unset"
            /\ \/ conn = "disconnected" /\ wifi /\ conn' = "connecting"
               \/ UNCHANGED conn
  /\ UNCHANGED <<toSubscribe, wifiVars, dnsVars, stray, client, subscribed,
                 bufferVars, publishVars>>

(* The broker's answer, or the stack's when there is none, in an interrupt.*)
BrokerAnswers ==
  /\ conn = "connecting"
  /\ \/ /\ conn' = "connected"
        /\ ConnectionCallback("accepted")
        /\ UNCHANGED <<subscribed, incoming>>
     \/ EndConnection
  /\ UNCHANGED <<coreVars, wifiVars, dnsVars, client, bufferVars, publishes,
                 delivered>>

(* A mutant of WaitForBroker: the time out works.                          *)
WaitForBrokerTimesOut ==
  /\ pc = "connecting"
  /\ pc' = "return"
  /\ UNCHANGED <<toSubscribe, wifiVars, dnsVars, monitorVars, clientVars,
                 bufferVars, publishVars>>

(* The wait of connectToBrokerBlocking.  timeDiff is never computed again, *)
(* so it ends with the callback alone.                                     *)
WaitForBroker ==
  /\ pc = "connecting"
  /\ mConnectionCompleted
  /\ pc' = "return"
  /\ UNCHANGED <<toSubscribe, wifiVars, dnsVars, monitorVars, clientVars,
                 bufferVars, publishVars>>

(* Its result, and the topics to subscribe to when it is good.             *)
ReturnStatus ==
  /\ pc = "return"
  /\ IF mStatus = "accepted"
       THEN pc' = "subscribe" /\ toSubscribe' = Topics
       ELSE pc' = "publish" /\ UNCHANGED toSubscribe
  /\ UNCHANGED <<wifiVars, dnsVars, monitorVars, clientVars, bufferVars,
                 publishVars>>

(* A mutant of Subscribe: only the first topic.                            *)
SubscribeFirst ==
  /\ pc = "subscribe"
  /\ \E t \in toSubscribe :
       /\ toSubscribe' = toSubscribe \ {t}
       /\ subscribed' = IF conn = "connected" THEN subscribed \cup {t}
                                              ELSE subscribed
  /\ pc' = "check"
  /\ UNCHANGED <<wifiVars, dnsVars, monitorVars, client, conn, bufferVars,
                 publishVars>>

(* subscribeToTopic, whose errors are ignored, for one topic after the     *)
(* other.  After the last nothing is due to be published in this turn.     *)
Subscribe ==
  /\ pc = "subscribe"
  /\ IF toSubscribe = {}
       THEN pc' = "check" /\ UNCHANGED <<toSubscribe, subscribed>>
       ELSE \E t \in toSubscribe :
              /\ toSubscribe' = toSubscribe \ {t}
              /\ subscribed' = IF /\ conn = "connected"
                                  /\ Cardinality(subscribed) < MaxInFlight
                                 THEN subscribed \cup {t}
                                 ELSE subscribed
              /\ UNCHANGED pc
  /\ UNCHANGED <<wifiVars, dnsVars, monitorVars, client, conn, bufferVars,
                 publishVars>>

(* transmitData, if it is due, and sleep_ms; what it publishes is in       *)
(* SensorModule.                                                           *)
Publish ==
  /\ pc = "publish"
  /\ pc' = "check"
  /\ UNCHANGED <<toSubscribe, wifiVars, dnsVars, monitorVars, clientVars,
                 bufferVars, publishVars>>

----------------------------------------------------------------------------
(* The radio loses the access point, and may find it again by itself.      *)
LinkChanges ==
  /\ wifi' = (stack /\ ~wifi)
  /\ UNCHANGED <<coreVars, stack, dnsVars, monitorVars, clientVars,
                 bufferVars, publishVars>>

LoseConnection ==
  /\ conn = "connected"
  /\ EndConnection
  /\ UNCHANGED <<coreVars, wifiVars, dnsVars, client, bufferVars, publishes,
                 delivered>>

(* A mutant of PublishStart: the place in the buffer is not reset.         *)
PublishStartKeepsIndex(length) ==
  /\ conn = "connected" /\ subscribed # {}
  /\ incoming = Idle
  /\ publishes < MaxPublishes
  /\ publishes' = publishes + 1
  /\ incoming' = [number |-> publishes', length |-> length, sent |-> 0]
  /\ mMessage' = [mMessage EXCEPT !.topic = publishes']
  /\ mPayloadSize' = length
  /\ UNCHANGED <<mBufferIndex, coreVars, wifiVars, dnsVars, monitorVars,
                 clientVars, delivered>>

(* A mutant of PublishStart: the payload is not cleared.                   *)
PublishStartKeepsPayload(length) ==
  /\ conn = "connected" /\ subscribed # {}
  /\ incoming = Idle
  /\ publishes < MaxPublishes
  /\ publishes' = publishes + 1
  /\ incoming' = [number |-> publishes', length |-> length, sent |-> 0]
  /\ IF length > PayloadLength
       THEN Initialize(0, 0)
       ELSE /\ mMessage' = [mMessage EXCEPT !.topic = publishes']
            /\ mPayloadSize' = length
            /\ mBufferIndex' = 0
  /\ UNCHANGED <<coreVars, wifiVars, dnsVars, monitorVars, clientVars,
                 delivered>>

(* mqtt_publish_start_callback: a message begins to arrive on a topic that *)
(* was subscribed to.                                                      *)
PublishStart(length) ==
  /\ conn = "connected" /\ subscribed # {}
  /\ incoming = Idle
  /\ publishes < MaxPublishes
  /\ publishes' = publishes + 1
  /\ incoming' = [number |-> publishes', length |-> length, sent |-> 0]
  /\ IF length > PayloadLength THEN Initialize(0, 0)
                               ELSE Initialize(publishes', length)
  /\ UNCHANGED <<coreVars, wifiVars, dnsVars, monitorVars, clientVars,
                 delivered>>

(* sendSensorControlMessageToCore1: fillFromMQTT refuses a message without *)
(* topic, and one whose payload holds no command.                          *)
Deliver(message) ==
  delivered' = IF message.topic # 0 /\ message.payload[1] # 0
                 THEN [number |-> incoming.number, length |-> incoming.length,
                       topic |-> message.topic, payload |-> message.payload]
                 ELSE delivered

(* mqtt_publish_data_callback with the next fragment of the message, which *)
(* may be empty.                                                           *)
PublishData(length) ==
  /\ incoming # Idle
  /\ incoming.sent + length <= incoming.length
  /\ incoming' = IF incoming.sent + length = incoming.length
                   THEN Idle ELSE [incoming EXCEPT !.sent = @ + length]
  /\ IF mBufferIndex + length <= mPayloadSize
       THEN /\ mMessage' = [mMessage EXCEPT !.payload =
                 [u \in Units |-> IF u \in mBufferIndex + 1..mBufferIndex + length
                                    THEN incoming.number ELSE @[u]]]
            /\ mBufferIndex' = mBufferIndex + length
            /\ IF mBufferIndex' >= mPayloadSize THEN Deliver(mMessage')
                                                ELSE UNCHANGED delivered
       ELSE UNCHANGED <<mMessage, mBufferIndex, delivered>>
  /\ UNCHANGED <<coreVars, wifiVars, dnsVars, monitorVars, clientVars,
                 mPayloadSize, publishes>>

Core0 ==
  \/ CheckNetwork \/ JoinWiFi \/ JoinFails \/ CheckBroker \/ ResolveHost
  \/ Resolved \/ ConnectToBroker \/ WaitForBroker \/ ReturnStatus
  \/ Subscribe \/ Publish

(* Messages may be one unit longer than the buffer.                        *)
Network ==
  \/ LinkChanges \/ LoseConnection \/ ResolutionCallback \/ BrokerAnswers
  \/ \E length \in 0..PayloadLength + 1 :
       PublishStart(length) \/ PublishData(length)

Next == Core0 \/ Network

(* Core 0 loops for ever, and the stack answers what it has accepted, if   *)
(* only by its own time out.                                               *)
Spec == /\ Init /\ [][Next]_vars
        /\ WF_vars(Core0) /\ WF_vars(ResolutionCallback) /\ WF_vars(BrokerAnswers)

----------------------------------------------------------------------------
Numbers == 0..MaxPublishes

Message == [topic : Numbers, payload : [Units -> Numbers]]

TypeOK ==
  /\ pc \in {"check", "joining", "broker", "resolve", "resolving", "resolved",
             "connecting", "return", "subscribe", "publish", "halted"}
  /\ toSubscribe \subseteq Topics
  /\ stack \in BOOLEAN /\ wifi \in BOOLEAN /\ client \in BOOLEAN
  /\ resolved \in BOOLEAN /\ pending \in BOOLEAN
  /\ mConnectionCompleted \in BOOLEAN /\ stray \in BOOLEAN
  /\ conn \in {"disconnected", "connecting", "connected"}
  /\ subscribed \subseteq Topics
  /\ resolution \in {"ok", "arg", "inprogress", "other"}
  /\ mStatus \in {"unset", "accepted", "refused"}
  /\ mMessage \in Message
  /\ mPayloadSize \in 0..PayloadLength
  /\ mBufferIndex \in 0..mPayloadSize
  /\ incoming \in [number : Numbers, length : 0..PayloadLength + 1,
                   sent : 0..PayloadLength + 1]
  /\ publishes \in Numbers
  /\ delivered \in [number : Numbers, length : 0..PayloadLength + 1,
                    topic : Numbers, payload : [Units -> Numbers]]

(* A callback writes to the monitor of a call that has returned only when  *)
(* an established connection ends (mqtt_controller.cpp:168-172): no        *)
(* attempt outlives the call that began it, whose answer would be lost.    *)
StrayOnlyAtTheEnd == [][stray' # stray => conn = "connected"]_vars

(* Whenever core 0 is back in its loop with a connection, every control    *)
(* topic has been subscribed to on this very connection                    *)
(* (core_0_executor.cpp:163-173).                                          *)
ServedMeansSubscribed ==
  conn = "connected" /\ pc \notin {"connecting", "return", "subscribe"}
    => subscribed = Topics

(* A command put in the mailbox begins with the whole payload of the       *)
(* message that it has the topic of, whatever messages were refused, cut   *)
(* off or lost before; and nothing of an earlier one follows a payload     *)
(* shorter than the part that is cleared (mqtt_controller.cpp:22-27,       *)
(* 175-222).                                                               *)
CommandsAreWhole ==
  delivered.number # 0 =>
    /\ delivered.topic = delivered.number
    /\ delivered.length <= PayloadLength
    /\ \A u \in Units : u <= delivered.length
         => delivered.payload[u] = delivered.number
    /\ delivered.length < ClearedLength
         => delivered.payload[delivered.length + 1] = 0

(* The waits of core 0 that nothing ends: for an answer after an error of  *)
(* dns_gethostbyname or mqtt_client_connect; and the missing client when   *)
(* WiFi comes up just after the first attempt has given up.                *)
NeverEnds ==
  \/ pc = "resolving" /\ resolution = "other"
  \/ pc = "connecting" /\ conn = "disconnected" /\ ~mConnectionCompleted
  \/ pc = "halted"

(* Nothing else keeps core 0 from its loop: no order of callbacks and lost *)
(* connections is missed (network_controller.cpp:26-43 and                 *)
(* mqtt_controller.cpp:50-85).                                             *)
LoopReturns == (pc # "check") ~> (pc = "check" \/ NeverEnds)

============================================================================
