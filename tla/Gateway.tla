------------------------------ MODULE Gateway ------------------------------
(***************************************************************************)
(* The gateway proper: the serial line composed with the MQTT client.      *)
(* uart_event_task calls mqtt_publish_data as its data_callback and stays  *)
(* in it as long as the client is locked, while the driver goes on filling *)
(* the ring and the queue behind it.  Line is the line's side, Mqtt the    *)
(* client's; the call and its return are the steps they take together.     *)
(***************************************************************************)
EXTENDS UartParameters, MqttParameters, Sequences

(* The client knows a payload by its number; it is published[n].           *)
ASSUME NumberAssumption == Payloads = 1..Frames

VARIABLES
  sent, ring, stash, queue, task, need, dtmp, published,
  stored, base, leaked, intact,
  app, client, registered, link, handler, payload, outbox, wire, acks, subs,
  handed, refused, dropped, delivered

Line == INSTANCE UartPipeline
Mqtt == INSTANCE MqttGateway

lineSide == <<sent, ring, stash, queue, task, need, dtmp, published,
              stored, base, leaked, intact>>
mqttSide == <<app, client, registered, link, handler, payload, outbox, wire,
              acks, subs, handed, refused, dropped, delivered>>
vars == <<lineSide, mqttSide>>

Init == Line!Init /\ Mqtt!Init

LineOnly(step) == step /\ UNCHANGED mqttSide
MqttOnly(step) == step /\ UNCHANGED lineSide

-----------------------------------------------------------------------------
(* uart_handler_init comes last in app_main: no interrupt, no task before. *)
UartRuns == app = "running"

(* Slip: the task goes on, and frees the payload, before it is published.  *)
CallWithoutWaiting == /\ task = "parse" /\ Line!Publish
                      /\ Mqtt!Callback(Len(published) + 1)

(* data_callback(json_payload): without a client it returns at once.       *)
Call == /\ task = "parse" /\ Line!HasPayload
        /\ Mqtt!Callback(Len(published) + 1)
        /\ IF client = NULL THEN Line!Publish ELSE UNCHANGED lineSide

(* esp_mqtt_client_publish returns, and the task frees the payload.        *)
Return == Mqtt!Publish /\ Line!Publish

NoCall == /\ payload = NoPayload
          /\ LineOnly(Line!NothingToPublish \/ Line!OutOfMemory)

UartTask == UartRuns /\ \/ LineOnly(Line!TakeEvent \/ Line!Read \/ Line!Discard)
                        \/ Call \/ NoCall

Driver == UartRuns /\ LineOnly(Line!Interrupt)

AppMain == MqttOnly(Mqtt!AppMain)
MqttTask == MqttOnly(Mqtt!MqttTask)
Resend(p) == MqttOnly(Mqtt!Resend(p))
Acknowledged(p) == MqttOnly(Mqtt!Acknowledged(p))
BrokerTakes(packet) == MqttOnly(Mqtt!BrokerTakes(packet))
Nuisance == MqttOnly(Mqtt!Lose \/ \E p \in Payloads : Mqtt!Expire(p))

Next == \/ UartTask \/ Return \/ Driver
        \/ AppMain \/ MqttTask \/ Nuisance
        \/ \E p \in Payloads : Resend(p) \/ Acknowledged(p)
        \/ \E packet \in wire : BrokerTakes(packet)

Spec == Init /\ [][Next]_vars

(* As in the two parts; and uart_event_task, of priority 12, gets the      *)
(* client's mutex when the client's task, of priority 5, releases it: it   *)
(* is ready then, and the other has to run to take the mutex again.        *)
FairSpec == /\ Spec
            /\ WF_vars(UartTask) /\ SF_vars(Return)
            /\ WF_vars(AppMain) /\ WF_vars(MqttTask)
            /\ \A p \in Payloads : WF_vars(Resend(p)) /\ WF_vars(Acknowledged(p))
            /\ \A packet \in Payloads \cup Topics : WF_vars(BrokerTakes(packet))

-----------------------------------------------------------------------------
(* Properties.  Those of the parts hold of the whole.                      *)

TypeOK == Line!TypeOK /\ Mqtt!TypeOK

(* See UartPipeline.                                                       *)
ReadNeverBlocks == Line!ReadNeverBlocks
NoSilentDrift == Line!NoSilentDrift

(* See MqttGateway.                                                        *)
NothingLost == Mqtt!NothingLost
SubscribedWhileUp == Mqtt!SubscribedWhileUp

FramePayload(n) == <<<<3 * n - 2>>, <<3 * n>>>>

(* A payload under way to the broker is what the line carried: as long as  *)
(* every frame came as one chunk and the line lost none, the n-th payload  *)
(* is the n-th frame, and with the client or the broker, or accounted for  *)
(* as in NothingLost, however long the callback was held up; nothing is    *)
(* under way that was not published.                                       *)
FramesArrive ==
  /\ handed \subseteq 1..(Len(published) + 1)
  /\ payload # NoPayload => task = "parse" /\ payload = Len(published) + 1
  /\ intact => \A n \in 1..Len(published) :
                 /\ published[n] = FramePayload(n)
                 /\ n \in outbox \cup delivered \cup dropped \cup refused

(* When the line falls silent, the task gets through all its events, a     *)
(* broker that never answers notwithstanding: a callback held up by the    *)
(* client returns.                                                         *)
Drains == Line!Drains

(* Once a connection holds, all the line delivered reaches the broker.     *)
ConnectionSettles == <>[](link = "up") => <>[]Mqtt!Settled
=============================================================================
