---------------------------- MODULE MqttGateway ----------------------------
(***************************************************************************)
(* From the publish callback to the broker: app_main sets the MQTT client  *)
(* up and starts the serial line, uart_event_task hands its payloads to    *)
(* mqtt_publish_data, and the client's own task connects, calls            *)
(* mqtt_event_handler and sends the outbox again and again.                *)
(*                                                                         *)
(* The client (esp-mqtt) and the broker are modelled from the calls made   *)
(* to them: QoS 1, a clean session, one lock around the client.            *)
(***************************************************************************)
EXTENDS MqttParameters

VARIABLES
  app,        \* where mqtt_app_start and, after it, uart_handler_init stand
  client,     \* the handle mqtt_publish_data looks at
  registered, \* mqtt_event_handler is registered with the client
  link,       \* the client: not there, made, or its connection
  handler,    \* what mqtt_event_handler has still to do
  payload,    \* what uart_event_task wants to publish; it waits for the lock
  outbox,     \* payloads the client keeps until they are acknowledged
  wire,       \* subscriptions and payloads sent, not yet at the broker
  acks,       \* acknowledgements sent, not yet at the client
  subs,       \* the broker's subscriptions of this session
  handed,     \* history: payloads the callback was called with
  refused,    \* history: those turned down with "not initialized"
  dropped,    \* history: those the client has no memory for, or no patience
  delivered   \* history: those that reached the broker

setupVars == <<app, registered>>
uartVars == <<payload, handed, refused>>
keptVars == <<outbox, dropped>>
netVars == <<wire, acks, subs, delivered>>
vars == <<setupVars, client, link, handler, uartVars, keptVars, netVars>>

Init == /\ app = "init" /\ client = NULL /\ registered = FALSE
        /\ link = "none" /\ handler = "idle"
        /\ payload = NoPayload
        /\ outbox = {} /\ wire = {} /\ acks = {} /\ subs = {}
        /\ handed = {} /\ refused = {} /\ dropped = {} /\ delivered = {}

-----------------------------------------------------------------------------
(* app_main: mqtt_app_start, then uart_handler_init.                       *)

(* Slip: the client is started before its handler is registered.           *)
StartedFirst == [init |-> "start", start |-> "register", register |-> "uart"]
Then == [init |-> "register", register |-> "start", start |-> "uart"]

(* Slip: the handle is a local variable, and the global is left to the     *)
(* handler.                                                                *)
KeepLocal == UNCHANGED client
KeepHandle == client' = Client

(* esp_mqtt_client_init returns NULL when memory runs out; nobody looks.   *)
InitClient == /\ app = "init" /\ app' = Then["init"]
              /\ \/ link' = "made" /\ KeepHandle
                 \/ UNCHANGED <<link, client>>
              /\ UNCHANGED <<registered, handler, uartVars, keptVars, netVars>>

RegisterEvent == /\ app = "register" /\ app' = Then["register"]
                 /\ registered' = (link # "none")
                 /\ UNCHANGED <<client, link, handler, uartVars, keptVars, netVars>>

StartClient == /\ app = "start" /\ app' = Then["start"]
               /\ link' = IF link = "made" THEN "down" ELSE link
               /\ UNCHANGED <<registered, client, handler, uartVars, keptVars, netVars>>

StartUart == /\ app = "uart" /\ app' = "running"
             /\ UNCHANGED <<registered, client, link, handler, uartVars, keptVars, netVars>>

AppMain == InitClient \/ RegisterEvent \/ StartClient \/ StartUart

-----------------------------------------------------------------------------
(* The client's task.  It holds the lock while it connects and while its   *)
(* handler runs.                                                           *)

Locked == link = "connecting" \/ handler # "idle"

(* Every event the handler gets sets the handle.                           *)
Dispatch == client' = IF registered THEN Client ELSE client

(* A lost connection takes with it what is under way in both directions.   *)
Drop == link' = "down" /\ wire' = {} /\ acks' = {} /\ UNCHANGED <<subs, delivered>>

Connect == /\ link = "down" /\ handler = "idle"
           /\ link' = "connecting"
           /\ UNCHANGED <<setupVars, client, handler, uartVars, keptVars, netVars>>

ConnectFails == /\ link = "connecting" /\ Drop
                /\ Dispatch
                /\ UNCHANGED <<setupVars, handler, uartVars, keptVars>>

(* A clean session: the broker has forgotten the subscriptions.            *)
Connected == /\ link = "connecting" /\ link' = "up"
             /\ Dispatch
             /\ handler' = IF registered THEN Reply ELSE "idle"
             /\ subs' = {}
             /\ UNCHANGED <<setupVars, uartVars, keptVars, wire, acks, delivered>>

(* A send puts the packet on the wire, or finds the connection lost; with  *)
(* none, there is nothing to send it on.                                   *)
Send(packet) == IF link = "up"
                THEN \/ wire' = wire \cup {packet} /\ UNCHANGED <<link, acks, subs, delivered>>
                     \/ Drop
                ELSE UNCHANGED <<link, netVars>>

(* Slips: the handler returns after the first call; it goes on to a third. *)
AfterFirstOnly(topic) == "idle"
AfterThird(topic) == IF topic = Reply THEN Set
                     ELSE IF topic = Set THEN "get" ELSE "idle"
After(topic) == IF topic = Reply THEN Set ELSE "idle"

(* MQTT_EVENT_CONNECTED: one call per topic, its result only logged.       *)
Subscribe == /\ handler # "idle"
             /\ Send(handler)
             /\ handler' = After(handler)
             /\ UNCHANGED <<setupVars, client, uartVars, keptVars>>

(* MQTT_EVENT_DISCONNECTED changes nothing but the handle.                 *)
Lose == /\ link = "up" /\ handler = "idle" /\ Drop
        /\ Dispatch
        /\ UNCHANGED <<setupVars, handler, uartVars, keptVars>>

(* What is not acknowledged in time is sent again, received or not.        *)
Resend(p) == /\ link = "up" /\ handler = "idle"
             /\ p \in outbox \ wire
             /\ Send(p)
             /\ UNCHANGED <<setupVars, client, handler, uartVars, keptVars>>

Acknowledged(p) == /\ link = "up" /\ handler = "idle" /\ p \in acks
                   /\ outbox' = outbox \ {p} /\ acks' = acks \ {p}
                   /\ UNCHANGED <<setupVars, client, link, handler, uartVars, dropped,
                                  wire, subs, delivered>>

Expire(p) == /\ p \in outbox /\ ~Locked
             /\ outbox' = outbox \ {p} /\ dropped' = dropped \cup {p}
             /\ UNCHANGED <<setupVars, client, link, handler, uartVars, netVars>>

(* The broker takes a packet from the wire.                                *)
BrokerTakes(packet) ==
  /\ packet \in wire
  /\ wire' = wire \ {packet}
  /\ IF packet \in Topics
     THEN subs' = subs \cup {packet} /\ UNCHANGED <<acks, delivered>>
     ELSE /\ acks' = acks \cup {packet} /\ delivered' = delivered \cup {packet}
          /\ UNCHANGED subs
  /\ UNCHANGED <<setupVars, client, link, handler, uartVars, keptVars>>

-----------------------------------------------------------------------------
(* uart_event_task in its callback, mqtt_publish_data.                     *)

Callback(p) == /\ app = "running" /\ payload = NoPayload
               /\ p \in Payloads \ handed
               /\ handed' = handed \cup {p}
               /\ IF client = NULL
                  THEN refused' = refused \cup {p} /\ UNCHANGED payload
                  ELSE payload' = p /\ UNCHANGED refused
               /\ UNCHANGED <<setupVars, client, link, handler, keptVars, netVars>>

(* Slip: QoS 0, which keeps nothing.                                       *)
KeepNothing(p) == UNCHANGED outbox
Keep(p) == outbox' = outbox \cup {p}

(* esp_mqtt_client_publish waits for the lock, keeps a copy until it is    *)
(* acknowledged, and sends it at once if there is a connection.  Without   *)
(* memory for the copy it returns -1, which is logged as a success.        *)
Publish == /\ payload # NoPayload /\ ~Locked
           /\ \/ Keep(payload) /\ Send(payload) /\ UNCHANGED dropped
              \/ dropped' = dropped \cup {payload} /\ UNCHANGED <<outbox, link, netVars>>
           /\ payload' = NoPayload
           /\ UNCHANGED <<setupVars, client, handler, handed, refused>>

-----------------------------------------------------------------------------
MqttTask == Connect \/ ConnectFails \/ Connected \/ Subscribe

Next == \/ AppMain \/ MqttTask \/ Publish \/ Lose
        \/ \E p \in Payloads : Callback(p) \/ Resend(p) \/ Acknowledged(p) \/ Expire(p)
        \/ \E packet \in wire : BrokerTakes(packet)

Spec == Init /\ [][Next]_vars

-----------------------------------------------------------------------------
(* Properties.                                                             *)

TypeOK == /\ app \in {"init", "register", "start", "uart", "running"}
          /\ client \in {NULL, Client} /\ registered \in BOOLEAN
          /\ link \in {"none", "made", "down", "connecting", "up"}
          /\ handler \in {"idle", Reply, Set}
          /\ payload \in handed \cup {NoPayload}
          /\ outbox \subseteq handed /\ wire \subseteq Payloads \cup Topics
          /\ acks \subseteq delivered /\ subs \subseteq Topics
          /\ handed \subseteq Payloads /\ refused \subseteq handed
          /\ dropped \subseteq handed /\ delivered \subseteq handed

(* No payload handed to mqtt_publish_data is lost on the way: connected or *)
(* not, whatever connections break with it under way, it reaches the       *)
(* broker or the client still keeps it, until it is too old; unless there  *)
(* is no client, or no memory to keep it in.                               *)
NothingLost == handed \ {payload} \subseteq outbox \cup delivered \cup dropped \cup refused

(* The serial line is started after the client: a payload is turned down   *)
(* only if no client could be made at all.                                 *)
RefusedOnlyWithoutClient == refused # {} => link = "none"

(* Every connection has its own subscriptions: once the handler of its     *)
(* CONNECTED event is through, the broker has both, or they are on their   *)
(* way, although the results of the two calls are not looked at.           *)
SubscribedWhileUp ==
  link = "up" /\ handler = "idle" => Topics \subseteq subs \cup wire

(* What a connection that holds leads to: the broker has every payload     *)
(* handed over and kept, those from the time before included, and both     *)
(* subscriptions.                                                          *)
Settled == /\ subs = Topics
           /\ handed \subseteq delivered \cup dropped
=============================================================================
