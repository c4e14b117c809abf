--------------------------- MODULE MqttParameters ---------------------------
(* What MqttGateway tells apart, for it and for what composes it.          *)

CONSTANTS
  Payloads,   \* what the serial line may deliver, each once
  NoPayload,  \* uart_event_task holds none
  NULL,       \* the handle before esp_mqtt_client_init
  Client,     \* the handle it returns
  Reply, Set  \* the two topics subscribed to

Topics == {Reply, Set}

ASSUME PayloadAssumption == /\ NoPayload \notin Payloads
                            /\ Payloads \cap Topics = {}
                            /\ Client # NULL
                            /\ Reply # Set /\ "idle" \notin Topics
=============================================================================
