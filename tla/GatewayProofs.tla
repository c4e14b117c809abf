--------------------------- MODULE GatewayProofs ---------------------------
(***************************************************************************)
(* Proofs about Gateway: every behaviour of the composition is one of the  *)
(* line and one of the client, so what was proved of each of them alone    *)
(* holds of the two together, for every number of frames and every size.   *)
(* And what holds of the two only together: the client is handed the       *)
(* frames of the line.                                                     *)
(***************************************************************************)
EXTENDS Gateway, TLAPS

LineProofs == INSTANCE UartPipelineProofs

-----------------------------------------------------------------------------
(* Line and LineProofs have the same definitions; the provers have to be   *)
(* told.                                                                   *)

LEMMA LineInit == Line!Init => LineProofs!Init
BY DEF Line!Init, LineProofs!Init

LEMMA LinePost == \A t, n, u : Line!Post(t, n, u) => LineProofs!Post(t, n, u)
BY DEF Line!Post, LineProofs!Post, Line!HasSpace, LineProofs!HasSpace

LEMMA LineInterrupt == Line!Interrupt => LineProofs!Interrupt
BY LinePost
   DEF Line!Interrupt, LineProofs!Interrupt, Line!Chunks, LineProofs!Chunks,
       Line!Store, LineProofs!Store, Line!Stash, LineProofs!Stash,
       Line!Overflow, LineProofs!Overflow, Line!HasSpace, LineProofs!HasSpace,
       Line!OneFrame, LineProofs!OneFrame, Line!Interval, LineProofs!Interval,
       Line!taskVars, LineProofs!taskVars

LEMMA LineEvents == /\ Line!TakeEvent => LineProofs!TakeEvent
                    /\ Line!Read => LineProofs!Read
                    /\ Line!Discard => LineProofs!Discard
<1>1. Line!TakeEvent => LineProofs!TakeEvent
  BY DEF Line!TakeEvent, LineProofs!TakeEvent, Line!Wanted, LineProofs!Wanted
<1>2. Line!Read => LineProofs!Read
  BY DEF Line!Read, LineProofs!Read, Line!Fetch, LineProofs!Fetch,
         Line!Lower, LineProofs!Lower
<1>3. Line!Discard => LineProofs!Discard
  BY DEF Line!Discard, LineProofs!Discard, Line!FlushInput, LineProofs!FlushInput,
         Line!QueueReset, LineProofs!QueueReset
<1>4. QED
  BY <1>1, <1>2, <1>3

LEMMA LineParse ==
  \A c : Line!parse_data_to_json(c) = LineProofs!parse_data_to_json(c)
BY DEF Line!parse_data_to_json, LineProofs!parse_data_to_json,
       Line!Unparsed, LineProofs!Unparsed, Line!Runs, LineProofs!Runs,
       Line!FirstRun, LineProofs!FirstRun, Line!Digits, LineProofs!Digits,
       Line!Least, LineProofs!Least, Line!IsColon, LineProofs!IsColon,
       Line!IsDigit, LineProofs!IsDigit

LEMMA LinePayloads == /\ Line!Publish => LineProofs!Publish
                      /\ Line!NothingToPublish => LineProofs!NothingToPublish
                      /\ Line!OutOfMemory => LineProofs!OutOfMemory
BY LineParse
   DEF Line!Publish, LineProofs!Publish, Line!NothingToPublish,
       LineProofs!NothingToPublish, Line!OutOfMemory, LineProofs!OutOfMemory,
       Line!HasPayload, LineProofs!HasPayload, Line!EndParse, LineProofs!EndParse,
       Line!Unparsed, LineProofs!Unparsed, Line!lineVars, LineProofs!lineVars

(* A step of the line is one of LineProofs.                                *)
LEMMA LineStep ==
  ASSUME \/ Line!Interrupt \/ Line!TakeEvent \/ Line!Read \/ Line!Discard
         \/ Line!Publish \/ Line!NothingToPublish \/ Line!OutOfMemory
  PROVE  LineProofs!Next
BY LineInterrupt, LineEvents, LinePayloads DEF LineProofs!Next, LineProofs!EventTask

-----------------------------------------------------------------------------
(* The client alone, for every set of payloads.                            *)

(* What the set-up has done by the step app_main stands at.                *)
Prepared == /\ (client = NULL) <=> (link = "none")
            /\ app = "init" => link = "none"
            /\ link = "made" => app \in {"register", "start"}
            /\ app \in {"register", "start"} => link \in {"none", "made"}
            /\ registered <=> link # "none" /\ app # "register"
            /\ refused # {} => app = "running"

(* Nothing is under way without a connection; only payloads that were      *)
(* handed over are under way on one.                                       *)
UnderWay == /\ link # "up" => wire = {} /\ acks = {}
            /\ wire \subseteq handed \cup Mqtt!Topics
            /\ handler # "idle" => link \in {"up", "down"}

(* What the handler has subscribed to by the call it stands at.            *)
Subscribed == link = "up" => /\ handler = "idle" => Mqtt!Topics \subseteq subs \cup wire
                             /\ handler = Set => Reply \in subs \cup wire

ClientInv == /\ Mqtt!TypeOK
                  /\ Prepared
             /\ UnderWay
             /\ Subscribed
             /\ Mqtt!NothingLost
             /\ Mqtt!RefusedOnlyWithoutClient

-----------------------------------------------------------------------------
(* The assumption on the constants, in the client's terms.                 *)
LEMMA ClientAssumption == /\ NoPayload \notin Payloads
                          /\ Payloads \cap Mqtt!Topics = {}
                          /\ Client # NULL
                          /\ Reply # Set /\ "idle" \notin Mqtt!Topics
BY PayloadAssumption DEF Topics, Mqtt!Topics

USE ClientAssumption

(* At reset nothing is set up, handed over or under way.                   *)
LEMMA ClientInitially == Mqtt!Init => ClientInv
BY DEF Mqtt!Init, ClientInv, Mqtt!TypeOK, Prepared, UnderWay, Subscribed,
       Mqtt!NothingLost, Mqtt!RefusedOnlyWithoutClient

(* The set-up touches neither the payloads nor what is under way; there is *)
(* no connection before it is through with the client.                     *)
LEMMA AppMainKeeps == ClientInv /\ Mqtt!AppMain => ClientInv'
<1> SUFFICES ASSUME ClientInv, Mqtt!AppMain PROVE ClientInv'
  OBVIOUS
<1> USE DEF ClientInv, Mqtt!uartVars, Mqtt!keptVars, Mqtt!netVars, Mqtt!Then
<1>1. CASE Mqtt!InitClient
  BY <1>1 DEF Mqtt!InitClient, Mqtt!KeepHandle, Mqtt!TypeOK, Prepared,
              UnderWay, Subscribed, Mqtt!NothingLost,
              Mqtt!RefusedOnlyWithoutClient
<1>2. CASE Mqtt!RegisterEvent
  BY <1>2 DEF Mqtt!RegisterEvent, Mqtt!TypeOK, Prepared, UnderWay, Subscribed,
              Mqtt!NothingLost, Mqtt!RefusedOnlyWithoutClient
<1>3. CASE Mqtt!StartClient
  BY <1>3 DEF Mqtt!StartClient, Mqtt!TypeOK, Prepared, UnderWay, Subscribed,
              Mqtt!NothingLost, Mqtt!RefusedOnlyWithoutClient
<1>4. CASE Mqtt!StartUart
  BY <1>4 DEF Mqtt!StartUart, Mqtt!TypeOK, Prepared, UnderWay, Subscribed,
              Mqtt!NothingLost, Mqtt!RefusedOnlyWithoutClient
<1>5. QED
  BY <1>1, <1>2, <1>3, <1>4 DEF Mqtt!AppMain

(* A send keeps what is said of packets under way, and loses subscriptions *)
(* only together with the connection.                                      *)
Sent(packet) == /\ link' \in {link, "down"} /\ (link' = "none" <=> link = "none")
                /\ link # "up" => link' = link
                /\ link' # "up" => wire' = {} /\ acks' = {}
                /\ link' = "up" => link = "up" /\ wire' = wire \cup {packet}
                /\ wire' \subseteq handed \cup Mqtt!Topics /\ acks' \subseteq delivered
                /\ UNCHANGED <<subs, delivered>>

LEMMA SendKeeps ==
  ASSUME ClientInv, NEW packet \in handed \cup Mqtt!Topics, Mqtt!Send(packet)
  PROVE  Sent(packet)
BY DEF Mqtt!Send, Sent, Mqtt!Drop, Mqtt!netVars, ClientInv, Mqtt!TypeOK,
       UnderWay

(* The client's task.                                                      *)
LEMMA MqttTaskKeeps == ClientInv /\ (Mqtt!MqttTask \/ Mqtt!Lose) => ClientInv'
<1> SUFFICES ASSUME ClientInv, Mqtt!MqttTask \/ Mqtt!Lose PROVE ClientInv'
  OBVIOUS
<1> USE DEF ClientInv, Mqtt!uartVars, Mqtt!keptVars, Mqtt!netVars, Mqtt!setupVars
<1>1. CASE Mqtt!Connect
  BY <1>1 DEF Mqtt!Connect, Mqtt!TypeOK, Prepared, UnderWay, Subscribed,
              Mqtt!NothingLost, Mqtt!RefusedOnlyWithoutClient
<1>2. CASE Mqtt!ConnectFails
  BY <1>2 DEF Mqtt!ConnectFails, Mqtt!Drop, Mqtt!Dispatch, Mqtt!TypeOK,
              Prepared, UnderWay, Subscribed, Mqtt!NothingLost,
              Mqtt!RefusedOnlyWithoutClient
<1>3. CASE Mqtt!Connected
  <2>1. handler' \in {"idle", Reply} /\ Reply # "idle" /\ Reply # Set
    BY <1>3 DEF Mqtt!Connected, Mqtt!Topics
  <2>2. Mqtt!TypeOK' /\ Prepared' /\ UnderWay'
    BY <1>3, <2>1 DEF Mqtt!Connected, Mqtt!Dispatch, Mqtt!TypeOK, Prepared,
                      UnderWay
  <2>3. Subscribed' /\ Mqtt!NothingLost' /\ Mqtt!RefusedOnlyWithoutClient'
    BY <1>3, <2>1 DEF Mqtt!Connected, Prepared, Subscribed, Mqtt!NothingLost,
                      Mqtt!RefusedOnlyWithoutClient
  <2>4. QED
    BY <2>2, <2>3
<1>4. CASE Mqtt!Subscribe
  <2>1. handler \in {Reply, Set} /\ handler \in Mqtt!Topics
    BY <1>4 DEF Mqtt!Subscribe, Mqtt!TypeOK, Mqtt!Topics
  <2>2. Mqtt!Send(handler) /\ link \in {"up", "down"}
    BY <1>4 DEF Mqtt!Subscribe, UnderWay
  <2>3. Sent(handler)
    BY <2>1, <2>2, SendKeeps
  <2>4. handler' = IF handler = Reply THEN Set ELSE "idle"
    BY <1>4 DEF Mqtt!Subscribe, Mqtt!After
  <2>5. Mqtt!TypeOK' /\ Prepared' /\ UnderWay'
    <3>1. Mqtt!TypeOK'
      BY <1>4, <2>2, <2>3, <2>4 DEF Mqtt!Subscribe, Sent, Mqtt!TypeOK
    <3>2. Prepared'
      BY <1>4, <2>2, <2>3 DEF Mqtt!Subscribe, Sent, Prepared
    <3>3. UnderWay'
      BY <1>4, <2>2, <2>3, <2>4 DEF Mqtt!Subscribe, Sent, UnderWay
    <3>4. QED
      BY <3>1, <3>2, <3>3
  <2>6. Subscribed'
    BY <2>1, <2>3, <2>4 DEF Subscribed, Sent, Mqtt!Topics
  <2>7. Mqtt!NothingLost' /\ Mqtt!RefusedOnlyWithoutClient'
    BY <1>4, <2>3 DEF Mqtt!Subscribe, Sent, Mqtt!NothingLost,
                      Mqtt!RefusedOnlyWithoutClient
  <2>8. QED
    BY <2>5, <2>6, <2>7
<1>5. CASE Mqtt!Lose
  BY <1>5 DEF Mqtt!Lose, Mqtt!Drop, Mqtt!Dispatch, Mqtt!TypeOK, Prepared,
              UnderWay, Subscribed, Mqtt!NothingLost,
              Mqtt!RefusedOnlyWithoutClient
<1>6. QED
  BY <1>1, <1>2, <1>3, <1>4, <1>5 DEF Mqtt!MqttTask

(* The outbox: sent again, acknowledged, too old.                          *)
LEMMA OutboxKeeps ==
  ASSUME ClientInv, NEW p \in Payloads, Mqtt!Resend(p) \/ Mqtt!Acknowledged(p) \/ Mqtt!Expire(p)
  PROVE  ClientInv'
<1> USE DEF ClientInv, Mqtt!uartVars, Mqtt!keptVars, Mqtt!netVars, Mqtt!setupVars
<1>1. CASE Mqtt!Resend(p)
  <2>1. p \in handed \cup Mqtt!Topics /\ Mqtt!Send(p)
    BY <1>1 DEF Mqtt!Resend, Sent, Mqtt!TypeOK
  <2>2. Sent(p)
    BY <2>1, SendKeeps
  <2>3. link = "up" /\ handler' = "idle" /\ handler = "idle"
    BY <1>1 DEF Mqtt!Resend
  <2>4. Mqtt!TypeOK'
    BY <1>1, <2>2, <2>3 DEF Mqtt!Resend, Sent, Mqtt!TypeOK
  <2>5. Prepared'
    BY <1>1, <2>2, <2>3 DEF Mqtt!Resend, Sent, Prepared
  <2>6. UnderWay' /\ Subscribed' /\ Mqtt!NothingLost' /\ Mqtt!RefusedOnlyWithoutClient'
    BY <1>1, <2>2, <2>3 DEF Mqtt!Resend, Sent, UnderWay, Subscribed,
                            Mqtt!NothingLost, Mqtt!RefusedOnlyWithoutClient
  <2>7. QED
    BY <2>4, <2>5, <2>6
<1>2. CASE Mqtt!Acknowledged(p)
  BY <1>2 DEF Mqtt!Acknowledged, Mqtt!TypeOK, Prepared, UnderWay, Subscribed,
              Mqtt!NothingLost, Mqtt!RefusedOnlyWithoutClient
<1>3. CASE Mqtt!Expire(p)
  BY <1>3 DEF Mqtt!Expire, Mqtt!TypeOK, Prepared, UnderWay, Subscribed,
              Mqtt!NothingLost, Mqtt!RefusedOnlyWithoutClient
<1>4. QED
  BY <1>1, <1>2, <1>3

(* The broker: a packet leaves the wire for the subscriptions or for the   *)
(* payloads delivered.                                                     *)
LEMMA BrokerKeeps ==
  ASSUME ClientInv, NEW packet \in wire, Mqtt!BrokerTakes(packet)
  PROVE  ClientInv'
<1> USE DEF ClientInv, Mqtt!BrokerTakes, Mqtt!uartVars, Mqtt!keptVars, Mqtt!setupVars
<1>1. CASE packet \in Mqtt!Topics
  BY <1>1 DEF Mqtt!TypeOK, Prepared, UnderWay, Subscribed, Mqtt!NothingLost,
              Mqtt!RefusedOnlyWithoutClient
<1>2. CASE packet \notin Mqtt!Topics
  <2>1. packet \in handed /\ link = "up"
    BY <1>2 DEF UnderWay
  <2>2. Mqtt!TypeOK'
    BY <1>2, <2>1 DEF Mqtt!TypeOK
  <2>3. Prepared' /\ UnderWay'
    BY <1>2, <2>1 DEF Prepared, UnderWay
  <2>4. Subscribed'
    BY <1>2 DEF Subscribed, Mqtt!Topics
  <2>5. Mqtt!NothingLost' /\ Mqtt!RefusedOnlyWithoutClient'
    BY <1>2 DEF Mqtt!NothingLost, Mqtt!RefusedOnlyWithoutClient
  <2>6. QED
    BY <2>2, <2>3, <2>4, <2>5
<1>3. QED
  BY <1>1, <1>2

(* uart_event_task.                                                        *)
LEMMA CallbackKeeps ==
  ASSUME ClientInv, Mqtt!Publish \/ (\E p \in Payloads : Mqtt!Callback(p))
  PROVE  ClientInv'
<1> USE DEF ClientInv, Mqtt!keptVars, Mqtt!netVars, Mqtt!setupVars
<1>1. CASE \E p \in Payloads : Mqtt!Callback(p)
  BY <1>1 DEF Mqtt!Callback, Mqtt!TypeOK, Prepared, UnderWay, Subscribed,
              Mqtt!NothingLost, Mqtt!RefusedOnlyWithoutClient
<1>2. CASE Mqtt!Publish
  <2>1. payload \in handed /\ handler = "idle" /\ handler' = "idle" /\ payload' = NoPayload
    BY <1>2 DEF Mqtt!Publish, Mqtt!Locked, Mqtt!TypeOK
  <2>2. CASE Mqtt!Keep(payload) /\ Mqtt!Send(payload) /\ UNCHANGED dropped
    <3>1. Sent(payload)
      BY <2>1, <2>2, SendKeeps
    <3>2. outbox' = outbox \cup {payload}
      BY <2>2 DEF Mqtt!Keep
    <3>3. Mqtt!TypeOK'
      BY <1>2, <2>1, <2>2, <3>1, <3>2 DEF Mqtt!Publish, Sent, Mqtt!TypeOK
    <3>4. Prepared'
      BY <1>2, <3>1 DEF Mqtt!Publish, Sent, Prepared
    <3>5. UnderWay'
      BY <1>2, <2>1, <3>1, <3>2 DEF Mqtt!Publish, Sent, UnderWay
    <3>6. Subscribed' /\ Mqtt!NothingLost' /\ Mqtt!RefusedOnlyWithoutClient'
      BY <1>2, <2>1, <2>2, <3>1, <3>2 DEF Mqtt!Publish, Sent, Subscribed,
         Mqtt!NothingLost, Mqtt!RefusedOnlyWithoutClient
    <3>7. QED
      BY <3>3, <3>4, <3>5, <3>6
  <2>3. CASE dropped' = dropped \cup {payload} /\ UNCHANGED <<outbox, link, Mqtt!netVars>>
    <3>1. Mqtt!TypeOK' /\ Prepared' /\ UnderWay'
      BY <1>2, <2>1, <2>3 DEF Mqtt!Publish, Mqtt!TypeOK, Prepared, UnderWay
    <3>2. Subscribed' /\ Mqtt!NothingLost' /\ Mqtt!RefusedOnlyWithoutClient'
      BY <1>2, <2>1, <2>3 DEF Mqtt!Publish, Subscribed, Mqtt!NothingLost,
                              Mqtt!RefusedOnlyWithoutClient
    <3>3. QED
      BY <3>1, <3>2
  <2>4. QED
    BY <1>2, <2>2, <2>3 DEF Mqtt!Publish
<1>3. QED
  BY <1>1, <1>2

-----------------------------------------------------------------------------
(* The inductive invariant holds for every set of payloads.                *)
THEOREM ClientInvariance == Mqtt!Spec => []ClientInv
<1>1. ClientInv /\ [Mqtt!Next]_Mqtt!vars => ClientInv'
  <2> SUFFICES ASSUME ClientInv, [Mqtt!Next]_Mqtt!vars PROVE ClientInv'
    OBVIOUS
  <2>1. CASE Mqtt!AppMain
    BY <2>1, AppMainKeeps
  <2>2. CASE Mqtt!MqttTask \/ Mqtt!Lose
    BY <2>2, MqttTaskKeeps
  <2>3. CASE Mqtt!Publish \/ \E p \in Payloads : Mqtt!Callback(p)
    BY <2>3, CallbackKeeps
  <2>4. CASE \E p \in Payloads : Mqtt!Resend(p) \/ Mqtt!Acknowledged(p) \/ Mqtt!Expire(p)
    BY <2>4, OutboxKeeps
  <2>5. CASE \E packet \in wire : Mqtt!BrokerTakes(packet)
    BY <2>5, BrokerKeeps
  <2>6. CASE UNCHANGED Mqtt!vars
    BY <2>6 DEF Mqtt!vars, Mqtt!setupVars, Mqtt!uartVars, Mqtt!keptVars,
                Mqtt!netVars, ClientInv, Mqtt!TypeOK, Prepared, UnderWay,
                Subscribed, Mqtt!NothingLost, Mqtt!RefusedOnlyWithoutClient
  <2>7. QED
    BY <2>1, <2>2, <2>3, <2>4, <2>5, <2>6 DEF Mqtt!Next
<1>2. QED
  BY ClientInitially, <1>1, PTL DEF Mqtt!Spec

(* Every variable stays in its range; what is kept, refused, dropped or    *)
(* delivered was handed over.                                              *)
THEOREM ClientTypes == Mqtt!Spec => []Mqtt!TypeOK
<1>1. ClientInv => Mqtt!TypeOK
  BY DEF ClientInv
<1>2. QED
  BY ClientInvariance, <1>1, PTL

(* No payload handed to mqtt_publish_data is lost on the way, see          *)
(* NothingLost.                                                            *)
THEOREM ClientKeeps == Mqtt!Spec => []Mqtt!NothingLost
<1>1. ClientInv => Mqtt!NothingLost
  BY DEF ClientInv
<1>2. QED
  BY ClientInvariance, <1>1, PTL

(* A payload is turned down only if there is no client at all: app_main    *)
(* starts the serial line after the client.                                *)
THEOREM ClientBeforeLine == Mqtt!Spec => []Mqtt!RefusedOnlyWithoutClient
<1>1. ClientInv => Mqtt!RefusedOnlyWithoutClient
  BY DEF ClientInv
<1>2. QED
  BY ClientInvariance, <1>1, PTL

(* Every connection gets both subscriptions, whatever calls fail.          *)
THEOREM ClientSubscribes == Mqtt!Spec => []Mqtt!SubscribedWhileUp
<1>1. ClientInv => Mqtt!SubscribedWhileUp
  BY DEF ClientInv, Subscribed, Mqtt!SubscribedWhileUp
<1>2. QED
  BY ClientInvariance, <1>1, PTL

HIDE ClientAssumption

-----------------------------------------------------------------------------
(* The composition.                                                        *)

(* A step of the client's side is one of its own Next.                     *)
LEMMA ClientStep ==
  ASSUME \/ Mqtt!AppMain \/ Mqtt!MqttTask \/ Mqtt!Publish \/ Mqtt!Lose
         \/ \E p \in Payloads : \/ Mqtt!Callback(p) \/ Mqtt!Resend(p)
                                \/ Mqtt!Acknowledged(p) \/ Mqtt!Expire(p)
         \/ \E packet \in wire : Mqtt!BrokerTakes(packet)
  PROVE  Mqtt!Next
BY DEF Mqtt!Next

LEMMA Idle == /\ UNCHANGED lineSide => UNCHANGED LineProofs!vars
              /\ UNCHANGED mqttSide => UNCHANGED Mqtt!vars
BY DEF lineSide, mqttSide, LineProofs!vars, LineProofs!lineVars, LineProofs!taskVars,
       Mqtt!vars, Mqtt!setupVars, Mqtt!uartVars, Mqtt!keptVars,
       Mqtt!netVars

(* Every step is a step of the line or leaves it alone, and a step of the  *)
(* client or leaves that alone.                                            *)
LEMMA JointStep ==
  ASSUME [Next]_vars
  PROVE  [LineProofs!Next]_LineProofs!vars /\ [Mqtt!Next]_Mqtt!vars
<1>1. CASE UartTask
  <2>1. CASE LineOnly(Line!TakeEvent \/ Line!Read \/ Line!Discard)
    BY <2>1, LineStep, Idle DEF LineOnly
  <2>2. CASE Call
    <3>1. \E p \in Payloads : Mqtt!Callback(p)
      BY <2>2 DEF Call, Mqtt!Callback
    <3>2. Line!Publish \/ UNCHANGED lineSide
      BY <2>2 DEF Call
    <3>3. QED
      BY <3>1, <3>2, LineStep, ClientStep, Idle
  <2>3. CASE NoCall
    BY <2>3, LineStep, Idle DEF NoCall, LineOnly
  <2>4. QED
    BY <1>1, <2>1, <2>2, <2>3 DEF UartTask
<1>2. CASE Return
  BY <1>2, LineStep, ClientStep DEF Return
<1>3. CASE Driver
  BY <1>3, LineStep, Idle DEF Driver, LineOnly
<1>4. CASE AppMain \/ MqttTask \/ Nuisance
  BY <1>4, ClientStep, Idle DEF AppMain, MqttTask, Nuisance, MqttOnly
<1>5. CASE \E p \in Payloads : Resend(p) \/ Acknowledged(p)
  BY <1>5, ClientStep, Idle DEF Resend, Acknowledged, MqttOnly
<1>6. CASE \E packet \in wire : BrokerTakes(packet)
  BY <1>6, ClientStep, Idle DEF BrokerTakes, MqttOnly
<1>7. CASE UNCHANGED vars
  BY <1>7, Idle DEF vars
<1>8. QED
  BY <1>1, <1>2, <1>3, <1>4, <1>5, <1>6, <1>7 DEF Next

(* The gateway implements both its parts.                                  *)
THEOREM Composition == Spec => LineProofs!Spec /\ Mqtt!Spec
<1>1. Init => LineProofs!Init /\ Mqtt!Init
  BY LineInit DEF Init
<1>2. [Next]_vars => [LineProofs!Next]_LineProofs!vars /\ [Mqtt!Next]_Mqtt!vars
  BY JointStep
<1>3. QED
  BY <1>1, <1>2, PTL DEF Spec, LineProofs!Spec, Mqtt!Spec

(* However long the client holds up the callback, and whatever the driver  *)
(* drops meanwhile, the task never waits inside uart_read_bytes.           *)
THEOREM GatewayNeverBlocks == Spec => []ReadNeverBlocks
<1>1. LineProofs!ReadNeverBlocks => ReadNeverBlocks
  BY DEF ReadNeverBlocks, Line!ReadNeverBlocks, LineProofs!ReadNeverBlocks
<1>2. LineProofs!Spec => []LineProofs!ReadNeverBlocks
  BY LineProofs!NeverBlocked, SizesAssumption
<1>3. QED
  BY <1>1, <1>2, Composition, PTL

(* Bytes stay behind only for the causes NoSilentDrift names.              *)
THEOREM GatewayDrift == Spec => []NoSilentDrift
<1>1. LineProofs!NoSilentDrift => NoSilentDrift
  BY DEF NoSilentDrift, Line!NoSilentDrift, LineProofs!NoSilentDrift
<1>2. LineProofs!Spec => []LineProofs!NoSilentDrift
  BY LineProofs!DriftHasCause, SizesAssumption
<1>3. QED
  BY <1>1, <1>2, Composition, PTL

(* What the line handed over is kept or delivered.                         *)
THEOREM GatewayKeeps == Spec => []NothingLost
<1>1. Mqtt!NothingLost => NothingLost
  BY DEF NothingLost
<1>2. QED
  BY <1>1, ClientKeeps, Composition, PTL

(* Every session gets its subscriptions.                                   *)
THEOREM GatewaySubscribes == Spec => []SubscribedWhileUp
<1>1. Mqtt!SubscribedWhileUp => SubscribedWhileUp
  BY DEF SubscribedWhileUp
<1>2. QED
  BY <1>1, ClientSubscribes, Composition, PTL

(* Both sides stay in their ranges.                                        *)
THEOREM TypeCorrect == Spec => []TypeOK
<1>1. LineProofs!TypeOK => Line!TypeOK
  BY DEF Line!TypeOK, LineProofs!TypeOK, Line!Positions, LineProofs!Positions,
         Line!Event, LineProofs!Event, Line!EventTypes, LineProofs!EventTypes
<1>2. LineProofs!Spec => []LineProofs!TypeOK
  BY LineProofs!TypeCorrect, SizesAssumption
<1>3. QED
  BY <1>1, <1>2, ClientTypes, Composition, PTL DEF TypeOK

-----------------------------------------------------------------------------
(* What was handed to the client is what was published, and the payload in *)
(* the callback, if there is one; the line stands still at it.             *)

InCallback == payload # NoPayload => task = "parse" /\ payload = Len(published) + 1
HandedOver == handed = 1..Len(published) \cup ({payload} \ {NoPayload})

LEMMA PublishedLength ==
  ASSUME TypeOK
  PROVE  /\ Len(published) \in Nat
         /\ Len(Append(published, Line!parse_data_to_json(dtmp))) = Len(published) + 1
BY DEF TypeOK, Line!TypeOK

LEMMA UartTaskHands ==
  ASSUME TypeOK, InCallback, HandedOver, UartTask
  PROVE  InCallback' /\ HandedOver'
<1>1. CASE LineOnly(Line!TakeEvent \/ Line!Read \/ Line!Discard)
  BY <1>1 DEF LineOnly, mqttSide, Line!TakeEvent, Line!Read, Line!Discard,
              InCallback, HandedOver
<1>2. CASE Call /\ client = NULL
  <2>1. /\ payload = NoPayload /\ payload' = NoPayload
        /\ handed' = handed \cup {Len(published) + 1}
    BY <1>2 DEF Call, Mqtt!Callback
  <2>2. published' = Append(published, Line!parse_data_to_json(dtmp))
    BY <1>2 DEF Call, Line!Publish
  <2>3. Len(published) \in Nat /\ Len(published') = Len(published) + 1
    BY <2>2, PublishedLength
  <2>4. 1..Len(published') = 1..Len(published) \cup {Len(published) + 1}
    BY <2>3
  <2>5. QED
    BY <2>1, <2>4 DEF InCallback, HandedOver
<1>3. CASE Call /\ client # NULL
  <2>1. /\ payload = NoPayload /\ payload' = Len(published) + 1
        /\ handed' = handed \cup {Len(published) + 1}
        /\ Len(published) + 1 \in Payloads /\ task = "parse"
        /\ UNCHANGED <<published, task>>
    BY <1>3 DEF Call, Mqtt!Callback, lineSide
  <2>2. Len(published) + 1 # NoPayload
    BY <2>1, PayloadAssumption
  <2>3. QED
    BY <2>1, <2>2 DEF InCallback, HandedOver
<1>4. CASE NoCall
  BY <1>4 DEF NoCall, LineOnly, mqttSide, Line!NothingToPublish, Line!OutOfMemory,
              InCallback, HandedOver
<1>5. QED
  BY <1>1, <1>2, <1>3, <1>4 DEF UartTask

LEMMA ReturnHands ==
  ASSUME TypeOK, InCallback, HandedOver, Return
  PROVE  InCallback' /\ HandedOver'
<1>1. payload # NoPayload /\ payload' = NoPayload /\ handed' = handed
  BY DEF Return, Mqtt!Publish
<1>2. published' = Append(published, Line!parse_data_to_json(dtmp))
  BY DEF Return, Line!Publish
<1>3. Len(published) \in Nat /\ Len(published') = Len(published) + 1
  BY <1>2, PublishedLength
<1>4. 1..Len(published') = 1..Len(published) \cup {Len(published) + 1}
  BY <1>3
<1>5. payload = Len(published) + 1
  BY <1>1 DEF InCallback
<1>6. QED
  BY <1>1, <1>4, <1>5 DEF InCallback, HandedOver

(* Neither the interrupt nor the client touches what is between the two.   *)
LEMMA OthersLeave ==
  ASSUME \/ Driver \/ AppMain \/ MqttTask \/ Nuisance
         \/ \E p \in Payloads : Resend(p) \/ Acknowledged(p)
         \/ \E packet \in wire : BrokerTakes(packet)
  PROVE  UNCHANGED <<task, published, payload, handed>>
<1>1. CASE Driver
  BY <1>1 DEF Driver, LineOnly, mqttSide, Line!Interrupt, Line!Store, Line!Stash,
              Line!Overflow, Line!taskVars
<1>2. CASE AppMain
  BY <1>2 DEF AppMain, MqttOnly, lineSide, Mqtt!AppMain, Mqtt!InitClient,
              Mqtt!RegisterEvent, Mqtt!StartClient, Mqtt!StartUart, Mqtt!uartVars
<1>3. CASE MqttTask
  BY <1>3 DEF MqttTask, MqttOnly, lineSide, Mqtt!MqttTask, Mqtt!Connect,
              Mqtt!ConnectFails, Mqtt!Connected, Mqtt!Subscribe, Mqtt!uartVars
<1>4. CASE Nuisance
  BY <1>4 DEF Nuisance, MqttOnly, lineSide, Mqtt!Lose, Mqtt!Expire, Mqtt!uartVars
<1>5. CASE \E p \in Payloads : Resend(p) \/ Acknowledged(p)
  BY <1>5 DEF Resend, Acknowledged, MqttOnly, lineSide, Mqtt!Resend,
              Mqtt!Acknowledged, Mqtt!uartVars
<1>6. CASE \E packet \in wire : BrokerTakes(packet)
  BY <1>6 DEF BrokerTakes, MqttOnly, lineSide, Mqtt!BrokerTakes, Mqtt!uartVars
<1>7. QED
  BY <1>1, <1>2, <1>3, <1>4, <1>5, <1>6

(* One payload at a time is in the callback, and it is the next one.       *)
THEOREM CallbacksAccounted == Spec => [](InCallback /\ HandedOver)
<1>1. Init => InCallback /\ HandedOver
  BY DEF Init, Line!Init, Mqtt!Init, InCallback, HandedOver
<1>2. TypeOK /\ (InCallback /\ HandedOver) /\ [Next]_vars => (InCallback /\ HandedOver)'
  <2>1. SUFFICES ASSUME TypeOK, InCallback, HandedOver, [Next]_vars
                 PROVE  InCallback' /\ HandedOver'
    OBVIOUS
  <2>2. CASE UartTask
    BY <2>1, <2>2, UartTaskHands
  <2>3. CASE Return
    BY <2>1, <2>3, ReturnHands
  <2>4. CASE UNCHANGED <<task, published, payload, handed>>
    BY <2>1, <2>4 DEF InCallback, HandedOver
  <2>5. CASE UNCHANGED vars
    BY <2>4, <2>5 DEF vars, lineSide, mqttSide
  <2>6. QED
    BY <2>1, <2>2, <2>3, <2>4, <2>5, OthersLeave DEF Next
<1>3. QED
  BY <1>1, <1>2, TypeCorrect, PTL DEF Spec

(* From the line to the broker, for every number of frames and every size: *)
(* without a loss on the line the n-th payload is the n-th frame, and what *)
(* was published the client or the broker has, or it was turned down, or   *)
(* dropped by the client for its age or for want of memory.                *)
THEOREM FramesThrough == Spec => []FramesArrive
<1>1. LineProofs!Spec => [](intact => LineProofs!InOrder)
  BY LineProofs!FramesInOrder, SizesAssumption
<1>2. ASSUME TypeOK, NothingLost, InCallback /\ HandedOver, intact => LineProofs!InOrder
      PROVE  FramesArrive
  <2>1. Len(published) \in Nat
    BY <1>2, PublishedLength
  <2>2. handed \subseteq 1..(Len(published) + 1)
    BY <1>2, <2>1 DEF InCallback, HandedOver
  <2>3. ASSUME NEW n \in 1..Len(published)
        PROVE  n \in outbox \cup delivered \cup dropped \cup refused
    <3>1. n \in handed /\ n # Len(published) + 1
      BY <1>2, <2>1 DEF HandedOver
    <3>2. n # NoPayload
      BY <1>2, <3>1, PayloadAssumption DEF TypeOK, Mqtt!TypeOK
    <3>3. n # payload
      BY <1>2, <3>1, <3>2 DEF InCallback
    <3>4. QED
      BY <1>2, <3>1, <3>3 DEF NothingLost, Mqtt!NothingLost
  <2>4. ASSUME intact, NEW n \in 1..Len(published) PROVE published[n] = FramePayload(n)
    BY <1>2, <2>4 DEF LineProofs!InOrder, LineProofs!FramePayload, FramePayload
  <2>5. QED
    BY <1>2, <2>2, <2>3, <2>4 DEF FramesArrive, InCallback
<1>3. QED
  BY <1>1, <1>2, TypeCorrect, GatewayKeeps, CallbacksAccounted, Composition, PTL
=============================================================================
