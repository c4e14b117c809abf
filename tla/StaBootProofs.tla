--------------------------- MODULE StaBootProofs ---------------------------
(***************************************************************************)
(* Proofs about StaBoot for every number of retries: its invariants, and   *)
(* that it implements BootPromise.                                         *)
(***************************************************************************)
EXTENDS StaBoot, TLAPS

-----------------------------------------------------------------------------
(* What the event queue's operations do to the triggers in it.             *)

(* Posting an event adds it to the triggers of the queue if it is one.     *)
LEMMA AppendTrigger ==
  ASSUME NEW q \in Seq(Events), NEW e \in Events
  PROVE  /\ Append(q, e) \in Seq(Events)
         /\ HasTrigger(Append(q, e)) <=> HasTrigger(q) \/ e \in Triggers
         /\ AtMostOneTrigger(q) /\ ~(HasTrigger(q) /\ e \in Triggers)
              => AtMostOneTrigger(Append(q, e))
<1>1. /\ Append(q, e) \in Seq(Events)
      /\ Len(q) \in Nat
      /\ Len(Append(q, e)) = Len(q) + 1
      /\ \A i \in 1..Len(q) : Append(q, e)[i] = q[i]
      /\ Append(q, e)[Len(q) + 1] = e
  OBVIOUS
<1>2. HasTrigger(Append(q, e)) <=> HasTrigger(q) \/ e \in Triggers
  <2>1. ASSUME HasTrigger(q) PROVE HasTrigger(Append(q, e))
    BY <1>1, <2>1 DEF HasTrigger
  <2>2. ASSUME e \in Triggers PROVE HasTrigger(Append(q, e))
    BY <1>1, <2>2 DEF HasTrigger
  <2>3. ASSUME HasTrigger(Append(q, e)), e \notin Triggers PROVE HasTrigger(q)
    BY <1>1, <2>3 DEF HasTrigger
  <2>4. QED
    BY <2>1, <2>2, <2>3
<1>3. ASSUME AtMostOneTrigger(q), ~(HasTrigger(q) /\ e \in Triggers)
      PROVE  AtMostOneTrigger(Append(q, e))
  BY <1>1, <1>3 DEF HasTrigger, AtMostOneTrigger
<1>4. QED
  BY <1>1, <1>2, <1>3

(* Taking an event out removes it from the triggers, and nothing else.     *)
LEMMA TailTrigger ==
  ASSUME NEW q \in Seq(Events), q # <<>>, AtMostOneTrigger(q)
  PROVE  /\ Tail(q) \in Seq(Events)
         /\ Head(q) \in Events
         /\ AtMostOneTrigger(Tail(q))
         /\ Head(q) \in Triggers => ~HasTrigger(Tail(q))
         /\ Head(q) \notin Triggers => (HasTrigger(Tail(q)) <=> HasTrigger(q))
<1>1. /\ Tail(q) \in Seq(Events)
      /\ Head(q) \in Events
      /\ Len(q) \in Nat \ {0}
      /\ Head(q) = q[1]
      /\ Len(Tail(q)) = Len(q) - 1
      /\ \A i \in 1..Len(Tail(q)) : Tail(q)[i] = q[i + 1]
  OBVIOUS
<1>2. AtMostOneTrigger(Tail(q))
  BY <1>1 DEF AtMostOneTrigger
<1>3. ASSUME Head(q) \in Triggers PROVE ~HasTrigger(Tail(q))
  BY <1>1, <1>3 DEF HasTrigger, AtMostOneTrigger
<1>4. ASSUME Head(q) \notin Triggers PROVE HasTrigger(Tail(q)) <=> HasTrigger(q)
  <2>1. ASSUME HasTrigger(Tail(q)) PROVE HasTrigger(q)
    BY <1>1, <2>1 DEF HasTrigger
  <2>2. ASSUME HasTrigger(q) PROVE HasTrigger(Tail(q))
    <3>1. PICK i \in 1..Len(q) : q[i] \in Triggers
      BY <2>2 DEF HasTrigger
    <3>2. i # 1
      BY <3>1, <1>1, <1>4
    <3>3. i - 1 \in 1..Len(Tail(q)) /\ Tail(q)[i - 1] = q[i]
      BY <3>1, <3>2, <1>1
    <3>4. QED
      BY <3>1, <3>3 DEF HasTrigger
  <2>3. QED
    BY <2>1, <2>2
<1>5. QED
  BY <1>1, <1>2, <1>3, <1>4

-----------------------------------------------------------------------------
(* The inductive invariant.  Its parts say, in the order of the code: what *)
(* app_main has done by the step it stands at; what the bits it got are    *)
(* worth; that the retry chain is single, alive, and dead for good after   *)
(* WIFI_FAIL_BIT until the SoftAP is started; what s_retry_num counts.     *)

BeforeStart == app \in {"init", "group", "register", "start"}
BeforeDecision == BeforeStart \/ app \in {"wait", "blocked"}

Prepared == /\ group = NoGroup <=> app \in {"init", "group"}
            /\ app \notin {"init", "group", "register"}
                 => "WIFI_EVENT" \in handlers /\ "IP_EVENT" \in handlers
            /\ BeforeStart <=> sta = "down"
            /\ BeforeStart <=> mode = "null"
            /\ BeforeStart => evq = <<>> /\ netif = "down" /\ group \cap Bits = {}

BitsEvidence == /\ BeforeDecision <=> bits = {}
                /\ bits # {} => bits \subseteq group
                /\ app = "softap" => WIFI_CONNECTED_BIT \notin bits
                /\ mode = "apsta" => WIFI_CONNECTED_BIT \notin bits
                /\ mode = "apsta" => ~BeforeDecision /\ app \notin {"decide", "softap"}
                /\ ~BeforeDecision /\ app \notin {"decide", "softap"} /\ mode = "sta"
                     => WIFI_CONNECTED_BIT \in bits
                /\ routes # {} => mode = "apsta"

DeadUntilSoftAp == WIFI_FAIL_BIT \in group /\ mode # "apsta"
                     => sta = "idle" /\ ~HasTrigger(evq)

RetriesCountLosses == s_retry_num = IF streak < EXAMPLE_ESP_MAXIMUM_RETRY
                                    THEN streak ELSE EXAMPLE_ESP_MAXIMUM_RETRY

IInv == /\ TypeOK
        /\ Prepared
        /\ BitsEvidence
        /\ OneChain
        /\ NoSilentIdle
        /\ DeadUntilSoftAp
        /\ RetriesCountLosses

-----------------------------------------------------------------------------
(* The invariant is inductive: one lemma per task.                         *)

USE RetryAssumption

LEMMA InitIInv == Init => IInv
<1> SUFFICES ASSUME Init PROVE IInv
  OBVIOUS
<1>1. TypeOK
  <2>1. evq \in Seq(Events)
    BY DEF Init
  <2>2. s_retry_num \in 0..EXAMPLE_ESP_MAXIMUM_RETRY /\ streak \in Nat
    BY DEF Init
  <2>3. QED
    BY <2>1, <2>2 DEF Init, TypeOK, AppSteps, Bits, NoGroup
<1>2. ~HasTrigger(evq) /\ AtMostOneTrigger(evq)
  BY DEF Init, HasTrigger, AtMostOneTrigger
<1>3. Prepared /\ BitsEvidence
  BY DEF Init, Prepared, BitsEvidence, BeforeStart, BeforeDecision, Bits,
         NoGroup, WIFI_CONNECTED_BIT, WIFI_FAIL_BIT
<1>4. OneChain /\ NoSilentIdle /\ DeadUntilSoftAp
  BY <1>2 DEF Init, OneChain, NoSilentIdle, DeadUntilSoftAp, NoGroup, WIFI_FAIL_BIT
<1>5. RetriesCountLosses
  BY DEF Init, RetriesCountLosses
<1>6. QED
  BY <1>1, <1>3, <1>4, <1>5 DEF IInv

(* app_main: a step disturbs what it has done so far, and only the steps   *)
(* that start the driver reach the retry chain.                            *)
LEMMA AppMainStep == IInv /\ AppMain => IInv'
<1> SUFFICES ASSUME IInv, AppMain PROVE IInv'
  OBVIOUS
<1> USE DEF IInv, AppStep, station, services
<1>a. ASSUME UNCHANGED <<evq, sta, group, mode>>
      PROVE  (OneChain /\ NoSilentIdle /\ DeadUntilSoftAp)'
  BY <1>a DEF OneChain, NoSilentIdle, DeadUntilSoftAp
<1>b. RetriesCountLosses'
  BY DEF AppMain, WifiInit, CreateGroup, RegisterHandlers, StartStation,
         WaitBits, Decide, StartSoftAp, StartTask, StartWebserver,
         RetriesCountLosses
<1>1. CASE WifiInit
  BY <1>1, <1>a, <1>b DEF WifiInit, TypeOK, AppSteps, Prepared, BitsEvidence,
                     BeforeStart, BeforeDecision
<1>2. CASE CreateGroup
  <2>1. OneChain' /\ NoSilentIdle' /\ DeadUntilSoftAp'
    BY <1>2 DEF CreateGroup, OneChain, NoSilentIdle, DeadUntilSoftAp, Prepared,
                BeforeStart
  <2>2. QED
    BY <1>2, <2>1, <1>b DEF CreateGroup, TypeOK, AppSteps, Prepared, BitsEvidence,
                       BeforeStart, BeforeDecision, NoGroup, Bits
<1>3. CASE RegisterHandlers
  BY <1>3, <1>a, <1>b DEF RegisterHandlers, Handled, TypeOK, AppSteps, Prepared,
                     BitsEvidence, BeforeStart, BeforeDecision
<1>4. CASE StartStation
  <2>1. evq = <<>> /\ ~HasTrigger(evq) /\ AtMostOneTrigger(evq)
    BY <1>4 DEF StartStation, Prepared, BeforeStart, HasTrigger, AtMostOneTrigger
  <2>2. evq' \in Seq(Events) /\ HasTrigger(evq') /\ AtMostOneTrigger(evq')
    BY <1>4, <2>1, AppendTrigger DEF StartStation, Post, Events, Triggers, TypeOK
  <2>3. WIFI_FAIL_BIT \notin group
    BY <1>4 DEF StartStation, Prepared, BeforeStart, Bits
  <2>4. OneChain' /\ NoSilentIdle' /\ DeadUntilSoftAp'
    BY <1>4, <2>2, <2>3 DEF StartStation, Started, OneChain, NoSilentIdle,
                               DeadUntilSoftAp
  <2>5. TypeOK' /\ Prepared' /\ BitsEvidence'
    BY <1>4, <2>2 DEF StartStation, Started, TypeOK, AppSteps, Prepared, BitsEvidence,
                      BeforeStart, BeforeDecision
  <2>6. QED
    BY <2>4, <2>5, <1>b
<1>5. CASE WaitBits
  <2>1. group \in SUBSET Bits
    BY <1>5 DEF WaitBits, Prepared, TypeOK
  <2>2. TypeOK' /\ Prepared'
    BY <1>5, <2>1 DEF WaitBits, TypeOK, AppSteps, Prepared, BeforeStart
  <2>3. BitsEvidence'
    BY <1>5, <2>1 DEF WaitBits, BitsEvidence, BeforeStart, BeforeDecision
  <2>4. QED
    BY <1>5, <2>2, <2>3, <1>a, <1>b DEF WaitBits
<1>6. CASE Decide
  <2>1. WIFI_CONNECTED_BIT \in bits \/ WIFI_FAIL_BIT \in bits
    BY <1>6 DEF Decide, BitsEvidence, BeforeDecision, BeforeStart, TypeOK, Bits
  <2>2. TypeOK' /\ Prepared'
    BY <1>6 DEF Decide, TypeOK, AppSteps, Prepared, BeforeStart
  <2>3. BitsEvidence'
    BY <1>6, <2>1 DEF Decide, BitsEvidence, BeforeStart, BeforeDecision
  <2>4. QED
    BY <1>6, <2>2, <2>3, <1>a, <1>b DEF Decide
<1>7. CASE StartSoftAp
  <2>1. WIFI_FAIL_BIT \in group /\ mode # "apsta" /\ mode = "sta"
    BY <1>7 DEF StartSoftAp, BitsEvidence, BeforeDecision, BeforeStart, TypeOK,
                Bits, Prepared
  <2>2. sta = "idle" /\ ~HasTrigger(evq)
    BY <2>1 DEF DeadUntilSoftAp
  <2>3. evq' \in Seq(Events) /\ AtMostOneTrigger(evq')
    <3>1. evq \in Seq(Events) /\ AtMostOneTrigger(evq) /\ "STA_START" \in Events
      BY DEF TypeOK, OneChain, Events, Triggers
    <3>2. CASE evq' = Append(evq, "STA_START")
      BY <3>1, <3>2, <2>2, AppendTrigger
    <3>3. CASE evq' = evq
      BY <3>1, <3>3
    <3>4. QED
      BY <1>7, <3>2, <3>3 DEF StartSoftAp, Post
  <2>4. OneChain' /\ NoSilentIdle' /\ DeadUntilSoftAp'
    BY <1>7, <2>1, <2>2, <2>3
       DEF StartSoftAp, OneChain, NoSilentIdle, DeadUntilSoftAp
  <2>5. TypeOK' /\ Prepared'
    BY <1>7, <2>1, <2>3 DEF StartSoftAp, TypeOK, AppSteps, Prepared, BeforeStart
  <2>6. BitsEvidence'
    BY <1>7 DEF StartSoftAp, BitsEvidence, BeforeStart, BeforeDecision
  <2>7. QED
    BY <2>4, <2>5, <2>6, <1>b
<1>8. CASE \/ StartTask("scan", "httpd") \/ StartTask("dns", "mqtt")
           \/ StartTask("mqtt", "uart") \/ StartTask("uart", "running")
  <2>1. TypeOK' /\ Prepared'
    BY <1>8 DEF StartTask, TypeOK, AppSteps, Prepared, BeforeStart
  <2>2. BitsEvidence'
    BY <1>8 DEF StartTask, BitsEvidence, BeforeStart, BeforeDecision
  <2>3. QED
    BY <1>8, <2>1, <2>2, <1>a, <1>b DEF StartTask
<1>9. CASE StartWebserver
  <2>1. TypeOK' /\ Prepared'
    BY <1>9 DEF StartWebserver, TypeOK, AppSteps, Prepared, BeforeStart
  <2>2. BitsEvidence'
    BY <1>9 DEF StartWebserver, ServesPortal, BitsEvidence, BeforeStart, BeforeDecision
  <2>3. QED
    BY <1>9, <2>1, <2>2, <1>a, <1>b DEF StartWebserver
<1>10. QED
  BY <1>1, <1>2, <1>3, <1>4, <1>5, <1>6, <1>7, <1>8, <1>9 DEF AppMain

(* The event loop: the event taken out is the only trigger, and connect or *)
(* WIFI_FAIL_BIT takes its place.                                          *)
LEMMA EventLoopStep == IInv /\ EventLoop => IInv'
<1> SUFFICES ASSUME IInv, EventLoop PROVE IInv'
  OBVIOUS
<1> USE DEF IInv, appVars
<1>1. evq \in Seq(Events) /\ AtMostOneTrigger(evq)
  BY DEF TypeOK, OneChain
<1>2. /\ evq # <<>> /\ evq' = Tail(evq)
      /\ Head(evq) \in Events
      /\ evq' \in Seq(Events) /\ AtMostOneTrigger(evq')
      /\ Head(evq) \in Triggers => HasTrigger(evq) /\ ~HasTrigger(evq')
      /\ Head(evq) \notin Triggers => (HasTrigger(evq') <=> HasTrigger(evq))
  <2>1. evq # <<>> /\ evq' = Tail(evq)
    BY DEF EventLoop, OnStart, OnConnected, OnDisconnected, OnGotIp, Dispatch
  <2>2. 1 \in 1..Len(evq) /\ Head(evq) = evq[1]
    BY <1>1, <2>1
  <2>3. Head(evq) \in Triggers => HasTrigger(evq)
    BY <2>2 DEF HasTrigger
  <2>4. QED
    BY <1>1, <2>1, <2>3, TailTrigger
(* After the driver is started, both handlers are registered.              *)
<1>3. /\ ~BeforeStart /\ app \in AppSteps
      /\ group \in SUBSET Bits /\ sta \in {"idle", "connecting", "linked"}
      /\ "WIFI_EVENT" \in handlers /\ "IP_EVENT" \in handlers
  BY <1>2 DEF Prepared, TypeOK, BeforeStart
(* Setting a bit wakes app_main or leaves it where it is.                  *)
<1>4. ASSUME NEW b \in Bits, SetBits(b),
             UNCHANGED <<handlers, mode, tasks, routes, sta>>
      PROVE  /\ group' = group \cup {b} /\ group' \in SUBSET Bits
             /\ bits' \in SUBSET Bits /\ app' \in AppSteps
             /\ Prepared' /\ BitsEvidence'
  <2>1. group' = group \cup {b} /\ group' \in SUBSET Bits /\ group' # {}
    BY <1>3, <1>4 DEF SetBits
  <2>2. app' \in AppSteps /\ bits' \in SUBSET Bits
    BY <1>3, <1>4, <2>1 DEF SetBits, TypeOK, AppSteps
  <2>3. Prepared'
    BY <1>3, <1>4, <2>1 DEF SetBits, Prepared, BeforeStart, NoGroup, Bits,
                            WIFI_CONNECTED_BIT, WIFI_FAIL_BIT
  <2>4. BitsEvidence'
    BY <1>3, <1>4, <2>1 DEF SetBits, BitsEvidence, BeforeDecision, BeforeStart
  <2>5. QED
    BY <2>1, <2>2, <2>3, <2>4
<1>5. CASE OnStart
  <2>1. Head(evq) \in Triggers /\ HasTrigger(evq) /\ ~HasTrigger(evq')
    BY <1>2, <1>5 DEF OnStart, Dispatch, Triggers
  <2>2. sta = "idle" /\ sta' = "connecting" /\ UNCHANGED group
    BY <1>3, <1>5, <2>1 DEF OnStart, esp_wifi_connect, OneChain
  <2>3. OneChain' /\ NoSilentIdle' /\ DeadUntilSoftAp'
    BY <1>2, <1>5, <2>1, <2>2
       DEF OnStart, OneChain, NoSilentIdle, DeadUntilSoftAp
  <2>4. TypeOK'
    BY <1>2, <1>5, <2>2 DEF OnStart, TypeOK
  <2>5. Prepared' /\ BitsEvidence' /\ RetriesCountLosses'
    BY <1>3, <1>5, <2>2 DEF OnStart, Prepared, BitsEvidence, BeforeStart,
                            BeforeDecision, RetriesCountLosses
  <2>6. QED
    BY <2>3, <2>4, <2>5
<1>6. CASE OnConnected
  <2>1. HasTrigger(evq') <=> HasTrigger(evq)
    BY <1>2, <1>6 DEF OnConnected, Dispatch, Triggers
  <2>2. OneChain' /\ NoSilentIdle' /\ DeadUntilSoftAp'
    BY <1>2, <1>6, <2>1 DEF OnConnected, OneChain, NoSilentIdle, DeadUntilSoftAp
  <2>3. TypeOK'
    BY <1>2, <1>6 DEF OnConnected, TypeOK
  <2>4. Prepared' /\ BitsEvidence' /\ RetriesCountLosses'
    BY <1>3, <1>6 DEF OnConnected, Prepared, BitsEvidence, BeforeStart,
                      BeforeDecision, RetriesCountLosses
  <2>5. QED
    BY <2>2, <2>3, <2>4
<1>7. CASE OnDisconnected
  <2>1. Head(evq) \in Triggers /\ HasTrigger(evq) /\ ~HasTrigger(evq')
    BY <1>2, <1>7 DEF OnDisconnected, Dispatch, Triggers
  <2>2. sta = "idle"
    BY <1>3, <2>1 DEF OneChain
  <2>3. mode # "apsta" => WIFI_FAIL_BIT \notin group
    BY <2>1 DEF DeadUntilSoftAp
  <2>4. CASE Retry
    <3>1. sta' = "connecting" /\ UNCHANGED <<app, group, bits>>
      BY <2>2, <2>4 DEF Retry, esp_wifi_connect
    <3>2. OneChain' /\ NoSilentIdle' /\ DeadUntilSoftAp'
      BY <1>2, <1>7, <2>1, <2>3, <3>1
         DEF OnDisconnected, OneChain, NoSilentIdle, DeadUntilSoftAp
    <3>3. TypeOK' /\ RetriesCountLosses'
      BY <1>2, <1>3, <1>7, <2>4, <3>1
         DEF OnDisconnected, Retry, RetriesLeft, TypeOK, RetriesCountLosses
    <3>4. Prepared' /\ BitsEvidence'
      BY <1>3, <1>7, <3>1 DEF OnDisconnected, Prepared, BitsEvidence,
                              BeforeStart, BeforeDecision
    <3>5. QED
      BY <3>2, <3>3, <3>4
  <2>5. CASE GiveUp
    <3>1. WIFI_FAIL_BIT \in Bits /\ SetBits(WIFI_FAIL_BIT)
          /\ UNCHANGED <<handlers, mode, tasks, routes, sta, s_retry_num>>
      BY <1>7, <2>5 DEF OnDisconnected, GiveUp, ReportFailure, LeaveStation, Bits
    <3>2. /\ group' = group \cup {WIFI_FAIL_BIT} /\ group' \in SUBSET Bits
          /\ bits' \in SUBSET Bits /\ app' \in AppSteps
          /\ Prepared' /\ BitsEvidence'
      BY <1>4, <2>1, <3>1
    <3>3. OneChain' /\ NoSilentIdle' /\ DeadUntilSoftAp'
      BY <1>2, <2>1, <2>2, <3>1, <3>2
         DEF OneChain, NoSilentIdle, DeadUntilSoftAp
    <3>4. TypeOK' /\ RetriesCountLosses'
      BY <1>2, <1>3, <1>7, <2>5, <3>1, <3>2
         DEF OnDisconnected, GiveUp, RetriesLeft, TypeOK, RetriesCountLosses
    <3>5. QED
      BY <3>2, <3>3, <3>4
  <2>6. QED
    BY <1>3, <1>7, <2>4, <2>5 DEF OnDisconnected
<1>8. CASE OnGotIp
  <2>1. HasTrigger(evq') <=> HasTrigger(evq)
    BY <1>2, <1>8 DEF OnGotIp, Dispatch, Triggers
  <2>2. /\ WIFI_CONNECTED_BIT \in Bits /\ SetBits(WIFI_CONNECTED_BIT)
        /\ UNCHANGED <<handlers, mode, tasks, routes, sta>>
        /\ WIFI_CONNECTED_BIT \in group'
    BY <1>3, <1>8 DEF OnGotIp, SetBits, Bits
  <2>3. /\ group' = group \cup {WIFI_CONNECTED_BIT} /\ group' \in SUBSET Bits
        /\ bits' \in SUBSET Bits /\ app' \in AppSteps
        /\ Prepared' /\ BitsEvidence'
    BY <1>4, <2>2
  <2>4. OneChain' /\ NoSilentIdle' /\ DeadUntilSoftAp'
    BY <1>2, <2>1, <2>2, <2>3
       DEF OneChain, NoSilentIdle, DeadUntilSoftAp, WIFI_CONNECTED_BIT, WIFI_FAIL_BIT
  <2>5. TypeOK' /\ RetriesCountLosses'
    BY <1>2, <1>3, <1>8, <2>2, <2>3
       DEF OnGotIp, ResetRetries, TypeOK, RetriesCountLosses
  <2>6. QED
    BY <2>3, <2>4, <2>5
<1>9. QED
  BY <1>5, <1>6, <1>7, <1>8 DEF EventLoop

(* The environment: an attempt that ends badly, or a link that is lost,    *)
(* hands the chain over from the driver to the queue.                      *)
LEMMA EnvironmentStep == IInv /\ Environment => IInv'
<1> SUFFICES ASSUME IInv, Environment PROVE IInv'
  OBVIOUS
<1> USE DEF IInv, appVars
<1>1. /\ UNCHANGED <<app, group, bits, handlers, mode, tasks, routes>>
      /\ UNCHANGED <<s_retry_num, streak>>
      /\ ~BeforeStart
  BY DEF Environment, AttemptFails, Associate, LinkLost, DhcpAck, PostGotIp,
         Prepared
<1>2. evq \in Seq(Events) /\ AtMostOneTrigger(evq)
  BY DEF TypeOK, OneChain
<1>3. RetriesCountLosses' /\ BitsEvidence'
  BY <1>1 DEF RetriesCountLosses, BitsEvidence, BeforeStart, BeforeDecision
<1>4. Prepared' <=> sta' # "down"
  BY <1>1 DEF Prepared, BeforeStart
<1>5. CASE AttemptFails \/ LinkLost
  <2>1. sta \in {"connecting", "linked"} /\ sta' = "idle"
        /\ evq' = Append(evq, "STA_DISCONNECTED") /\ UNCHANGED netif
    BY <1>5 DEF AttemptFails, LinkLost, Post
  <2>2. ~HasTrigger(evq) /\ (mode # "apsta" => WIFI_FAIL_BIT \notin group)
    BY <2>1 DEF OneChain, DeadUntilSoftAp
  <2>3. evq' \in Seq(Events) /\ HasTrigger(evq') /\ AtMostOneTrigger(evq')
    BY <1>2, <2>1, <2>2, AppendTrigger DEF Events, Triggers
  <2>4. OneChain' /\ NoSilentIdle' /\ DeadUntilSoftAp'
    BY <1>1, <2>1, <2>2, <2>3 DEF OneChain, NoSilentIdle, DeadUntilSoftAp
  <2>5. TypeOK'
    BY <1>1, <2>1, <2>3 DEF TypeOK
  <2>6. QED
    BY <1>3, <1>4, <2>1, <2>4, <2>5
<1>6. CASE Associate \/ PostGotIp
  <2>1. PICK e \in {"STA_CONNECTED", "STA_GOT_IP"} : evq' = Append(evq, e)
    BY <1>6 DEF Associate, PostGotIp, Post
  <2>2. /\ evq' \in Seq(Events) /\ AtMostOneTrigger(evq')
        /\ HasTrigger(evq') <=> HasTrigger(evq)
    BY <1>2, <2>1, AppendTrigger DEF Events, Triggers
  <2>3. \/ sta = "connecting" /\ sta' = "linked" /\ UNCHANGED netif
        \/ UNCHANGED sta /\ netif' = "bound"
    BY <1>6 DEF Associate, PostGotIp
  <2>4. OneChain' /\ NoSilentIdle' /\ DeadUntilSoftAp'
    BY <1>1, <2>2, <2>3 DEF OneChain, NoSilentIdle, DeadUntilSoftAp
  <2>5. TypeOK'
    BY <1>1, <2>2, <2>3 DEF TypeOK
  <2>6. sta' # "down"
    BY <1>1, <2>3 DEF Prepared
  <2>7. QED
    BY <1>3, <1>4, <2>4, <2>5, <2>6
<1>7. CASE DhcpAck
  BY <1>1, <1>3, <1>7 DEF DhcpAck, TypeOK, Prepared, BeforeStart, OneChain,
                          NoSilentIdle, DeadUntilSoftAp
<1>8. QED
  BY <1>5, <1>6, <1>7 DEF Environment

(* A reset leads back to the initial state.                                *)
LEMMA ResetStep == Reset => Init'
BY DEF Reset, Init

LEMMA StutterStep == IInv /\ UNCHANGED vars => IInv'
BY DEF IInv, vars, TypeOK, Prepared, BitsEvidence, OneChain,
       NoSilentIdle, DeadUntilSoftAp, RetriesCountLosses, BeforeStart,
       BeforeDecision

-----------------------------------------------------------------------------
(* The theorems.                                                           *)

(* The inductive invariant holds of every behavior of wifi_init_sta and    *)
(* STA_event_handler, whatever the number of retries.                      *)
THEOREM Invariance == Spec => []IInv
<1>1. Reset => IInv'
  BY InitIInv, ResetStep, PTL
<1>2. IInv /\ [Next]_vars => IInv'
  BY AppMainStep, EventLoopStep, EnvironmentStep, StutterStep, <1>1 DEF Next
<1>3. QED
  BY InitIInv, <1>2, PTL DEF Spec

(* Every variable keeps its type; in particular s_retry_num never passes   *)
(* EXAMPLE_ESP_MAXIMUM_RETRY.                                              *)
THEOREM TypeCorrect == Spec => []TypeOK
<1>1. IInv => TypeOK
  BY DEF IInv
<1>2. QED
  BY Invariance, <1>1, PTL

(* STA_event_handler never asks for a second connection beside a running   *)
(* one.                                                                    *)
THEOREM RetryChainSingle == Spec => []OneChain
<1>1. IInv => OneChain
  BY DEF IInv
<1>2. QED
  BY Invariance, <1>1, PTL

(* STA_event_handler never loses the chain: no idle station without a      *)
(* trigger or WIFI_FAIL_BIT.                                               *)
THEOREM RetryChainAlive == Spec => []NoSilentIdle
<1>1. IInv => NoSilentIdle
  BY DEF IInv
<1>2. QED
  BY Invariance, <1>1, PTL

(* After the retries ran out, a gateway left in station mode is offline    *)
(* until its next reset.                                                   *)
THEOREM GivingUpIsFinal == Spec => []GivenUpStaysOffline
<1>1. IInv => GivenUpStaysOffline
  BY DEF IInv, DeadUntilSoftAp, GivenUpStaysOffline
<1>2. QED
  BY Invariance, <1>1, PTL

(* start_webserver serves the portal only after a failed connection.       *)
THEOREM PortalSound == Spec => []PortalOnlyAfterFailure
<1>1. IInv => PortalOnlyAfterFailure
  BY DEF IInv, BitsEvidence, BeforeDecision, TypeOK, Bits, PortalOnlyAfterFailure
<1>2. QED
  BY Invariance, <1>1, PTL

(* The code implements the promise of wifi_init_sta's comment: its verdict *)
(* is given once, and only on the evidence for it.                         *)
THEOREM KeepsPromise == Spec => ImplementsPromise
<1> USE DEF Verdict, Undecided, WIFI_CONNECTED_BIT, WIFI_FAIL_BIT
<1>1. Init => Promise!Init
  <2>1. Init => Verdict = "none"
    BY DEF Init
  <2>2. Init => ~(WIFI_CONNECTED_BIT \in group) /\ ~(WIFI_FAIL_BIT \in group)
    BY DEF Init, NoGroup
  <2>3. QED
    BY <2>1, <2>2 DEF Init, Promise!Init
<1>2. IInv /\ [Next]_vars => [Promise!Next]_Promise!vars
  <2> SUFFICES ASSUME IInv, [Next]_vars
               PROVE  \/ Promise!Next
                      \/ UNCHANGED <<streak, WIFI_CONNECTED_BIT \in group,
                                     WIFI_FAIL_BIT \in group, Verdict>>
    BY DEF Promise!vars
  <2> USE DEF IInv, appVars, AppStep, station, services
  <2>1. CASE AppMain
    <3>1. CASE Decide
      <4>1. /\ Verdict = "none"
            /\ WIFI_CONNECTED_BIT \in bits \/ WIFI_FAIL_BIT \in bits
            /\ bits \subseteq group /\ mode # "apsta"
        BY <3>1 DEF Decide, BitsEvidence, BeforeDecision, BeforeStart,
                    TypeOK, Bits
      <4>2. \/ WIFI_CONNECTED_BIT \in group /\ Verdict' = "station"
            \/ WIFI_FAIL_BIT \in group /\ Verdict' = "portal"
        BY <3>1, <4>1 DEF Decide
      <4>3. QED
        BY <3>1, <4>1, <4>2 DEF Decide, Promise!Next, Promise!Decide
    <3>2. CASE AppMain /\ ~Decide
      <4>1. /\ UNCHANGED <<streak, Verdict>>
            /\ WIFI_CONNECTED_BIT \in group' <=> WIFI_CONNECTED_BIT \in group
            /\ WIFI_FAIL_BIT \in group' <=> WIFI_FAIL_BIT \in group
        <5>1. CASE CreateGroup
          BY <5>1 DEF CreateGroup, Prepared, NoGroup
        <5>2. CASE StartStation
          BY <5>2 DEF StartStation
        <5>3. CASE StartSoftAp
          BY <5>3 DEF StartSoftAp
        <5>4. CASE WifiInit \/ RegisterHandlers \/ WaitBits
          BY <5>4 DEF WifiInit, RegisterHandlers, WaitBits
        <5>5. CASE \/ StartTask("scan", "httpd") \/ StartTask("dns", "mqtt")
                   \/ StartTask("mqtt", "uart") \/ StartTask("uart", "running")
                   \/ StartWebserver
          BY <5>5 DEF StartTask, StartWebserver
        <5>6. QED
          BY <3>2, <5>1, <5>2, <5>3, <5>4, <5>5 DEF AppMain
      <4>2. QED
        BY <4>1
    <3>3. QED
      BY <2>1, <3>1, <3>2
  <2>2. CASE OnDisconnected
    <3>1. UNCHANGED Verdict
      BY <2>2 DEF OnDisconnected, Retry, GiveUp, ReportFailure, SetBits
    <3>2. CASE "WIFI_EVENT" \in handlers
      <4>1. streak' = streak + 1
        BY <2>2, <3>2 DEF OnDisconnected
      <4>2. CASE Retry
        BY <4>1, <4>2, <3>1
           DEF Retry, RetriesLeft, RetriesCountLosses, TypeOK, Promise!Next,
               Promise!Lose
      <4>3. CASE GiveUp
        BY <4>1, <4>3, <3>1
           DEF GiveUp, RetriesLeft, ReportFailure, SetBits, RetriesCountLosses,
               TypeOK, Promise!Next, Promise!Lose
      <4>4. QED
        BY <2>2, <3>2, <4>2, <4>3 DEF OnDisconnected
    <3>3. CASE "WIFI_EVENT" \notin handlers
      BY <2>2, <3>1, <3>3 DEF OnDisconnected
    <3>4. QED
      BY <3>2, <3>3
  <2>3. CASE OnGotIp
    <3>1. UNCHANGED Verdict
      BY <2>3 DEF OnGotIp, SetBits
    <3>2. QED
      BY <2>3, <3>1 DEF OnGotIp, SetBits, Promise!Next, Promise!Establish
  <2>4. CASE \/ OnStart \/ OnConnected \/ Environment \/ UNCHANGED vars
    <3>1. UNCHANGED <<streak, group, app, mode>>
      BY <2>4 DEF OnStart, OnConnected, Environment, AttemptFails, Associate,
                  LinkLost, DhcpAck, PostGotIp, vars
    <3>2. QED
      BY <3>1
  <2>5. CASE Reset
    <3>1. Verdict' = "none"
      BY <2>5 DEF Reset
    <3>2. WIFI_CONNECTED_BIT \notin group' /\ WIFI_FAIL_BIT \notin group'
      BY <2>5 DEF Reset, NoGroup
    <3>3. QED
      BY <2>5, <3>1, <3>2 DEF Reset, Promise!Next, Promise!Reboot
  <2>6. QED
    BY <2>1, <2>2, <2>3, <2>4, <2>5 DEF Next, EventLoop
<1>3. QED
  BY Invariance, <1>1, <1>2, PTL DEF Spec, ImplementsPromise, Promise!Spec

=============================================================================
