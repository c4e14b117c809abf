------------------------------ MODULE StaBoot ------------------------------
(***************************************************************************)
(* The station of the gateway from reset on: app_main brings the Wi-Fi     *)
(* driver up, the default event loop runs STA_event_handler, the handler   *)
(* retries, and app_main, blocked on the event group, returns to start the *)
(* services or opens the configuration portal first.                       *)
(*                                                                         *)
(* Four tasks interleave: app_main, the event loop task, the Wi-Fi driver  *)
(* and the TCP/IP task that runs the DHCP client.  The last two belong to  *)
(* ESP-IDF; they are modelled from the calls made to them and the events   *)
(* the handler expects back.  The chip may reset at any moment.            *)
(***************************************************************************)
EXTENDS Naturals, Sequences

CONSTANT EXAMPLE_ESP_MAXIMUM_RETRY  \* reconnect attempts before giving up (5)

ASSUME RetryAssumption == EXAMPLE_ESP_MAXIMUM_RETRY \in Nat

VARIABLES
  app,          \* where app_main stands
  group,        \* bits of s_wifi_event_group, or NoGroup before its creation
  bits,         \* what xEventGroupWaitBits returned
  handlers,     \* the handlers registered with the event loop
  mode,         \* the Wi-Fi mode set last
  sta,          \* the driver's station interface
  netif,        \* the station's network interface and its DHCP client
  evq,          \* the queue of the default event loop
  s_retry_num,  \* retries since the last address
  tasks,        \* services app_main has started
  routes,       \* URI handlers the web server serves
  streak        \* history: losses handled in a row since the last address

appVars == <<app, bits, handlers, mode, tasks, routes>>
station == <<handlers, mode, sta, evq>>
services == <<tasks, routes>>
vars == <<app, group, bits, handlers, mode, sta, netif, evq, s_retry_num,
          tasks, routes, streak>>

WIFI_CONNECTED_BIT == "connected"
WIFI_FAIL_BIT == "fail"
Bits == {WIFI_CONNECTED_BIT, WIFI_FAIL_BIT}
NoGroup == {"no group"}

(* Events STA_event_handler or the default handlers act on; a trigger is   *)
(* one on which STA_event_handler may call esp_wifi_connect.               *)
Triggers == {"STA_START", "STA_DISCONNECTED"}
Events == Triggers \cup {"STA_CONNECTED", "STA_GOT_IP"}

AppSteps == {"init", "group", "register", "start", "wait", "blocked",
             "decide", "softap", "scan", "httpd", "dns", "mqtt", "uart",
             "running"}
PortalRoutes == {"/", "/api/wifi_list", "/api/wifi_config", "404"}

Init == /\ app = "init" /\ group = NoGroup /\ bits = {} /\ handlers = {}
        /\ mode = "null" /\ sta = "down" /\ netif = "down" /\ evq = <<>>
        /\ s_retry_num = 0 /\ tasks = {} /\ routes = {} /\ streak = 0

-----------------------------------------------------------------------------
(* The services of ESP-IDF the code calls.                                 *)

Post(e) == evq' = Append(evq, e)

esp_wifi_connect == sta' = IF sta = "idle" THEN "connecting" ELSE sta

(* A task blocked in xEventGroupWaitBits gets the bits as they are at the  *)
(* moment they are set, not as they are when it runs again.                *)
SetBits(b) == /\ group' = group \cup {b}
              /\ IF app = "blocked"
                 THEN app' = "decide" /\ bits' = group'
                 ELSE UNCHANGED <<app, bits>>

-----------------------------------------------------------------------------
(* app_main, step by step.                                                 *)

AppStep(here, next) == /\ app = here /\ app' = next
                       /\ UNCHANGED <<netif, s_retry_num, streak>>

(* wifi_init and nvs_read; no event can occur yet.                         *)
WifiInit == /\ AppStep("init", "group")
            /\ UNCHANGED <<group, bits, station, services>>

CreateGroup == /\ AppStep("group", "register")
               /\ group' = {}
               /\ UNCHANGED <<bits, station, services>>

(* Slip: WIFI_EVENT is not registered.                                     *)
HandledIpOnly == {"IP_EVENT"}

Handled == {"WIFI_EVENT", "IP_EVENT"}

RegisterHandlers == /\ AppStep("register", "start")
                    /\ handlers' = handlers \cup Handled
                    /\ UNCHANGED <<group, bits, mode, sta, evq, services>>

(* Slip: wifi_init_sta connects, too, right after esp_wifi_start.          *)
StartedConnecting == "connecting"

Started == "idle"

StartStation == /\ AppStep("start", "wait")
                /\ mode' = "sta" /\ sta' = Started
                /\ Post("STA_START")
                /\ UNCHANGED <<group, bits, handlers, services>>

(* xEventGroupWaitBits: returns at once if a bit is set, else blocks.      *)
WaitBits == /\ \/ /\ group \cap Bits # {}
                  /\ AppStep("wait", "decide") /\ bits' = group
               \/ /\ group \cap Bits = {}
                  /\ AppStep("wait", "blocked") /\ UNCHANGED bits
            /\ UNCHANGED <<group, station, services>>

(* CONNECTED is looked at first; a wake-up without either bit falls        *)
(* through to the services like a connection.                              *)
Decide == /\ AppStep("decide", IF /\ WIFI_CONNECTED_BIT \notin bits
                                  /\ WIFI_FAIL_BIT \in bits
                               THEN "softap" ELSE "scan")
          /\ UNCHANGED <<group, bits, station, services>>

(* wifi_init_softapsta.  esp_wifi_start is called on a started driver;     *)
(* whether that reports STA_START once more is the driver's affair.        *)
(* AP_event_handler only logs.                                             *)
StartSoftAp == /\ AppStep("softap", "scan")
               /\ handlers' = handlers \cup {"AP_EVENT"}
               /\ mode' = "apsta"
               /\ Post("STA_START") \/ UNCHANGED evq
               /\ UNCHANGED <<group, bits, sta, services>>

StartTask(here, next) == /\ AppStep(here, next)
                         /\ tasks' = tasks \cup {here}
                         /\ UNCHANGED <<group, bits, station, routes>>

(* Slip: the routes are registered whatever the mode.                      *)
ServesAlways == TRUE

ServesPortal == mode = "apsta"

(* start_webserver; httpd_start may fail, and only its log would tell.     *)
StartWebserver == /\ AppStep("httpd", "dns")
                  /\ \/ /\ tasks' = tasks \cup {"httpd"}
                        /\ routes' = IF ServesPortal THEN PortalRoutes ELSE {}
                     \/ UNCHANGED services
                  /\ UNCHANGED <<group, bits, station>>

AppMain == \/ WifiInit \/ CreateGroup \/ RegisterHandlers \/ StartStation
           \/ WaitBits \/ Decide \/ StartSoftAp
           \/ StartTask("scan", "httpd")
           \/ StartWebserver
           \/ StartTask("dns", "mqtt")
           \/ StartTask("mqtt", "uart")
           \/ StartTask("uart", "running")

-----------------------------------------------------------------------------
(* The event loop task: one event at a time, the default handlers of the   *)
(* network interface first, then STA_event_handler where registered.       *)

Dispatch(e) == evq # <<>> /\ Head(evq) = e /\ evq' = Tail(evq)

OnStart == /\ Dispatch("STA_START")
           /\ IF "WIFI_EVENT" \in handlers THEN esp_wifi_connect ELSE UNCHANGED sta
           /\ UNCHANGED <<appVars, group, netif, s_retry_num, streak>>

(* The default handler starts the DHCP client; STA_event_handler ignores   *)
(* the event.                                                              *)
OnConnected == /\ Dispatch("STA_CONNECTED")
               /\ netif' = "dhcp"
               /\ UNCHANGED <<appVars, group, sta, s_retry_num, streak>>

(* Slip: off by one, the retries include the one at the maximum.           *)
RetriesLeftInclusive == s_retry_num <= EXAMPLE_ESP_MAXIMUM_RETRY

RetriesLeft == s_retry_num < EXAMPLE_ESP_MAXIMUM_RETRY

Retry == /\ RetriesLeft
         /\ esp_wifi_connect
         /\ s_retry_num' = s_retry_num + 1
         /\ UNCHANGED <<app, group, bits>>

(* Slips: the handler goes on connecting after it set the bit; it logs the *)
(* failure and sets no bit.                                                *)
ConnectAgain == esp_wifi_connect
ReportNothing == UNCHANGED <<app, group, bits>>

LeaveStation == UNCHANGED sta
ReportFailure == SetBits(WIFI_FAIL_BIT)

GiveUp == ~RetriesLeft /\ ReportFailure /\ LeaveStation /\ UNCHANGED s_retry_num

OnDisconnected == /\ Dispatch("STA_DISCONNECTED")
                  /\ netif' = "down"
                  /\ IF "WIFI_EVENT" \in handlers
                     THEN (Retry \/ GiveUp) /\ streak' = streak + 1
                     ELSE UNCHANGED <<app, group, bits, sta, s_retry_num, streak>>
                  /\ UNCHANGED <<handlers, mode, tasks, routes>>

(* Slip: an address does not reset the count.                              *)
KeepRetries == UNCHANGED s_retry_num

ResetRetries == s_retry_num' = 0

OnGotIp == /\ Dispatch("STA_GOT_IP")
           /\ IF "IP_EVENT" \in handlers
              THEN /\ ResetRetries
                   /\ SetBits(WIFI_CONNECTED_BIT)
                   /\ streak' = 0
              ELSE UNCHANGED <<app, group, bits, s_retry_num, streak>>
           /\ UNCHANGED <<handlers, mode, sta, netif, tasks, routes>>

EventLoop == OnStart \/ OnConnected \/ OnDisconnected \/ OnGotIp

-----------------------------------------------------------------------------
(* The driver and the TCP/IP task: the environment.                        *)

AttemptFails == /\ sta = "connecting"
                /\ sta' = "idle"
                /\ Post("STA_DISCONNECTED")
                /\ UNCHANGED <<appVars, group, netif, s_retry_num, streak>>

Associate == /\ sta = "connecting"
             /\ sta' = "linked"
             /\ Post("STA_CONNECTED")
             /\ UNCHANGED <<appVars, group, netif, s_retry_num, streak>>

LinkLost == /\ sta = "linked"
            /\ sta' = "idle"
            /\ Post("STA_DISCONNECTED")
            /\ UNCHANGED <<appVars, group, netif, s_retry_num, streak>>

(* The DHCP server's answer needs the link; the event that reports it is   *)
(* posted by another task and may come after the link is lost.             *)
DhcpAck == /\ sta = "linked" /\ netif = "dhcp"
           /\ netif' = "acked"
           /\ UNCHANGED <<appVars, group, sta, evq, s_retry_num, streak>>

PostGotIp == /\ netif = "acked"
             /\ netif' = "bound"
             /\ Post("STA_GOT_IP")
             /\ UNCHANGED <<appVars, group, sta, s_retry_num, streak>>

Environment == AttemptFails \/ Associate \/ LinkLost \/ DhcpAck \/ PostGotIp

(* A failed ESP_ERROR_CHECK, esp_restart after a configuration, the reset  *)
(* button: whatever was reached is lost, and app_main starts again.        *)
Reset == /\ app' = "init" /\ group' = NoGroup /\ bits' = {} /\ handlers' = {}
         /\ mode' = "null" /\ sta' = "down" /\ netif' = "down" /\ evq' = <<>>
         /\ s_retry_num' = 0 /\ tasks' = {} /\ routes' = {} /\ streak' = 0

Next == AppMain \/ EventLoop \/ Environment \/ Reset

Spec == Init /\ [][Next]_vars

(* FreeRTOS runs every ready task in the end, and the driver answers every *)
(* attempt.  Nothing obliges a DHCP server to answer or a link to hold.    *)
FairSpec == /\ Spec
            /\ WF_vars(AppMain)
            /\ WF_vars(EventLoop)
            /\ WF_vars(AttemptFails \/ Associate)
            /\ WF_vars(PostGotIp)

-----------------------------------------------------------------------------
(* Properties.                                                             *)

TypeOK == /\ app \in AppSteps
          /\ group \in (SUBSET Bits) \cup {NoGroup}
          /\ bits \in SUBSET Bits
          /\ handlers \in SUBSET {"WIFI_EVENT", "IP_EVENT", "AP_EVENT"}
          /\ mode \in {"null", "sta", "apsta"}
          /\ sta \in {"down", "idle", "connecting", "linked"}
          /\ netif \in {"down", "dhcp", "acked", "bound"}
          /\ evq \in Seq(Events)
          /\ s_retry_num \in 0..EXAMPLE_ESP_MAXIMUM_RETRY
          /\ tasks \in SUBSET {"scan", "httpd", "dns", "mqtt", "uart"}
          /\ routes \in SUBSET PortalRoutes
          /\ streak \in Nat

HasTrigger(q) == \E i \in 1..Len(q) : q[i] \in Triggers
AtMostOneTrigger(q) ==
  \A i, j \in 1..Len(q) : q[i] \in Triggers /\ q[j] \in Triggers => i = j

(* The retry chain is never doubled: STA_event_handler calls connect only  *)
(* on an idle station, because at most one event that makes it do so is    *)
(* ever queued, and none while an attempt or a link is up.                 *)
OneChain == /\ AtMostOneTrigger(evq)
            /\ sta \in {"connecting", "linked"} => ~HasTrigger(evq)

(* The retry chain is never dropped: a started station that is idle has a  *)
(* trigger on its way to STA_event_handler, unless WIFI_FAIL_BIT says that *)
(* the retries ran out.                                                    *)
NoSilentIdle == sta = "idle" /\ ~HasTrigger(evq) => WIFI_FAIL_BIT \in group

(* Giving up is final: once WIFI_FAIL_BIT is set, a gateway in station     *)
(* mode never tries to connect again before the next reset, although       *)
(* app_main may have found it connected and opened no portal.              *)
GivenUpStaysOffline ==
  WIFI_FAIL_BIT \in group /\ mode = "sta" => sta = "idle" /\ ~HasTrigger(evq)

(* The portal's pages are served only when app_main saw the retries run    *)
(* out and no connection, so never beside a verdict of connected.          *)
PortalOnlyAfterFailure ==
  routes # {} => WIFI_FAIL_BIT \in bits /\ WIFI_CONNECTED_BIT \notin bits

(* Boot settles: app_main starts all its services, or stays blocked on a   *)
(* link that holds and whose DHCP server never answers, unless the chip is *)
(* reset for ever.  Every other way for the connection to go wrong ends in *)
(* WIFI_FAIL_BIT.                                                          *)
BootSettles == \/ <>[](app = "running")
               \/ <>[](app = "blocked" /\ sta = "linked")
               \/ []<>(app = "init")

(* The promise of wifi_init_sta, see BootPromise.                          *)
Undecided == {"init", "group", "register", "start", "wait", "blocked", "decide"}
Verdict == IF app \in Undecided THEN "none"
           ELSE IF app = "softap" \/ mode = "apsta" THEN "portal"
           ELSE "station"

Promise == INSTANCE BootPromise
             WITH failures <- streak,
                  established <- WIFI_CONNECTED_BIT \in group,
                  exhausted <- WIFI_FAIL_BIT \in group,
                  verdict <- Verdict

(* wifi_init_sta returns connected only after an address was obtained, and *)
(* opens the portal only after the first try and every retry failed in a   *)
(* row, whatever the order in which the tasks run.                         *)
ImplementsPromise == Promise!Spec
=============================================================================
